-------------------------------- MODULE Server --------------------------------
(***************************************************************************)
(* The userprefs-server command and its HTTP API (cmd/userprefs-server,    *)
(* api): main, the goroutine that serves, a goroutine for each request,    *)
(* and signals. Requests define and look up preference definitions; none   *)
(* touches storage or cache.                                               *)
(*                                                                         *)
(* External, as the code uses it: net/http (ListenAndServe, which fails,   *)
(* or serves until Shutdown; Shutdown, which refuses new requests and      *)
(* waits for active ones until its context ends; read and write timeouts   *)
(* that end a request) and os/signal (the default action until Notify; a   *)
(* signal that does not fit in the channel is dropped).                    *)
(***************************************************************************)
EXTENDS Naturals

CONSTANTS
    Keys, Versions,
    BuiltIn,        \* the keys main defines itself
    Requests,       \* goroutines of requests; bound: the number of requests
    MaxSignals,     \* bound: SIGINT and SIGTERM sent
    Faults,         \* a subset of {"bind", "accept", "network"}
    None

ASSUME BuiltInAssumption == BuiltIn \subseteq Keys
ASSUME SignalAssumption == MaxSignals \in Nat
ASSUME VersionAssumption == Versions # {} /\ None \notin Keys \cup Versions

VARIABLES
    main,       \* where main stands
    status,     \* of the process: "running", an exit code, or "killed"
    serve,      \* the goroutine that calls ListenAndServe
    closing,    \* Shutdown was called
    late,       \* Shutdown's context ended first
    cacheOpen,
    notified, quit, \* signal.Notify was called; the signals in its channel
    sent,       \* signals so far, and whether one came after Notify
    defs,       \* the Manager's registry
    req

vars == <<main, status, serve, closing, late, cacheOpen, notified, quit, sent, defs, req>>
life == <<closing, late, cacheOpen>>
signals == <<notified, quit, sent>>

\* What a POST carries: a definition, or what is wrong with it.
Bodies == [key : Keys, version : Versions, flaw : {"none", "key", "type", "encrypted"}]
          \cup [flaw : {"payload"}]
Calls == [op : {"post"}, body : Bodies] \cup [op : {"get"}, key : Keys]
         \cup [op : {"list", "health"}]

Unsent == [at |-> "unsent"]
Active(r) == req[r].at \in {"active", "defining", "replying"}
Running == status = "running"

-----------------------------------------------------------------------------
(* main.                                                                   *)

\* Storage, cache, Manager, the two definitions and the server, which no one else sees
\* yet; none of these steps fails with the arguments main gives them.
Setup ==
    /\ Running /\ main = "setup"
    /\ defs' = [k \in Keys |-> IF k \in BuiltIn THEN CHOOSE v \in Versions : TRUE ELSE None]
    /\ cacheOpen' = TRUE
    /\ main' = "go"
    /\ UNCHANGED <<status, serve, closing, late, signals, req>>

Go ==
    /\ Running /\ main = "go"
    /\ serve' = "starting" /\ main' = "notify"
    /\ UNCHANGED <<status, life, signals, defs, req>>

Notify ==
    /\ Running /\ main = "notify"
    /\ notified' = TRUE /\ main' = "notified"
    /\ UNCHANGED <<status, serve, life, quit, sent, defs, req>>

\* The goroutine reaches the receive.
Wait ==
    /\ Running /\ main = "notified"
    /\ main' = "wait"
    /\ UNCHANGED <<status, serve, life, signals, defs, req>>

\* <-quit, then Stop: Shutdown closes the listener.
Receive ==
    /\ Running /\ main = "wait" /\ quit > 0
    /\ quit' = quit - 1
    /\ closing' = TRUE /\ main' = "drain"
    /\ UNCHANGED <<status, serve, late, cacheOpen, notified, sent, defs, req>>

\* Mutant of Drain: the error of a Shutdown that timed out is taken for its end, and so
\* is one that has just begun.
DrainAtOnce ==
    /\ Running /\ main = "drain"
    /\ main' = "close"
    /\ UNCHANGED <<status, serve, life, signals, defs, req>>

\* Shutdown returns when nothing is active, or after 30 seconds; its error is logged.
Drain ==
    /\ Running /\ main = "drain"
    /\ \/ (\A r \in Requests : ~Active(r)) /\ UNCHANGED late
       \/ (\E r \in Requests : Active(r)) /\ late' = TRUE
    /\ main' = "close"
    /\ UNCHANGED <<status, serve, closing, cacheOpen, signals, defs, req>>

CloseCache ==
    /\ Running /\ main = "close"
    /\ cacheOpen' = FALSE /\ main' = "return"
    /\ UNCHANGED <<status, serve, closing, late, signals, defs, req>>

\* main returns: the process ends with whatever still runs in it.
Exit ==
    /\ Running /\ main = "return"
    /\ status' = "0"
    /\ UNCHANGED <<main, serve, life, signals, defs, req>>

-----------------------------------------------------------------------------
(* The goroutine that serves.                                              *)

\* Mutant of Failed: Start's error is logged only.
FailedQuietly == serve' = "returned" /\ UNCHANGED status

\* Start returned an error that is not ErrServerClosed: os.Exit(1).
Failed == status' = "1" /\ UNCHANGED serve

\* ListenAndServe asks whether Shutdown was called, then binds the address.
Listen ==
    /\ Running /\ serve = "starting"
    /\ serve' = IF closing THEN "returned" ELSE "binding"
    /\ UNCHANGED <<main, status, life, signals, defs, req>>

Bind ==
    /\ Running /\ serve = "binding"
    /\ \/ serve' = "bound" /\ UNCHANGED status
       \/ "bind" \in Faults /\ Failed
    /\ UNCHANGED <<main, life, signals, defs, req>>

\* Serve, unless Shutdown was called in between.
Serve ==
    /\ Running /\ serve = "bound"
    /\ serve' = IF closing THEN "returned" ELSE "serving"
    /\ UNCHANGED <<main, status, life, signals, defs, req>>

\* Accept fails, or Shutdown makes Serve return ErrServerClosed, which Start and the
\* goroutine take for success.
ServeReturns ==
    /\ Running /\ serve = "serving"
    /\ \/ closing /\ serve' = "returned" /\ UNCHANGED status
       \/ ~closing /\ "accept" \in Faults /\ Failed
    /\ UNCHANGED <<main, life, signals, defs, req>>

-----------------------------------------------------------------------------
(* Signals.                                                                *)

\* Mutant of Queued: a channel without a buffer, which takes a signal only when main is
\* at the receive.
QueuedUnbuffered == IF main = "wait" /\ quit = 0 THEN 1 ELSE quit

\* Mutant of Queued: a channel without a limit.
QueuedAll == quit + 1

\* The channel holds one signal.
Queued == IF quit = 0 THEN 1 ELSE quit

Signal ==
    /\ Running /\ sent.count < MaxSignals
    /\ sent' = [count |-> sent.count + 1, asked |-> sent.asked \/ notified]
    /\ IF notified THEN quit' = Queued /\ UNCHANGED status
                   ELSE status' = "killed" /\ UNCHANGED quit
    /\ UNCHANGED <<main, serve, life, notified, defs, req>>

-----------------------------------------------------------------------------
(* Requests. Each goes through the middleware to a handler.                *)

Update(r, new) == /\ Running
                  /\ req' = [req EXCEPT ![r] = new]
                  /\ UNCHANGED <<main, status, serve, life, signals>>

\* known: the keys that a finished request, or main, has defined.
Known == {k \in BuiltIn : main # "setup"}
         \cup {req[s].call.body.key : s \in {t \in Requests :
                   req[t].at = "answered" /\ req[t].call.op = "post" /\ req[t].code = 201}}

Arrive(r, c) ==
    /\ req[r] = Unsent
    /\ serve = "serving" /\ ~closing
    /\ Update(r, [at |-> "active", call |-> c, code |-> 0, known |-> Known])
    /\ UNCHANGED defs

Reply(r, code) == Update(r, [req[r] EXCEPT !.at = "replying", !.code = code])

\* The body does not come, is too long, no JSON, or has unknown fields.
Decode(r) ==
    /\ req[r].at = "active" /\ req[r].call.op = "post"
    /\ \/ req[r].call.body.flaw = "payload" /\ Reply(r, 400)
       \/ req[r].call.body.flaw # "payload" /\ Update(r, [req[r] EXCEPT !.at = "defining"])
       \/ "network" \in Faults /\ Reply(r, 400)
    /\ UNCHANGED defs

\* Mutant of Answer: what the Manager refuses counts as defined.
AnswerSuccess(flaw) == 201

\* Only two of the Manager's errors are the client's fault to the handler.
Answer(flaw) == CASE flaw = "none" -> 201
                  [] flaw = "type" -> 400
                  [] OTHER -> 500

\* Manager.DefinePreference replaces what it knew of the key.
Define(r) ==
    /\ req[r].at = "defining"
    /\ LET body == req[r].call.body IN
       /\ defs' = IF body.flaw = "none" THEN [defs EXCEPT ![body.key] = body.version] ELSE defs
       /\ Reply(r, Answer(body.flaw))

Get(r) ==
    /\ req[r].at = "active" /\ req[r].call.op = "get"
    /\ Reply(r, IF defs[req[r].call.key] = None THEN 404 ELSE 200)
    /\ UNCHANGED defs

\* The list of definitions, or "OK".
ListOrHealth(r) ==
    /\ req[r].at = "active" /\ req[r].call.op \in {"list", "health"}
    /\ Reply(r, 200)
    /\ UNCHANGED defs

\* The answer is written, or it does not reach the client within the write timeout.
Respond(r) ==
    /\ req[r].at = "replying"
    /\ \/ Update(r, [req[r] EXCEPT !.at = "answered"])
       \/ "network" \in Faults /\ Update(r, [req[r] EXCEPT !.at = "lost"])
    /\ UNCHANGED defs

-----------------------------------------------------------------------------
Init ==
    /\ main = "setup" /\ status = "running" /\ serve = "none"
    /\ closing = FALSE /\ late = FALSE /\ cacheOpen = FALSE
    /\ notified = FALSE /\ quit = 0 /\ sent = [count |-> 0, asked |-> FALSE]
    /\ defs = [k \in Keys |-> None]
    /\ req = [r \in Requests |-> Unsent]

Main == Setup \/ Go \/ Notify \/ Wait \/ Receive \/ Drain \/ CloseCache \/ Exit
Serving == Listen \/ Bind \/ Serve \/ (closing /\ ServeReturns)
Handle(r) == Decode(r) \/ Define(r) \/ Get(r) \/ ListOrHealth(r) \/ Respond(r)

Next ==
    \/ Main
    \/ Listen \/ Bind \/ Serve \/ ServeReturns
    \/ Signal
    \/ \E r \in Requests : Handle(r) \/ \E c \in Calls : Arrive(r, c)

Spec == Init /\ [][Next]_vars

\* Goroutines are scheduled, and the server's timeouts end what a client delays.
Fairness == WF_vars(Main) /\ WF_vars(Serving) /\ \A r \in Requests : WF_vars(Handle(r))

FairSpec == Spec /\ Fairness

-----------------------------------------------------------------------------
(* Properties.                                                             *)

\* Every variable keeps its shape, and the channel its capacity.
TypeOK ==
    /\ main \in {"setup", "go", "notify", "notified", "wait", "drain", "close", "return"}
    /\ status \in {"running", "0", "1", "killed"}
    /\ serve \in {"none", "starting", "binding", "bound", "serving", "returned"}
    /\ closing \in BOOLEAN /\ late \in BOOLEAN /\ cacheOpen \in BOOLEAN /\ notified \in BOOLEAN
    /\ quit \in 0..1
    /\ sent \in [count : 0..MaxSignals, asked : BOOLEAN]
    /\ defs \in [Keys -> Versions \cup {None}]
    /\ req \in [Requests -> {Unsent} \cup
          [at : {"active", "defining", "replying", "answered", "lost"}, call : Calls,
           code : {0, 200, 201, 400, 404, 500}, known : SUBSET Keys]]

\* The cache is closed only when no request is handled any more, and the process ends
\* with status 0 only after that, whenever the signal comes (while the listener is
\* being opened, too). The one exception is a Shutdown that ran out of its 30 seconds,
\* which main reports as a graceful exit all the same.
ShutdownInOrder ==
    /\ status = "0" => closing /\ ~cacheOpen
    /\ closing /\ ~cacheOpen => late \/ \A r \in Requests : ~Active(r)

\* A key that main defined, or a POST that was answered 201, is never reported missing to
\* a request that comes later, whatever is defined meanwhile.
DefinedIsFound ==
    \A r \in Requests :
        req[r] # Unsent /\ req[r].call.op = "get" /\ req[r].code = 404
            => req[r].call.key \notin req[r].known

\* A signal that comes once main has asked for signals ends the process, even if it comes
\* before main waits for it, or together with others.
SignalEnds == sent.asked ~> ~Running

\* The process does not stay up when nothing serves any more: a failed bind or accept
\* ends it, as the end of Shutdown does.
NoIdleProcess == serve = "returned" ~> ~Running
=============================================================================
