---------------------------- MODULE ServerProofs ----------------------------
(***************************************************************************)
(* The server command, for any keys, definitions, requests and number of   *)
(* signals: it keeps its types, shuts down in order, and finds what it has *)
(* said to be defined.                                                     *)
(***************************************************************************)
EXTENDS Server, TLAPS

-----------------------------------------------------------------------------
(* Shutdown.                                                               *)

\* Where main stands says what it has done. Nothing becomes active once Shutdown has been
\* called, so what was idle when it returned stays so.
Stages ==
    /\ closing <=> main \in {"drain", "close", "return"}
    /\ cacheOpen <=> main \notin {"setup", "return"}
    /\ notified <=> main \notin {"setup", "go", "notify"}
    /\ main \in {"close", "return"} => late \/ \A r \in Requests : ~Active(r)
    /\ main \in {"setup", "go"} => serve = "none"
    /\ status = "0" => main = "return"

\* Where a definition is found, it was made, and it is never taken back.
Defined == {k \in Keys : defs[k] # None}

\* The record of a request that was sent.
Sent == [at : {"active", "defining", "replying", "answered", "lost"}, call : Calls,
         code : {0, 200, 201, 400, 404, 500}, known : SUBSET Keys]

\* What a request has been told agrees with the registry.
Told(r) ==
    req[r] # Unsent =>
        /\ req[r].known \subseteq Defined
        /\ req[r].code = 201 /\ req[r].call.op = "post" => req[r].call.body.key \in Defined
        /\ req[r].code = 404 /\ req[r].call.op = "get" => req[r].call.key \notin req[r].known
        /\ req[r].at \in {"active", "defining"} => req[r].code = 0
        /\ req[r].at = "defining" => req[r].call.op = "post" /\ req[r].call.body.flaw # "payload"

Registry ==
    /\ main # "setup" => BuiltIn \subseteq Defined
    /\ main = "setup" => \A r \in Requests : req[r] = Unsent
    /\ \A r \in Requests : Told(r)

IInv == TypeOK /\ Stages /\ Registry

\* A step that leaves requests and definitions alone, once main is past its setup.
LEMMA RegistryStays ==
  ASSUME Registry, UNCHANGED <<defs, req>>, main = "setup" <=> main' = "setup"
  PROVE  Registry'
  BY DEF Registry, Told, Defined

-----------------------------------------------------------------------------
(* The inductive invariant, by operation.                                  *)

LEMMA MainInv ==
  ASSUME IInv, Main
  PROVE  IInv'
<1>. USE DEF IInv
<1>1. CASE Setup
  <2>1. defs' \in [Keys -> Versions \cup {None}] /\ \A k \in BuiltIn : defs'[k] # None
    <3>1. (CHOOSE v \in Versions : TRUE) \in Versions
      BY VersionAssumption
    <3>. QED  BY <1>1, <3>1, BuiltInAssumption, VersionAssumption DEF Setup
  <2>2. TypeOK'
    BY <1>1, <2>1 DEF Setup, life, signals, TypeOK
  <2>3. Stages'
    BY <1>1 DEF Setup, life, signals, Stages, TypeOK, Active
  <2>4. Registry'
    BY <1>1, <2>1, BuiltInAssumption DEF Setup, Registry, Told, Defined
  <2>. QED  BY <2>2, <2>3, <2>4
<1>2. CASE Go \/ Notify \/ Wait \/ Receive \/ Drain \/ CloseCache \/ Exit
  <2>1. TypeOK'
    <3>1. UNCHANGED <<sent, defs, req>>
      BY <1>2 DEF Go, Notify, Wait, Receive, Drain, CloseCache, Exit, signals
    <3>2. quit' \in 0..1
      BY <1>2 DEF Go, Notify, Wait, Receive, Drain, CloseCache, Exit, signals, TypeOK
    <3>3. /\ main' \in {"setup", "go", "notify", "notified", "wait", "drain", "close", "return"}
          /\ status' \in {"running", "0", "1", "killed"}
          /\ serve' \in {"none", "starting", "binding", "bound", "serving", "returned"}
      BY <1>2 DEF Go, Notify, Wait, Receive, Drain, CloseCache, Exit, TypeOK
    <3>4. closing' \in BOOLEAN /\ cacheOpen' \in BOOLEAN /\ notified' \in BOOLEAN
      <4>1. closing \in BOOLEAN /\ cacheOpen \in BOOLEAN /\ notified \in BOOLEAN
        BY DEF TypeOK
      <4>2. closing' = closing \/ closing' = TRUE
        BY <1>2 DEF Go, Notify, Wait, Receive, Drain, CloseCache, Exit, life
      <4>3. cacheOpen' = cacheOpen \/ cacheOpen' = FALSE
        BY <1>2 DEF Go, Notify, Wait, Receive, Drain, CloseCache, Exit, life
      <4>4. notified' = notified \/ notified' = TRUE
        BY <1>2 DEF Go, Notify, Wait, Receive, Drain, CloseCache, Exit, signals
      <4>. QED  BY <4>1, <4>2, <4>3, <4>4
    <3>5. late' \in BOOLEAN
      BY <1>2 DEF Go, Notify, Wait, Receive, Drain, CloseCache, Exit, life, TypeOK
    <3>. QED  BY <3>1, <3>2, <3>3, <3>4, <3>5 DEF TypeOK
  <2>2. Stages'
    BY <1>2 DEF Go, Notify, Wait, Receive, Drain, CloseCache, Exit, life, signals, Stages, TypeOK,
                Active, Running
  <2>3. Registry'
    BY <1>2, RegistryStays DEF Go, Notify, Wait, Receive, Drain, CloseCache, Exit
  <2>. QED  BY <2>1, <2>2, <2>3
<1>. QED  BY <1>1, <1>2 DEF Main

LEMMA ServingInv ==
  ASSUME IInv, Listen \/ Bind \/ Serve \/ ServeReturns
  PROVE  IInv'
<1>. USE DEF IInv
<1>1. TypeOK'
  BY DEF Listen, Bind, Serve, ServeReturns, Failed, life, signals, TypeOK
<1>2. Stages'
  BY DEF Listen, Bind, Serve, ServeReturns, Failed, life, signals, Stages, TypeOK, Active, Running
<1>3. Registry'
  BY RegistryStays DEF Listen, Bind, Serve, ServeReturns
<1>. QED  BY <1>1, <1>2, <1>3

LEMMA SignalInv ==
  ASSUME IInv, Signal
  PROVE  IInv'
<1>. USE DEF IInv
<1>1. TypeOK'
  <2>1. sent' \in [count : 0..MaxSignals, asked : BOOLEAN]
    BY SignalAssumption DEF Signal, TypeOK
  <2>. QED  BY <2>1 DEF Signal, Queued, life, TypeOK
<1>2. Stages'
  BY DEF Signal, life, Stages, TypeOK, Active, Running
<1>3. Registry'
  BY RegistryStays DEF Signal
<1>. QED  BY <1>1, <1>2, <1>3

\* A request that goes on, with the definitions it leaves.
LEMMA UpdateInv ==
  ASSUME IInv, NEW r \in Requests, NEW new, Update(r, new),
         new \in Sent,
         defs' \in [Keys -> Versions \cup {None}], Defined \subseteq Defined',
         main # "setup", closing /\ Active(r)' => Active(r), Told(r)'
  PROVE  IInv'
<1>. USE DEF IInv
<1>1. req' = [req EXCEPT ![r] = new] /\ UNCHANGED <<main, status, serve, life, signals>>
  BY DEF Update
<1>2. TypeOK'
  BY <1>1 DEF TypeOK, life, signals, Sent
<1>3. \A s \in Requests \ {r} : req'[s] = req[s]
  BY <1>1 DEF TypeOK
<1>4. Stages'
  BY <1>1, <1>3 DEF Stages, life, signals, Active
<1>5. \A s \in Requests \ {r} : Told(s)'
  BY <1>3 DEF Registry, Told
<1>6. Registry'
  BY <1>1, <1>5 DEF Registry
<1>. QED  BY <1>2, <1>4, <1>6

\* What a request finds known is defined.
LEMMA KnownDefined ==
  ASSUME IInv
  PROVE  Known \subseteq Defined /\ Known \in SUBSET Keys
<1>1. ASSUME NEW s \in Requests, req[s].at = "answered", req[s].call.op = "post", req[s].code = 201
      PROVE  req[s].call.body.key \in Defined
  BY <1>1 DEF IInv, Registry, Told, Unsent
<1>2. main # "setup" => BuiltIn \subseteq Defined
  BY DEF IInv, Registry
<1>3. Known \subseteq Defined
  BY <1>1, <1>2 DEF Known
<1>. QED  BY <1>3 DEF Defined

\* A request in progress.
LEMMA RequestType ==
  ASSUME IInv, NEW r \in Requests, req[r].at # "unsent"
  PROVE  /\ req[r] \in Sent
         /\ req[r] # Unsent /\ main # "setup" /\ Told(r)
  BY DEF IInv, TypeOK, Registry, Unsent, Sent

LEMMA ArriveInv ==
  ASSUME IInv, NEW r \in Requests, NEW c \in Calls, Arrive(r, c)
  PROVE  IInv'
<1>. DEFINE new == [at |-> "active", call |-> c, code |-> 0, known |-> Known]
<1>1. new \in Sent
  BY KnownDefined DEF Sent
<1>2. Update(r, new) /\ UNCHANGED defs /\ ~closing /\ main # "setup"
  BY DEF Arrive, IInv, Stages
<1>3. req'[r] = new
  BY <1>2 DEF Update, IInv, TypeOK
<1>4. Told(r)'
  BY <1>2, <1>3, KnownDefined DEF Told, Defined
<1>. HIDE DEF new
<1>. QED  BY <1>1, <1>2, <1>4, UpdateInv DEF IInv, TypeOK, Defined

LEMMA HandleInv ==
  ASSUME IInv, NEW r \in Requests, Handle(r)
  PROVE  IInv'
<1>0. req[r].at \in {"active", "defining", "replying"}
  BY DEF Handle, Decode, Define, Get, ListOrHealth, Respond
<1>1. /\ req[r] \in Sent
      /\ req[r] # Unsent /\ main # "setup" /\ Told(r)
  BY <1>0, RequestType
<1>2. req \in [Requests -> {Unsent} \cup Sent]
  BY DEF IInv, TypeOK, Sent
<1>3. ASSUME NEW at \in {"defining", "replying", "answered", "lost"},
             NEW code \in {0, 200, 201, 400, 404, 500},
             Update(r, [req[r] EXCEPT !.at = at, !.code = code]),
             defs' \in [Keys -> Versions \cup {None}], Defined \subseteq Defined',
             code = 201 /\ req[r].call.op = "post" => req[r].call.body.key \in Defined',
             code = 404 /\ req[r].call.op = "get" => req[r].call.key \notin req[r].known,
             at = "defining" => /\ code = 0 /\ req[r].call.op = "post"
                                /\ req[r].call.body.flaw # "payload"
      PROVE  IInv'
  <2>. DEFINE new == [req[r] EXCEPT !.at = at, !.code = code]
  <2>1. /\ new \in Sent
        /\ new.at = at /\ new.code = code /\ new.call = req[r].call /\ new.known = req[r].known
    <3>. DEFINE q1 == [req[r] EXCEPT !.at = at]
                q2 == [q1 EXCEPT !.code = code]
    <3>1. q1 \in Sent /\ q1.call = req[r].call /\ q1.known = req[r].known /\ q1.at = at
      BY <1>1 DEF Sent
    <3>. HIDE DEF q1
    <3>2. /\ q2 \in Sent /\ q2.call = q1.call /\ q2.known = q1.known /\ q2.at = q1.at
          /\ q2.code = code
      BY <3>1 DEF Sent
    <3>. HIDE DEF q2
    <3>3. q2 = new
      BY DEF q1, q2
    <3>. HIDE DEF new
    <3>. QED  BY <3>1, <3>2, <3>3
  <2>2. req'[r] = new
    BY <1>2, <1>3 DEF Update
  <2>3. Told(r)'
    BY <1>1, <1>3, <2>1, <2>2 DEF Told
  <2>4. Active(r)
    BY <1>0 DEF Active
  <2>. HIDE DEF new
  <2>. QED  BY <1>1, <1>3, <2>1, <2>3, <2>4, UpdateInv DEF new
<1>4. defs \in [Keys -> Versions \cup {None}]
  BY DEF IInv, TypeOK
<1>5. CASE Decode(r)
  <2>1. UNCHANGED defs /\ Defined \subseteq Defined' /\ req[r].call.op = "post" /\ req[r].code = 0
    BY <1>1, <1>5 DEF Decode, Defined, Told
  <2>2. CASE Reply(r, 400)
    BY <1>3, <1>4, <2>1, <2>2 DEF Reply
  <2>3. CASE /\ req[r].call.body.flaw # "payload"
             /\ Update(r, [req[r] EXCEPT !.at = "defining"])
    <3>1. [req[r] EXCEPT !.at = "defining"] = [req[r] EXCEPT !.at = "defining", !.code = 0]
      BY <1>1, <2>1
    <3>. QED  BY <1>3, <1>4, <2>1, <2>3, <3>1
  <2>. QED  BY <1>5, <2>2, <2>3 DEF Decode
<1>6. CASE Define(r)
  <2>. DEFINE body == req[r].call.body
  <2>1. req[r].call.op = "post" /\ body.flaw # "payload"
    BY <1>1, <1>6 DEF Define, Told
  <2>2. body.key \in Keys /\ body.version \in Versions
    BY <1>1, <2>1 DEF Sent, Calls, Bodies
  <2>3. /\ defs' = IF body.flaw = "none" THEN [defs EXCEPT ![body.key] = body.version] ELSE defs
        /\ Reply(r, Answer(body.flaw))
    BY <1>6 DEF Define
  <2>4. defs' \in [Keys -> Versions \cup {None}] /\ Defined \subseteq Defined'
    BY <1>4, <2>2, <2>3, VersionAssumption DEF Defined
  <2>5. Answer(body.flaw) \in {201, 400, 500} /\ (Answer(body.flaw) = 201 => body.flaw = "none")
    BY DEF Answer
  <2>6. body.flaw = "none" => body.key \in Defined'
    BY <1>4, <2>2, <2>3, VersionAssumption DEF Defined
  <2>7. CASE Answer(body.flaw) = 201
    <3>1. Update(r, [req[r] EXCEPT !.at = "replying", !.code = 201])
      BY <2>3, <2>7 DEF Reply
    <3>2. body.key \in Defined'
      BY <2>5, <2>6, <2>7
    <3>. QED  BY <1>3, <2>4, <3>1, <3>2
  <2>8. CASE Answer(body.flaw) = 400
    <3>1. Update(r, [req[r] EXCEPT !.at = "replying", !.code = 400])
      BY <2>3, <2>8 DEF Reply
    <3>. QED  BY <1>3, <2>4, <3>1
  <2>9. CASE Answer(body.flaw) = 500
    <3>1. Update(r, [req[r] EXCEPT !.at = "replying", !.code = 500])
      BY <2>3, <2>9 DEF Reply
    <3>. QED  BY <1>3, <2>4, <3>1
  <2>. QED  BY <2>5, <2>7, <2>8, <2>9
<1>7. CASE Get(r)
  <2>1. UNCHANGED defs /\ Defined \subseteq Defined' /\ req[r].call.op = "get"
    BY <1>7 DEF Get, Defined
  <2>2. req[r].known \subseteq Defined
    BY <1>1 DEF Told
  <2>3. defs[req[r].call.key] = None => req[r].call.key \notin req[r].known
    BY <2>2 DEF Defined
  <2>4. CASE defs[req[r].call.key] = None
    <3>1. Update(r, [req[r] EXCEPT !.at = "replying", !.code = 404])
      BY <1>7, <2>4 DEF Get, Reply
    <3>. QED  BY <1>3, <1>4, <2>1, <2>3, <2>4, <3>1
  <2>5. CASE defs[req[r].call.key] # None
    <3>1. Update(r, [req[r] EXCEPT !.at = "replying", !.code = 200])
      BY <1>7, <2>5 DEF Get, Reply
    <3>. QED  BY <1>3, <1>4, <2>1, <3>1
  <2>. QED  BY <2>4, <2>5
<1>8. CASE ListOrHealth(r)
  <2>1. UNCHANGED defs /\ Defined \subseteq Defined'
    BY <1>8 DEF ListOrHealth, Defined
  <2>. QED  BY <1>3, <1>4, <1>8, <2>1 DEF ListOrHealth, Reply
<1>9. CASE Respond(r)
  <2>1. UNCHANGED defs /\ Defined \subseteq Defined'
    BY <1>9 DEF Respond, Defined
  <2>2. PICK at \in {"answered", "lost"} : Update(r, [req[r] EXCEPT !.at = at])
    BY <1>9 DEF Respond
  <2>. DEFINE new == [req[r] EXCEPT !.at = at]
  <2>3. /\ new \in Sent /\ new.at = at /\ new.call = req[r].call /\ new.known = req[r].known
        /\ new.code = req[r].code
    BY <1>1 DEF Sent
  <2>4. req'[r] = new
    BY <1>2, <2>2 DEF Update
  <2>. HIDE DEF new
  <2>5. Told(r)'
    BY <1>1, <2>1, <2>3, <2>4 DEF Told
  <2>6. Active(r)
    BY <1>0 DEF Active
  <2>. QED  BY <1>1, <1>4, <2>1, <2>2, <2>3, <2>5, <2>6, UpdateInv DEF new
<1>. QED  BY <1>5, <1>6, <1>7, <1>8, <1>9 DEF Handle

LEMMA InitInv == Init => IInv
<1>. SUFFICES ASSUME Init PROVE IInv
  OBVIOUS
<1>1. TypeOK
  <2>1. 0 \in 0..MaxSignals /\ 0 \in 0..1
    BY SignalAssumption
  <2>2. [count |-> 0, asked |-> FALSE] \in [count : 0..MaxSignals, asked : BOOLEAN]
    BY <2>1
  <2>. QED  BY <2>1, <2>2 DEF Init, TypeOK
<1>2. Stages
  BY DEF Init, Stages
<1>3. Registry
  BY DEF Init, Registry, Told
<1>. QED  BY <1>1, <1>2, <1>3 DEF IInv

LEMMA StepInv == IInv /\ [Next]_vars => IInv'
<1>. SUFFICES ASSUME IInv, [Next]_vars PROVE IInv'
  OBVIOUS
<1>1. CASE UNCHANGED vars
  BY <1>1 DEF vars, IInv, TypeOK, Stages, Registry, Told, Defined, Active
<1>. QED  BY <1>1, MainInv, ServingInv, SignalInv, HandleInv, ArriveInv DEF Next

-----------------------------------------------------------------------------
\* The command keeps its types, and the signal channel its capacity.
THEOREM ServerTypeCorrect == Spec => []TypeOK
<1>1. IInv => TypeOK
  BY DEF IInv
<1>. QED  BY <1>1, InitInv, StepInv, PTL DEF Spec

\* Whenever signals, failures and requests come, the cache is closed behind the last
\* request, unless Shutdown ran out of its time, and before the process ends with status 0.
THEOREM ShutdownOrdered == Spec => []ShutdownInOrder
<1>1. IInv => ShutdownInOrder
  BY DEF IInv, Stages, ShutdownInOrder
<1>. QED  BY <1>1, InitInv, StepInv, PTL DEF Spec

\* A key main defined, or a POST that was answered 201, is found by every later request.
THEOREM DefinedFound == Spec => []DefinedIsFound
<1>1. IInv => DefinedIsFound
  BY DEF IInv, Registry, Told, DefinedIsFound
<1>. QED  BY <1>1, InitInv, StepInv, PTL DEF Spec
=============================================================================
