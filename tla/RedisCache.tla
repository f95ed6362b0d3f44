------------------------------ MODULE RedisCache ------------------------------
(***************************************************************************)
(* RedisCache (cache/redis.go): a constructor that configures a go-redis   *)
(* client and pings the server, and three calls that each send a command.  *)
(*                                                                         *)
(* External, as the code uses it: the client (a pool of connections, one   *)
(* command at a time on each, retries of a command whose answer did not    *)
(* come, Close) and the server (which runs a command when it arrives, also *)
(* one its sender has given up, and drops entries whose TTL is over).      *)
(***************************************************************************)
EXTENDS Integers, FiniteSets

CONSTANTS
    Keys, Values, Procs,
    Options,        \* what an application passes as options
    LibraryRetries, \* what the client makes of MaxRetries 0
    LibraryPool,    \* and of PoolSize 0
    Faults,         \* a subset of {"connect", "pool", "reply"}
    None

\* Only options that change the control are modelled: those that say where the server
\* is and how long to wait make no difference to what can happen.
RedisOption(o) == \/ o.field = "retries" /\ o.value \in Nat \cup {-1}
                  \/ o.field = "pool" /\ o.value \in Nat
ASSUME OptionAssumption == \A o \in Options : RedisOption(o)
ASSUME LibraryAssumption == LibraryRetries \in Nat /\ LibraryPool \in Nat \ {0}
ASSUME NamesAssumption == None \notin [val : Values, ttl : BOOLEAN]

VARIABLES
    boot, cfg,  \* where the constructor stands; the configuration
    client,     \* "none", "open", "closed"
    store,      \* the server: what each key holds
    wire,       \* commands whose sender does not wait any more
    call, res

vars == <<boot, cfg, client, store, wire, call, res>>
calls == <<call, res>>

Entry == [val : Values, ttl : BOOLEAN]
Idle == [at |-> "idle"]
\* asked: the caller wants the entry to expire; ttl: the command says so.
Writes == [op : {"set"}, key : Keys, val : Values, asked : BOOLEAN, ttl : BOOLEAN]
          \cup [op : {"delete"}, key : Keys]
Commands == Writes \cup [op : {"get"}, key : Keys]

-----------------------------------------------------------------------------
(* The constructor.                                                        *)

Config == [retries |-> 0, pool |-> 0]

\* The client's reading of the configuration: retries after the first attempt, and
\* connections.
Retries(c) == CASE c.retries = 0 -> LibraryRetries [] c.retries = -1 -> 0 [] OTHER -> c.retries
Pool(c) == IF c.pool = 0 THEN LibraryPool ELSE c.pool

NewRedisCache ==
    /\ boot \in {"none", "failed"} \/ (client = "closed" /\ \A p \in Procs : call[p] = Idle)
    /\ boot' = "options" /\ cfg' = Config /\ client' = "none"
    /\ UNCHANGED <<store, wire, calls>>

ApplyOption(o) ==
    /\ boot = "options"
    /\ cfg' = [cfg EXCEPT ![o.field] = o.value]
    /\ UNCHANGED <<boot, client, store, wire, calls>>

NewClient ==
    /\ boot = "options"
    /\ boot' = "ping" /\ client' = "open"
    /\ UNCHANGED <<cfg, store, wire, calls>>

\* Mutant of Ping: the client of a failed ping is not closed.
PingFails ==
    /\ boot = "ping"
    /\ \/ boot' = "ready" /\ UNCHANGED client
       \/ "connect" \in Faults /\ boot' = "failed" /\ UNCHANGED client
    /\ UNCHANGED <<cfg, store, wire, calls>>

Ping ==
    /\ boot = "ping"
    /\ \/ boot' = "ready" /\ UNCHANGED client
       \/ "connect" \in Faults /\ boot' = "failed" /\ client' = "closed"
    /\ UNCHANGED <<cfg, store, wire, calls>>

-----------------------------------------------------------------------------
(* Calls.                                                                  *)

Busy == {p \in Procs : call[p].at \in {"sent", "done"}}

Proceed(p, c) == /\ call' = [call EXCEPT ![p] = c]
                 /\ res' = [res EXCEPT ![p] = [err |-> "nil", val |-> None]]
Return(p, err, val) ==
    /\ call' = [call EXCEPT ![p] = Idle]
    /\ res' = [res EXCEPT ![p] = [err |-> err, val |-> val]]

\* Mutant of GiveUp: retries are not counted.
GiveUpNever(p) ==
    IF call[p].left > 0 /\ client = "open"
    THEN Proceed(p, [at |-> "queue", cmd |-> call[p].cmd, left |-> call[p].left])
    ELSE Return(p, "error", None)

\* The client gives up the attempt, and the call with it or not.
GiveUp(p) ==
    IF call[p].left > 0 /\ client = "open"
    THEN Proceed(p, [at |-> "queue", cmd |-> call[p].cmd, left |-> call[p].left - 1])
    ELSE Return(p, "error", None)

Send(p, cmd) ==
    /\ boot = "ready" /\ call[p] = Idle
    /\ IF client = "closed" THEN Return(p, "error", None)
       ELSE Proceed(p, [at |-> "queue", cmd |-> cmd, left |-> Retries(cfg)])
    /\ UNCHANGED <<boot, cfg, client, store, wire>>

Get(p, k) == Send(p, [op |-> "get", key |-> k])

\* Mutant of Expiration: go-redis takes -1 for "keep the TTL the key has"; an entry
\* without one gets none, any other keeps the old.
ExpirationKept(k, ttl) == ttl > 0 \/ (ttl < 0 /\ store[k] # None /\ store[k].ttl)

\* Whether the command says that the entry expires.
Expiration(k, ttl) == ttl > 0

Set(p, k, v, ttl) ==
    Send(p, [op |-> "set", key |-> k, val |-> v, asked |-> ttl > 0, ttl |-> Expiration(k, ttl)])

Delete(p, k) == Send(p, [op |-> "delete", key |-> k])

\* A connection of the pool, before PoolTimeout is over.
Acquire(p) ==
    /\ call[p].at = "queue"
    /\ \/ /\ client = "open" /\ Cardinality(Busy) < Pool(cfg)
          /\ \/ Proceed(p, [call[p] EXCEPT !.at = "sent"])
             \/ "connect" \in Faults /\ GiveUp(p)
       \/ /\ client = "closed" \/ "pool" \in Faults
          /\ Return(p, "error", None)
    /\ UNCHANGED <<boot, cfg, client, store, wire>>

Run(cmd) == store' = [store EXCEPT ![cmd.key] =
                CASE cmd.op = "set" -> [val |-> cmd.val, ttl |-> cmd.ttl]
                  [] cmd.op = "delete" -> None
                  [] OTHER -> @]

\* The server runs the command.
Serve(p) ==
    /\ call[p].at = "sent"
    /\ LET cmd == call[p].cmd IN
       /\ Run(cmd)
       /\ Proceed(p, [at |-> "done", cmd |-> cmd, left |-> call[p].left,
                      found |-> IF cmd.op = "get" THEN store[cmd.key] ELSE None])
    /\ UNCHANGED <<boot, cfg, client, wire>>

\* redis.Nil is a miss.
Found(cmd, found) ==
    IF found # None THEN [err |-> "nil", val |-> found.val]
    ELSE [err |-> IF cmd.op = "get" THEN "ErrNotFound" ELSE "nil", val |-> None]

Reply(p) ==
    /\ call[p].at = "done"
    /\ LET r == Found(call[p].cmd, call[p].found) IN Return(p, r.err, r.val)
    /\ UNCHANGED <<boot, cfg, client, store, wire>>

\* The answer does not come in time, the connection breaks, or Close closes it. A write
\* may be on its way still.
Lost(p) ==
    /\ call[p].at \in {"sent", "done"}
    /\ "reply" \in Faults \/ client = "closed"
    /\ wire' \in {wire, IF call[p].at = "sent" THEN wire \cup ({call[p].cmd} \cap Writes) ELSE wire}
    /\ GiveUp(p)
    /\ UNCHANGED <<boot, cfg, client, store>>

\* A write nobody waits for arrives, or never will.
Arrive(cmd) ==
    /\ cmd \in wire
    /\ wire' = wire \ {cmd}
    /\ Run(cmd) \/ UNCHANGED store
    /\ UNCHANGED <<boot, cfg, client, calls>>

Expire(k) ==
    /\ store[k] # None /\ store[k].ttl
    /\ store' = [store EXCEPT ![k] = None]
    /\ UNCHANGED <<boot, cfg, client, wire, calls>>

Close(p) ==
    /\ boot = "ready" /\ call[p] = Idle
    /\ client' = "closed"
    /\ Return(p, IF client = "closed" THEN "error" ELSE "nil", None)
    /\ UNCHANGED <<boot, cfg, store, wire>>

-----------------------------------------------------------------------------
Init ==
    /\ boot = "none" /\ cfg = Config /\ client = "none"
    /\ store = [k \in Keys |-> None] /\ wire = {}
    /\ call = [p \in Procs |-> Idle]
    /\ res = [p \in Procs |-> [err |-> "nil", val |-> None]]

Start(p) == \/ \E k \in Keys : Get(p, k) \/ Delete(p, k)
            \/ \E k \in Keys, v \in Values, ttl \in -1..1 : Set(p, k, v, ttl)
            \/ Close(p)
Continue(p) == Serve(p) \/ Reply(p) \/ Lost(p)

Next ==
    \/ NewRedisCache \/ NewClient \/ Ping
    \/ \E o \in Options : ApplyOption(o)
    \/ \E p \in Procs : Start(p) \/ Acquire(p) \/ Continue(p)
    \/ \E cmd \in Writes : Arrive(cmd)
    \/ \E k \in Keys : Expire(k)

Spec == Init /\ [][Next]_vars

\* The server answers or a timeout ends the attempt; connections of the pool go to who
\* waits for them longest.
Fairness == \A p \in Procs : WF_vars(Continue(p)) /\ SF_vars(Acquire(p))

FairSpec == Spec /\ Fairness

-----------------------------------------------------------------------------
(* Properties.                                                             *)

\* Every variable keeps its shape; no more commands are sent than there are connections,
\* no call retries more often than configured, and a constructor that failed left no
\* client open.
TypeOK ==
    /\ boot \in {"none", "options", "ping", "ready", "failed"}
    /\ cfg \in [retries : Nat \cup {-1}, pool : Nat]
    /\ client \in (CASE boot \in {"none", "options"} -> {"none"}
                     [] boot = "ping" -> {"open"}
                     [] boot = "ready" -> {"open", "closed"}
                     [] OTHER -> {"closed"})
    /\ store \in [Keys -> Entry \cup {None}]
    /\ wire \subseteq Writes
    /\ call \in [Procs -> {Idle}
          \cup [at : {"queue", "sent"}, cmd : Commands, left : 0..Retries(cfg)]
          \cup [at : {"done"}, cmd : Commands, left : 0..Retries(cfg), found : Entry \cup {None}]]
    /\ res \in [Procs -> [err : {"nil", "ErrNotFound", "error"}, val : Values \cup {None}]]
    /\ Cardinality(Busy) <= Pool(cfg)

\* Every call returns, though connections are few, answers get lost, and the cache may be
\* closed while it waits.
CallsReturn == \A p \in Procs : call[p].at # "idle" ~> call[p].at = "idle"

\* The cache does nothing worse than what a network makes unavoidable: a write whose
\* answer was lost may happen again, later than writes that came after it, and every
\* other call is linearizable; an entry set without a TTL, or with a negative one, stays.
Asked(cmd) == IF cmd.op = "set" THEN [op |-> "set", key |-> cmd.key, val |-> cmd.val,
                                      ttl |-> cmd.asked]
              ELSE cmd
Pending(c) ==
    CASE c.at = "idle" -> [op |-> "idle"]
      [] c.at = "done" -> [op |-> "taken", req |-> Asked(c.cmd), found |-> c.found]
      [] OTHER -> [op |-> "call", req |-> Asked(c.cmd)]

Service == INSTANCE LateCacheService WITH
    content <- store, doubtful <- {Asked(cmd) : cmd \in wire}, closed <- client # "open" \/ boot # "ready",
    pend <- [p \in Procs |-> Pending(call[p])], reply <- res

ImplementsLateCache == Service!Spec
=============================================================================
