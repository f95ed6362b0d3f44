--------------------------- MODULE RedisCacheProofs ---------------------------
(***************************************************************************)
(* RedisCache, for any keys, values, goroutines, options and faults: it    *)
(* keeps its types, which bound its connections and its retries, and does  *)
(* nothing that LateCacheService does not promise.                         *)
(***************************************************************************)
EXTENDS RedisCache, FiniteSetTheorems, TLAPS

\* The command asks for what its caller asked for.
Honest(cmd) == cmd.op = "set" => cmd.ttl = cmd.asked

NoReply == [err |-> "nil", val |-> None]

\* Only a cache that is ready has callers, and those in a call have no reply yet.
Calling ==
    /\ IsFiniteSet(Busy)
    /\ boot # "ready" => \A p \in Procs : call[p] = Idle
    /\ \A p \in Procs : call[p] # Idle => res[p] = NoReply /\ Honest(call[p].cmd)
    /\ \A cmd \in wire : Honest(cmd)

IInv == TypeOK /\ Calling

\* The types, one by one.
Configs == [retries : Nat \cup {-1}, pool : Nat]
Clients == CASE boot \in {"none", "options"} -> {"none"}
             [] boot = "ping" -> {"open"}
             [] boot = "ready" -> {"open", "closed"}
             [] OTHER -> {"closed"}
Sending(left) == [at : {"queue", "sent"}, cmd : Commands, left : left]
Served(left) == [at : {"done"}, cmd : Commands, left : left, found : Entry \cup {None}]
Calls == {Idle} \cup Sending(0..Retries(cfg)) \cup Served(0..Retries(cfg))
Results == [err : {"nil", "ErrNotFound", "error"}, val : Values \cup {None}]

-----------------------------------------------------------------------------
(* Configuration and data.                                                 *)

LEMMA ConfigIs ==
  ASSUME NEW c \in Configs
  PROVE  Retries(c) \in Nat /\ Pool(c) \in Nat \ {0}
<1>1. c.retries \in Nat \cup {-1} /\ c.pool \in Nat
  BY DEF Configs
<1>2. Retries(c) \in Nat
  <2>1. CASE c.retries = 0
    BY <2>1, LibraryAssumption DEF Retries
  <2>2. CASE c.retries = -1
    BY <2>2 DEF Retries
  <2>3. CASE c.retries # 0 /\ c.retries # -1
    BY <1>1, <2>3 DEF Retries
  <2>. QED  BY <2>1, <2>2, <2>3
<1>3. Pool(c) \in Nat \ {0}
  BY <1>1, LibraryAssumption DEF Pool
<1>. QED  BY <1>2, <1>3

LEMMA OptionType ==
  ASSUME NEW c \in Configs, NEW o \in Options
  PROVE  [c EXCEPT ![o.field] = o.value] \in Configs
<1>1. CASE o.field = "retries" /\ o.value \in Nat \cup {-1}
  BY <1>1 DEF Configs
<1>2. CASE o.field = "pool" /\ o.value \in Nat
  BY <1>2 DEF Configs
<1>. QED  BY <1>1, <1>2, OptionAssumption DEF RedisOption

LEMMA CommandFields ==
  ASSUME NEW cmd \in Commands
  PROVE  /\ cmd.op \in {"get", "set", "delete"} /\ cmd.key \in Keys
         /\ cmd.op = "set" => cmd.val \in Values /\ cmd.asked \in BOOLEAN /\ cmd.ttl \in BOOLEAN
         /\ cmd.op \in {"set", "delete"} <=> cmd \in Writes
  BY DEF Commands, Writes

LEMMA CallFields ==
  ASSUME NEW c \in Calls
  PROVE  /\ c.at \in {"idle", "queue", "sent", "done"}
         /\ c.at = "idle" <=> c = Idle
         /\ c.at # "idle" => c.cmd \in Commands /\ c.left \in 0..Retries(cfg)
         /\ c.at = "done" => c.found \in Entry \cup {None}
<1>1. CASE c = Idle
  BY <1>1 DEF Idle
<1>2. CASE c \in Sending(0..Retries(cfg))
  BY <1>2 DEF Sending, Idle
<1>3. CASE c \in Served(0..Retries(cfg))
  BY <1>3 DEF Served, Idle
<1>. QED  BY <1>1, <1>2, <1>3 DEF Calls

\* The types, together.
LEMMA Types ==
  TypeOK <=> /\ boot \in {"none", "options", "ping", "ready", "failed"}
             /\ cfg \in Configs /\ client \in Clients
             /\ store \in [Keys -> Entry \cup {None}] /\ wire \subseteq Writes
             /\ call \in [Procs -> Calls] /\ res \in [Procs -> Results]
             /\ Cardinality(Busy) <= Pool(cfg)
  BY DEF TypeOK, Configs, Clients, Calls, Sending, Served, Results

LEMMA TypesNext ==
  TypeOK' <=> /\ boot' \in {"none", "options", "ping", "ready", "failed"}
              /\ cfg' \in Configs /\ client' \in Clients'
              /\ store' \in [Keys -> Entry \cup {None}] /\ wire' \subseteq Writes
              /\ call' \in [Procs -> Calls'] /\ res' \in [Procs -> Results]
              /\ Cardinality(Busy') <= Pool(cfg')
  BY DEF TypeOK, Configs, Clients, Calls, Sending, Served, Results

\* A command leaves the server with entries.
LEMMA RunType ==
  ASSUME TypeOK, NEW cmd \in Commands, Run(cmd)
  PROVE  store' \in [Keys -> Entry \cup {None}]
<1>1. cmd.op = "set" => [val |-> cmd.val, ttl |-> cmd.ttl] \in Entry
  BY CommandFields DEF Entry
<1>2. (CASE cmd.op = "set" -> [val |-> cmd.val, ttl |-> cmd.ttl]
         [] cmd.op = "delete" -> None
         [] OTHER -> store[cmd.key]) \in Entry \cup {None}
  BY <1>1, CommandFields, Types
<1>. QED  BY <1>2, Types DEF Run

-----------------------------------------------------------------------------
(* Calls and connections.                                                  *)

\* A call that goes on without a connection it did not have, or that ends.
LEMMA Moves ==
  ASSUME IInv, boot = "ready", NEW p \in Procs, NEW c \in Calls,
         call' = [call EXCEPT ![p] = c], NEW r \in Results, res' = [res EXCEPT ![p] = r],
         c # Idle => r = NoReply /\ Honest(c.cmd),
         c.at \in {"sent", "done"} => p \in Busy \/ Cardinality(Busy) < Pool(cfg)
  PROVE  /\ call' \in [Procs -> Calls] /\ res' \in [Procs -> Results]
         /\ IsFiniteSet(Busy)' /\ Cardinality(Busy') <= Pool(cfg)
         /\ \A q \in Procs : call'[q] # Idle => res'[q] = NoReply /\ Honest(call'[q].cmd)
<1>1. call \in [Procs -> Calls] /\ res \in [Procs -> Results] /\ cfg \in Configs
  BY Types DEF IInv
<1>2. call' \in [Procs -> Calls] /\ res' \in [Procs -> Results]
  BY <1>1
<1>3. \A q \in Procs : call'[q] # Idle => res'[q] = NoReply /\ Honest(call'[q].cmd)
  BY <1>1 DEF IInv, Calling
<1>4. IsFiniteSet(Busy) /\ Cardinality(Busy) \in Nat /\ Cardinality(Busy) <= Pool(cfg)
      /\ Pool(cfg) \in Nat
  BY <1>1, Types, ConfigIs, FS_CardinalityType DEF IInv, Calling
<1>5. Busy' \in {Busy \cup {p}, Busy \ {p}} /\ (p \in Busy' => c.at \in {"sent", "done"})
  BY <1>1 DEF Busy
<1>6. IsFiniteSet(Busy') /\ Cardinality(Busy') <= Pool(cfg)
  <2>1. CASE Busy' = Busy \/ Busy' = Busy \ {p}
    <3>1. IsFiniteSet(Busy') /\ Cardinality(Busy') <= Cardinality(Busy)
      BY <1>4, <2>1, FS_Subset
    <3>2. Cardinality(Busy') \in Nat
      BY <3>1, FS_CardinalityType
    <3>. QED  BY <1>4, <3>1, <3>2
  <2>2. CASE p \notin Busy /\ Busy' = Busy \cup {p}
    <3>1. Cardinality(Busy) < Pool(cfg)
      BY <1>5, <2>2
    <3>2. IsFiniteSet(Busy') /\ Cardinality(Busy') = Cardinality(Busy) + 1
      BY <1>4, <2>2, FS_AddElement
    <3>. QED  BY <1>4, <3>1, <3>2
  <2>. QED  BY <1>5, <2>1, <2>2
<1>. QED  BY <1>2, <1>3, <1>6

\* With it, the invariant.
LEMMA MovesInv ==
  ASSUME IInv, boot = "ready", NEW p \in Procs, NEW c \in Calls,
         call' = [call EXCEPT ![p] = c], NEW r \in Results, res' = [res EXCEPT ![p] = r],
         c # Idle => r = NoReply /\ Honest(c.cmd),
         c.at \in {"sent", "done"} => p \in Busy \/ Cardinality(Busy) < Pool(cfg),
         UNCHANGED <<boot, cfg>>, client' \in Clients, store' \in [Keys -> Entry \cup {None}],
         wire' \subseteq Writes, \A cmd \in wire' : Honest(cmd)
  PROVE  IInv'
<1>1. Clients' = Clients /\ Calls' = Calls
  BY DEF Clients, Calls
<1>2. /\ call' \in [Procs -> Calls] /\ res' \in [Procs -> Results]
      /\ IsFiniteSet(Busy)' /\ Cardinality(Busy') <= Pool(cfg)
      /\ \A q \in Procs : call'[q] # Idle => res'[q] = NoReply /\ Honest(call'[q].cmd)
  BY Moves
<1>3. TypeOK'
  <2>1. boot' = "ready" /\ cfg' \in Configs
    BY Types DEF IInv
  <2>. QED  BY <1>1, <1>2, <2>1, TypesNext
<1>. QED  BY <1>2, <1>3 DEF IInv, Calling

LEMMA ReturnInv ==
  ASSUME IInv, boot = "ready", NEW p \in Procs, NEW err \in {"nil", "ErrNotFound", "error"},
         NEW val \in Values \cup {None}, Return(p, err, val),
         UNCHANGED <<boot, cfg>>, client' \in Clients, store' \in [Keys -> Entry \cup {None}],
         wire' \subseteq Writes, \A cmd \in wire' : Honest(cmd)
  PROVE  IInv'
<1>1. Idle \in Calls /\ Idle.at = "idle" /\ [err |-> err, val |-> val] \in Results
  BY DEF Calls, Idle, Results
<1>2. call' = [call EXCEPT ![p] = Idle] /\ res' = [res EXCEPT ![p] = [err |-> err, val |-> val]]
  BY DEF Return
<1>3. Idle.at \notin {"sent", "done"}
  BY <1>1
<1>. QED  BY <1>1, <1>2, <1>3, MovesInv

LEMMA ProceedInv ==
  ASSUME IInv, boot = "ready", NEW p \in Procs, NEW c \in Calls, Proceed(p, c), Honest(c.cmd),
         c.at \in {"sent", "done"} => p \in Busy \/ Cardinality(Busy) < Pool(cfg),
         UNCHANGED <<boot, cfg>>, client' \in Clients, store' \in [Keys -> Entry \cup {None}],
         wire' \subseteq Writes, \A cmd \in wire' : Honest(cmd)
  PROVE  IInv'
<1>1. NoReply \in Results /\ call' = [call EXCEPT ![p] = c] /\ res' = [res EXCEPT ![p] = NoReply]
  BY DEF NoReply, Results, Proceed
<1>. QED  BY <1>1, MovesInv
-----------------------------------------------------------------------------
(* The inductive invariant, by operation.                                  *)

\* Who nobody calls has no connection in use.
LEMMA Unused ==
  ASSUME \A p \in Procs : call[p] = Idle
  PROVE  Busy = {} /\ IsFiniteSet(Busy) /\ Cardinality(Busy) = 0
<1>1. Busy = {}
  BY DEF Busy, Idle
<1>. QED  BY <1>1, FS_EmptySet

\* The constructor, an expiry and a late write leave calls alone.
LEMMA AsideInv ==
  ASSUME IInv, UNCHANGED <<call, res>>, boot' \in {"none", "options", "ping", "ready", "failed"},
         cfg' \in Configs, client' \in Clients', store' \in [Keys -> Entry \cup {None}],
         wire' \subseteq wire,
         UNCHANGED <<boot, cfg>> \/ \A p \in Procs : call[p] = Idle
  PROVE  IInv'
<1>1. /\ call \in [Procs -> Calls] /\ res \in [Procs -> Results] /\ wire \subseteq Writes
      /\ Cardinality(Busy) <= Pool(cfg)
  BY Types DEF IInv
<1>2. Busy' = Busy
  BY DEF Busy
<1>3. call' \in [Procs -> Calls'] /\ Cardinality(Busy') <= Pool(cfg')
  <2>1. CASE UNCHANGED <<boot, cfg>>
    <3>1. Calls' = Calls
      BY <2>1 DEF Calls
    <3>. QED  BY <1>1, <1>2, <2>1, <3>1
  <2>2. CASE \A p \in Procs : call[p] = Idle
    <3>1. Cardinality(Busy') = 0 /\ Pool(cfg') \in Nat
      BY <1>2, <2>2, Unused, ConfigIs
    <3>2. \A p \in Procs : call'[p] \in Calls'
      BY <2>2 DEF Calls
    <3>3. 0 <= Pool(cfg')
      BY <3>1
    <3>. QED  BY <1>1, <3>1, <3>2, <3>3
  <2>. QED  BY <2>1, <2>2
<1>4. TypeOK'
  BY <1>1, <1>3, TypesNext
<1>5. Calling'
  BY <1>2 DEF IInv, Calling
<1>. QED  BY <1>4, <1>5 DEF IInv

LEMMA ConstructInv ==
  ASSUME IInv, NewRedisCache \/ NewClient \/ Ping \/ \E o \in Options : ApplyOption(o)
  PROVE  IInv'
<1>1. /\ \A p \in Procs : call[p] = Idle
      /\ UNCHANGED <<store, wire, call, res>>
  BY DEF NewRedisCache, NewClient, Ping, ApplyOption, calls, IInv, Calling
<1>2. boot' \in {"options", "ping", "ready", "failed"} /\ client' \in Clients'
  <2>1. client \in Clients
    BY Types DEF IInv
  <2>. QED  BY <2>1 DEF NewRedisCache, NewClient, Ping, ApplyOption, Clients
<1>3. cfg' \in Configs
  <2>1. cfg \in Configs /\ Config \in Configs
    BY Types DEF IInv, Config, Configs
  <2>. QED  BY <2>1, OptionType DEF NewRedisCache, NewClient, Ping, ApplyOption
<1>4. store \in [Keys -> Entry \cup {None}]
  BY Types DEF IInv
<1>. QED  BY <1>1, <1>2, <1>3, <1>4, AsideInv

LEMMA ServerInv ==
  ASSUME IInv, (\E cmd \in Writes : Arrive(cmd)) \/ (\E k \in Keys : Expire(k))
  PROVE  IInv'
<1>1. UNCHANGED <<boot, cfg, client, call, res>> /\ wire' \subseteq wire
  BY DEF Arrive, Expire, calls
<1>2. store' \in [Keys -> Entry \cup {None}]
  <2>1. TypeOK /\ store \in [Keys -> Entry \cup {None}]
    BY Types DEF IInv
  <2>2. ASSUME NEW cmd \in Writes, Arrive(cmd) PROVE store' \in [Keys -> Entry \cup {None}]
    BY <2>1, <2>2, RunType DEF Arrive, Commands
  <2>3. ASSUME NEW k \in Keys, Expire(k) PROVE store' \in [Keys -> Entry \cup {None}]
    BY <2>1, <2>3 DEF Expire
  <2>. QED  BY <2>2, <2>3
<1>3. Clients' = Clients
  BY <1>1 DEF Clients
<1>. QED  BY <1>1, <1>2, <1>3, Types, AsideInv DEF IInv

\* What is not changed keeps its type.
LEMMA Rest ==
  ASSUME IInv
  PROVE  /\ cfg \in Configs /\ client \in Clients /\ store \in [Keys -> Entry \cup {None}]
         /\ wire \subseteq Writes /\ \A cmd \in wire : Honest(cmd)
         /\ None \in Values \cup {None}
  BY Types DEF IInv, Calling

LEMMA CommandHonest ==
  ASSUME NEW p \in Procs, Start(p), ~Close(p)
  PROVE  \E cmd \in Commands : Send(p, cmd) /\ Honest(cmd)
<1>1. ASSUME NEW k \in Keys, Get(p, k) PROVE \E cmd \in Commands : Send(p, cmd) /\ Honest(cmd)
  BY <1>1 DEF Get, Commands, Honest
<1>2. ASSUME NEW k \in Keys, Delete(p, k)
      PROVE  \E cmd \in Commands : Send(p, cmd) /\ Honest(cmd)
  BY <1>2 DEF Delete, Commands, Writes, Honest
<1>3. ASSUME NEW k \in Keys, NEW v \in Values, NEW ttl \in -1..1, Set(p, k, v, ttl)
      PROVE  \E cmd \in Commands : Send(p, cmd) /\ Honest(cmd)
  <2>. DEFINE cmd == [op |-> "set", key |-> k, val |-> v, asked |-> ttl > 0,
                      ttl |-> Expiration(k, ttl)]
  <2>1. (ttl > 0) \in BOOLEAN /\ Expiration(k, ttl) = (ttl > 0)
    BY DEF Expiration
  <2>2. cmd \in Commands /\ Honest(cmd)
    BY <2>1 DEF Commands, Writes, Honest
  <2>. QED  BY <1>3, <2>2 DEF Set
<1>. QED  BY <1>1, <1>2, <1>3 DEF Start

LEMMA SendInv ==
  ASSUME IInv, NEW p \in Procs, NEW cmd \in Commands, Honest(cmd), Send(p, cmd)
  PROVE  IInv'
<1>. DEFINE c == [at |-> "queue", cmd |-> cmd, left |-> Retries(cfg)]
<1>1. Retries(cfg) \in Nat
  BY Rest, ConfigIs
<1>2. c \in Calls /\ Honest(c.cmd) /\ c.at = "queue"
  BY <1>1 DEF Calls, Sending
<1>3. boot = "ready" /\ UNCHANGED <<boot, cfg, client, store, wire>>
  BY DEF Send
<1>4. Return(p, "error", None) \/ Proceed(p, c)
  BY DEF Send
<1>. HIDE DEF c
<1>. QED  BY <1>2, <1>3, <1>4, Rest, ReturnInv, ProceedInv

\* A call that gives up its attempt waits again, with one try less, or fails.
LEMMA GiveUpInv ==
  ASSUME IInv, NEW p \in Procs, call[p] # Idle, GiveUp(p), UNCHANGED <<boot, cfg, client, store>>,
         wire' \subseteq Writes, \A cmd \in wire' : Honest(cmd)
  PROVE  IInv'
<1>. DEFINE c == [at |-> "queue", cmd |-> call[p].cmd, left |-> call[p].left - 1]
<1>1. boot = "ready" /\ call[p] \in Calls /\ Honest(call[p].cmd)
  BY Types DEF IInv, Calling
<1>2. call[p].cmd \in Commands /\ call[p].left \in 0..Retries(cfg) /\ Retries(cfg) \in Nat
  BY <1>1, CallFields, Rest, ConfigIs
<1>3. CASE call[p].left > 0 /\ Proceed(p, c)
  <2>1. call[p].left - 1 \in 0..Retries(cfg)
    BY <1>2, <1>3
  <2>2. c \in Calls /\ c.cmd = call[p].cmd /\ c.at = "queue"
    BY <1>2, <2>1 DEF Calls, Sending
  <2>. HIDE DEF c
  <2>. QED  BY <1>1, <1>3, <2>2, Rest, ProceedInv
<1>4. CASE Return(p, "error", None)
  BY <1>1, <1>4, Rest, ReturnInv
<1>. QED  BY <1>3, <1>4 DEF GiveUp

LEMMA AcquireInv ==
  ASSUME IInv, NEW p \in Procs, Acquire(p)
  PROVE  IInv'
<1>1. /\ call[p].at = "queue" /\ UNCHANGED <<boot, cfg, client, store, wire>>
      /\ call[p] \in Calls
  BY Types DEF Acquire, IInv
<1>2. call[p] # Idle
  BY <1>1 DEF Idle
<1>3. boot = "ready" /\ Honest(call[p].cmd)
  BY <1>2 DEF IInv, Calling
<1>4. CASE Cardinality(Busy) < Pool(cfg) /\ Proceed(p, [call[p] EXCEPT !.at = "sent"])
  <2>. DEFINE c == [call[p] EXCEPT !.at = "sent"]
  <2>1. call[p] \in Sending(0..Retries(cfg))
    BY <1>1, <1>2 DEF Calls, Served
  <2>2. c \in Calls /\ c.cmd = call[p].cmd
    BY <2>1 DEF Calls, Sending
  <2>. HIDE DEF c
  <2>. QED  BY <1>1, <1>3, <1>4, <2>2, Rest, ProceedInv DEF c
<1>5. CASE GiveUp(p)
  BY <1>1, <1>2, <1>5, Rest, GiveUpInv
<1>6. CASE Return(p, "error", None)
  BY <1>1, <1>3, <1>6, Rest, ReturnInv
<1>. QED  BY <1>4, <1>5, <1>6 DEF Acquire

LEMMA ContinueInv ==
  ASSUME IInv, NEW p \in Procs, Continue(p)
  PROVE  IInv'
<1>1. /\ call[p].at \in {"sent", "done"} /\ UNCHANGED <<boot, cfg, client>> /\ call[p] \in Calls
  BY Types DEF Continue, Serve, Reply, Lost, IInv
<1>2. call[p] # Idle /\ p \in Busy
  BY <1>1 DEF Idle, Busy
<1>3. boot = "ready" /\ Honest(call[p].cmd) /\ call[p].cmd \in Commands
      /\ call[p].left \in 0..Retries(cfg)
  BY <1>1, <1>2, CallFields DEF IInv, Calling
<1>4. CASE Serve(p)
  <2>. DEFINE cmd == call[p].cmd
              c == [at |-> "done", cmd |-> cmd, left |-> call[p].left,
                    found |-> IF cmd.op = "get" THEN store[cmd.key] ELSE None]
  <2>1. store' \in [Keys -> Entry \cup {None}]
    BY <1>3, <1>4, RunType DEF Serve, IInv
  <2>2. (IF cmd.op = "get" THEN store[cmd.key] ELSE None) \in Entry \cup {None}
    BY <1>3, Rest, CommandFields
  <2>3. c \in Calls /\ c.cmd = call[p].cmd
    BY <1>3, <2>2 DEF Calls, Served
  <2>4. Proceed(p, c) /\ UNCHANGED wire
    BY <1>4 DEF Serve
  <2>. HIDE DEF c
  <2>. QED  BY <1>1, <1>2, <1>3, <2>1, <2>3, <2>4, Rest, ProceedInv
<1>5. CASE Reply(p)
  <2>. DEFINE r == Found(call[p].cmd, call[p].found)
  <2>1. call[p].found \in Entry \cup {None}
    BY <1>1, <1>5, CallFields DEF Reply
  <2>2. r.err \in {"nil", "ErrNotFound", "error"} /\ r.val \in Values \cup {None}
    BY <2>1 DEF Found, Entry
  <2>3. Return(p, r.err, r.val) /\ UNCHANGED <<store, wire>>
    BY <1>5 DEF Reply
  <2>. HIDE DEF r
  <2>. QED  BY <1>1, <1>3, <2>2, <2>3, Rest, ReturnInv
<1>6. CASE Lost(p)
  <2>1. wire' \subseteq wire \cup ({call[p].cmd} \cap Writes)
    BY <1>6 DEF Lost
  <2>2. wire' \subseteq Writes /\ \A cmd \in wire' : Honest(cmd)
    BY <1>3, <2>1, Rest
  <2>. QED  BY <1>1, <1>2, <1>6, <2>2, Rest, GiveUpInv DEF Lost
<1>. QED  BY <1>4, <1>5, <1>6 DEF Continue

LEMMA CloseInv ==
  ASSUME IInv, NEW p \in Procs, Close(p)
  PROVE  IInv'
<1>1. boot = "ready" /\ client' = "closed" /\ UNCHANGED <<boot, cfg, store, wire>>
  BY DEF Close
<1>2. client' \in Clients
  BY <1>1 DEF Clients
<1>3. \E err \in {"nil", "error"} : Return(p, err, None)
  BY DEF Close
<1>. QED  BY <1>1, <1>2, <1>3, Rest, ReturnInv

LEMMA InitInv == Init => IInv
<1>. SUFFICES ASSUME Init PROVE IInv
  OBVIOUS
<1>1. boot = "none" /\ cfg \in Configs /\ client \in Clients
  BY DEF Init, Config, Configs, Clients
<1>2. call \in [Procs -> Calls] /\ res \in [Procs -> Results] /\ \A p \in Procs : call[p] = Idle
  BY DEF Init, Calls, Results
<1>3. IsFiniteSet(Busy) /\ Cardinality(Busy) = 0 /\ Pool(cfg) \in Nat
  BY <1>1, <1>2, Unused, ConfigIs
<1>4. Cardinality(Busy) <= Pool(cfg)
  BY <1>3
<1>5. store \in [Keys -> Entry \cup {None}] /\ wire = {}
  BY DEF Init
<1>6. TypeOK
  BY <1>1, <1>2, <1>4, <1>5, Types
<1>. QED  BY <1>1, <1>2, <1>3, <1>5, <1>6 DEF IInv, Calling

LEMMA StepInv == IInv /\ [Next]_vars => IInv'
<1>. SUFFICES ASSUME IInv, [Next]_vars PROVE IInv'
  OBVIOUS
<1>1. CASE NewRedisCache \/ NewClient \/ Ping \/ \E o \in Options : ApplyOption(o)
  BY <1>1, ConstructInv
<1>2. CASE (\E cmd \in Writes : Arrive(cmd)) \/ (\E k \in Keys : Expire(k))
  BY <1>2, ServerInv
<1>3. ASSUME NEW p \in Procs, Start(p) \/ Acquire(p) \/ Continue(p) PROVE IInv'
  BY <1>3, CommandHonest, SendInv, CloseInv, AcquireInv, ContinueInv
<1>4. CASE UNCHANGED vars
  <2>1. UNCHANGED <<boot, cfg, client, store, wire, call, res>>
    BY <1>4 DEF vars
  <2>2. TypeOK'
    BY <2>1 DEF IInv, TypeOK, Busy
  <2>3. Calling'
    BY <2>1 DEF IInv, Calling, Busy
  <2>. QED  BY <2>2, <2>3 DEF IInv
<1>. QED  BY <1>1, <1>2, <1>3, <1>4 DEF Next

\* RedisCache keeps its types: in particular it has no more commands under way than its pool
\* has connections, retries no command more often than configured, and a constructor that
\* failed left no client open, whatever options an application passes and whatever fails.
THEOREM RedisTypeCorrect == Spec => []TypeOK
<1>1. IInv => TypeOK
  BY DEF IInv
<1>. QED  BY <1>1, InitInv, StepInv, PTL DEF Spec

-----------------------------------------------------------------------------
(* RedisCache implements LateCacheService.                                 *)

\* What the abstract cache sees of the detailed one.
Refused == client # "open" \/ boot # "ready"
Doubtful == {Asked(cmd) : cmd \in wire}
Pend == [p \in Procs |-> Pending(call[p])]

\* The request behind a command: no two commands under way have the same.
LEMMA AskedIs ==
  ASSUME NEW cmd \in Commands
  PROVE  /\ Asked(cmd) \in Service!Requests /\ Asked(cmd).op = cmd.op /\ Asked(cmd).key = cmd.key
         /\ cmd.op = "set" => Asked(cmd).val = cmd.val /\ Asked(cmd).ttl = cmd.asked
         /\ Asked(cmd) \in Service!Writes <=> cmd \in Writes
<1>1. CASE cmd.op = "set"
  <2>1. cmd \in Writes /\ cmd.key \in Keys /\ cmd.val \in Values /\ cmd.asked \in BOOLEAN
    BY <1>1, CommandFields
  <2>. QED  BY <1>1, <2>1 DEF Asked, Service!Requests, Service!Writes
<1>2. CASE cmd.op # "set"
  <2>1. cmd \in [op : {"get", "delete"}, key : Keys]
    BY <1>2 DEF Commands, Writes
  <2>. QED  BY <1>2, <2>1 DEF Asked, Commands, Writes, Service!Requests, Service!Writes
<1>. QED  BY <1>1, <1>2

LEMMA AskedOnce ==
  ASSUME NEW c \in Writes, NEW d \in Writes, Honest(c), Honest(d), Asked(c) = Asked(d)
  PROVE  c = d
<1>1. c \in Commands /\ d \in Commands
  BY DEF Commands
<1>2. c.op = d.op /\ c.key = d.key
  BY <1>1, AskedIs
<1>3. CASE c.op = "set"
  <2>1. c.val = d.val /\ c.asked = d.asked /\ c.ttl = d.ttl
    BY <1>1, <1>2, <1>3, AskedIs DEF Honest
  <2>2. /\ c \in [op : {"set"}, key : Keys, val : Values, asked : BOOLEAN, ttl : BOOLEAN]
        /\ d \in [op : {"set"}, key : Keys, val : Values, asked : BOOLEAN, ttl : BOOLEAN]
    BY <1>2, <1>3 DEF Writes
  <2>. QED  BY <1>2, <2>1, <2>2
<1>4. CASE c.op # "set"
  BY <1>2, <1>4 DEF Writes
<1>. QED  BY <1>3, <1>4

LEMMA PendingIs ==
  ASSUME NEW c \in Calls
  PROVE  /\ c.at = "idle" => Pending(c) = Service!Idle
         /\ c.at \in {"queue", "sent"} => Pending(c) = [op |-> "call", req |-> Asked(c.cmd)]
         /\ c.at = "done" => Pending(c) = [op |-> "taken", req |-> Asked(c.cmd), found |-> c.found]
  BY DEF Pending, Service!Idle

LEMMA Answers ==
  ASSUME IInv, NEW p \in Procs, NEW err, NEW val, Return(p, err, val)
  PROVE  Service!Answer(p, err, val)
<1>1. call' = [call EXCEPT ![p] = Idle] /\ res' = [res EXCEPT ![p] = [err |-> err, val |-> val]]
      /\ call \in [Procs -> Calls]
  BY Types DEF Return, IInv
<1>2. Pending(Idle) = Service!Idle
  BY DEF Pending, Idle, Service!Idle
<1>3. Pend' = [Pend EXCEPT ![p] = Service!Idle]
  BY <1>1, <1>2 DEF Pend
<1>. QED  BY <1>1, <1>3 DEF Pend, Service!Answer

LEMMA Awaits ==
  ASSUME IInv, NEW p \in Procs, NEW c, Proceed(p, c)
  PROVE  /\ Service!Await(p, Pending(c))
         /\ call[p] # Idle /\ Pending(c) = Pending(call[p]) => Pend' = Pend /\ res' = res
<1>1. /\ call' = [call EXCEPT ![p] = c] /\ res' = [res EXCEPT ![p] = [err |-> "nil", val |-> None]]
      /\ call \in [Procs -> Calls] /\ res \in [Procs -> Results]
  BY Types DEF Proceed, IInv
<1>2. Pend' = [Pend EXCEPT ![p] = Pending(c)]
  BY <1>1 DEF Pend
<1>3. ASSUME call[p] # Idle, Pending(c) = Pending(call[p])
      PROVE  Pend' = Pend /\ res' = res
  <2>1. res[p] = [err |-> "nil", val |-> None]
    BY <1>3 DEF IInv, Calling, NoReply
  <2>2. Pend[p] = Pending(c)
    BY <1>3 DEF Pend
  <2>. QED  BY <1>1, <1>2, <2>1, <2>2 DEF Pend
<1>. QED  BY <1>1, <1>2, <1>3 DEF Pend, Service!Await

\* A caller in a call, to the abstract cache.
LEMMA Asking ==
  ASSUME IInv, NEW p \in Procs, call[p] # Idle
  PROVE  /\ call[p] \in Calls /\ call[p].cmd \in Commands /\ Honest(call[p].cmd)
         /\ Pend[p] # Service!Idle /\ Pend[p].req = Asked(call[p].cmd)
         /\ call[p].at \in {"queue", "sent"} => Pend[p] = [op |-> "call", req |-> Asked(call[p].cmd)]
         /\ call[p].at = "done"
               => Pend[p] = [op |-> "taken", req |-> Asked(call[p].cmd), found |-> call[p].found]
<1>1. call[p] \in Calls /\ Honest(call[p].cmd)
  BY Types DEF IInv, Calling
<1>2. call[p].at \in {"queue", "sent", "done"} /\ call[p].cmd \in Commands
  BY <1>1, CallFields
<1>3. Pend[p] = Pending(call[p])
  BY DEF Pend
<1>4. /\ call[p].at \in {"queue", "sent"} => Pend[p] = [op |-> "call", req |-> Asked(call[p].cmd)]
      /\ call[p].at = "done"
            => Pend[p] = [op |-> "taken", req |-> Asked(call[p].cmd), found |-> call[p].found]
  BY <1>1, <1>3, PendingIs
<1>5. Pend[p].op # "idle" /\ Pend[p].req = Asked(call[p].cmd)
  BY <1>2, <1>4
<1>6. Pend[p] # Service!Idle
  BY <1>5 DEF Service!Idle
<1>. QED  BY <1>1, <1>2, <1>4, <1>5, <1>6

\* A command does to the entries what its request asks for.
LEMMA RunEffect ==
  ASSUME NEW cmd \in Commands, Honest(cmd), Run(cmd)
  PROVE  Service!Effect(Asked(cmd))
<1>1. CASE cmd.op = "set"
  BY <1>1, AskedIs DEF Run, Service!Effect, Honest
<1>2. CASE cmd.op # "set"
  BY <1>2, AskedIs DEF Run, Service!Effect
<1>. QED  BY <1>1, <1>2

LEMMA ConstructImplements ==
  ASSUME IInv, NewRedisCache \/ NewClient \/ Ping \/ \E o \in Options : ApplyOption(o)
  PROVE  Service!Open \/ UNCHANGED Service!svars
<1>1. UNCHANGED <<store, wire, call, res>> /\ Refused
  <2>1. client \in Clients
    BY Rest
  <2>. QED  BY <2>1 DEF NewRedisCache, NewClient, Ping, ApplyOption, calls, Refused, Clients
<1>2. CASE Refused'
  BY <1>1, <1>2 DEF Refused, Service!svars
<1>3. CASE ~Refused'
  BY <1>1, <1>3 DEF Refused, Service!Open
<1>. QED  BY <1>2, <1>3

LEMMA SendImplements ==
  ASSUME IInv, NEW p \in Procs, NEW cmd \in Commands, Send(p, cmd)
  PROVE  Service!Request(p, Asked(cmd))
<1>. DEFINE c == [at |-> "queue", cmd |-> cmd, left |-> Retries(cfg)]
<1>1. /\ boot = "ready" /\ call[p] = Idle /\ UNCHANGED <<boot, client, store, wire>>
      /\ client \in {"open", "closed"}
  BY Rest DEF Send, Clients
<1>2. Pend[p] = Service!Idle
  BY <1>1 DEF Pend, Pending, Idle, Service!Idle
<1>3. CASE client = "closed"
  <2>1. Service!Answer(p, "error", None)
    BY <1>3, Answers DEF Send
  <2>. QED  BY <1>1, <1>2, <1>3, <2>1 DEF Service!Request, Pend
<1>4. CASE client = "open"
  <2>1. PICK d : d = c
    OBVIOUS
  <2>2. Proceed(p, d)
    BY <1>4, <2>1 DEF Send, Proceed
  <2>3. Pending(d) = [op |-> "call", req |-> Asked(cmd)]
    BY <2>1 DEF Pending
  <2>4. Service!Await(p, [op |-> "call", req |-> Asked(cmd)])
    BY <2>2, <2>3, Awaits DEF Service!Await
  <2>. QED  BY <1>1, <1>2, <1>4, <2>4 DEF Service!Request, Pend
<1>. QED  BY <1>1, <1>3, <1>4

\* An attempt that is given up leaves a write in doubt, or not.
LEMMA GiveUpImplements ==
  ASSUME IInv, NEW p \in Procs, call[p] # Idle, GiveUp(p), UNCHANGED <<boot, client, store>>,
         wire' \in {wire, wire \cup ({call[p].cmd} \cap Writes)}
  PROVE  Service!Doubt(p)
<1>1. /\ call[p].cmd \in Commands /\ Pend[p] # Service!Idle /\ Pend[p].req = Asked(call[p].cmd)
  BY Asking
<1>2. Doubtful' \in {Doubtful, Doubtful \cup ({Pend[p].req} \cap Service!Writes)}
  <2>1. CASE wire' = wire
    BY <2>1 DEF Doubtful
  <2>2. CASE wire' = wire \cup {call[p].cmd} /\ call[p].cmd \in Writes
    <3>1. Doubtful' = Doubtful \cup {Asked(call[p].cmd)}
      BY <2>2 DEF Doubtful
    <3>2. Asked(call[p].cmd) \in Service!Writes
      BY <1>1, <2>2, AskedIs
    <3>. QED  BY <1>1, <3>1, <3>2
  <2>. QED  BY <2>1, <2>2
<1>3. \/ Service!Await(p, [op |-> "call", req |-> Pend[p].req])
      \/ Service!Answer(p, "error", None)
  <2>1. CASE Return(p, "error", None)
    BY <2>1, Answers
  <2>2. CASE Proceed(p, [at |-> "queue", cmd |-> call[p].cmd, left |-> call[p].left - 1])
    <3>1. PICK d : d = [at |-> "queue", cmd |-> call[p].cmd, left |-> call[p].left - 1]
      OBVIOUS
    <3>2. Proceed(p, d)
      BY <2>2, <3>1 DEF Proceed
    <3>3. Pending(d) = [op |-> "call", req |-> Pend[p].req]
      BY <1>1, <3>1 DEF Pending
    <3>. QED  BY <3>2, <3>3, Awaits DEF Service!Await
  <2>. QED  BY <2>1, <2>2 DEF GiveUp
<1>. QED  BY <1>1, <1>2, <1>3 DEF Service!Doubt, Doubtful, Pend

LEMMA AcquireImplements ==
  ASSUME IInv, NEW p \in Procs, Acquire(p)
  PROVE  Service!Doubt(p) \/ UNCHANGED Service!svars
<1>1. call[p].at = "queue" /\ UNCHANGED <<boot, cfg, client, store, wire>>
  BY DEF Acquire
<1>2. call[p] # Idle
  BY <1>1 DEF Idle
<1>3. CASE Proceed(p, [call[p] EXCEPT !.at = "sent"])
  <2>1. PICK d : d = [call[p] EXCEPT !.at = "sent"]
    OBVIOUS
  <2>2. Proceed(p, d)
    BY <1>3, <2>1 DEF Proceed
  <2>3. call[p] \in Sending(0..Retries(cfg))
    BY <1>1, <1>2, Asking DEF Calls, Served
  <2>4. d.at = "sent" /\ d.cmd = call[p].cmd
    BY <2>1, <2>3 DEF Sending
  <2>5. Pending(d) = Pending(call[p])
    BY <1>1, <2>4 DEF Pending
  <2>6. Pend' = Pend /\ res' = res
    BY <1>2, <2>2, <2>5, Awaits
  <2>. QED  BY <1>1, <2>6 DEF Service!svars, Pend
<1>4. CASE GiveUp(p)
  BY <1>1, <1>2, <1>4, GiveUpImplements
<1>5. CASE Return(p, "error", None)
  <2>1. Service!Answer(p, "error", None) /\ Pend[p] # Service!Idle
    BY <1>2, <1>5, Answers, Asking
  <2>. QED  BY <1>1, <2>1 DEF Service!Doubt, Pend
<1>. QED  BY <1>3, <1>4, <1>5 DEF Acquire

LEMMA ServeImplements ==
  ASSUME IInv, NEW p \in Procs, Serve(p)
  PROVE  Service!Take(p)
<1>. DEFINE cmd == call[p].cmd
            found == IF cmd.op = "get" THEN store[cmd.key] ELSE None
<1>1. call[p].at = "sent" /\ UNCHANGED <<boot, cfg, client, wire>> /\ Run(cmd)
  BY DEF Serve
<1>2. call[p] # Idle
  BY <1>1 DEF Idle
<1>3. cmd \in Commands /\ Honest(cmd) /\ Pend[p] = [op |-> "call", req |-> Asked(cmd)]
  BY <1>1, <1>2, Asking
<1>4. Service!Effect(Pend[p].req)
  <2>1. PICK x \in Commands : x = cmd
    BY <1>3
  <2>2. Run(x) /\ Honest(x)
    BY <1>1, <1>3, <2>1 DEF Run
  <2>3. Service!Effect(Asked(x))
    BY <2>2, RunEffect
  <2>. QED  BY <1>3, <2>1, <2>3 DEF Service!Effect
<1>5. Service!Await(p, [op |-> "taken", req |-> Pend[p].req,
                        found |-> IF Pend[p].req.op = "get" THEN store[Pend[p].req.key] ELSE None])
  <2>1. PICK d : d = [at |-> "done", cmd |-> cmd, left |-> call[p].left, found |-> found]
    OBVIOUS
  <2>2. Proceed(p, d)
    BY <2>1 DEF Serve, Proceed
  <2>3. Pending(d) = [op |-> "taken", req |-> Asked(cmd), found |-> found]
    BY <2>1 DEF Pending
  <2>4. found = IF Pend[p].req.op = "get" THEN store[Pend[p].req.key] ELSE None
    BY <1>3, AskedIs
  <2>. QED  BY <1>3, <2>2, <2>3, <2>4, Awaits DEF Service!Await
<1>6. Pend[p].op = "call"
  BY <1>3
<1>. QED  BY <1>1, <1>4, <1>5, <1>6 DEF Service!Take, Pend

LEMMA ReplyImplements ==
  ASSUME IInv, NEW p \in Procs, Reply(p)
  PROVE  Service!Done(p)
<1>. DEFINE found == call[p].found
<1>1. call[p].at = "done" /\ UNCHANGED <<boot, cfg, client, store, wire>>
  BY DEF Reply
<1>2. call[p] # Idle
  BY <1>1 DEF Idle
<1>3. /\ call[p].cmd \in Commands
      /\ Pend[p] = [op |-> "taken", req |-> Asked(call[p].cmd), found |-> found]
  BY <1>1, <1>2, Asking
<1>4. Pend[p].op = "taken" /\ Pend[p].found = found /\ Pend[p].req.op = call[p].cmd.op
  BY <1>3, AskedIs
<1>5. PICK r : r = Found(call[p].cmd, found)
  OBVIOUS
<1>6. Service!Answer(p, r.err, r.val)
  <2>1. PICK err, val : err = r.err /\ val = r.val
    OBVIOUS
  <2>2. Return(p, err, val)
    BY <1>5, <2>1 DEF Reply, Return
  <2>. QED  BY <2>1, <2>2, Answers
<1>7. CASE found # None
  <2>1. r.err = "nil" /\ r.val = Pend[p].found.val
    BY <1>4, <1>5, <1>7 DEF Found
  <2>2. Service!Answer(p, "nil", Pend[p].found.val)
    BY <1>6, <2>1 DEF Service!Answer
  <2>. QED  BY <1>1, <1>4, <1>7, <2>2 DEF Service!Done, Pend
<1>8. CASE found = None
  <2>1. r.err = (IF Pend[p].req.op = "get" THEN "ErrNotFound" ELSE "nil") /\ r.val = None
    BY <1>4, <1>5, <1>8 DEF Found
  <2>2. Service!Answer(p, IF Pend[p].req.op = "get" THEN "ErrNotFound" ELSE "nil", None)
    BY <1>6, <2>1 DEF Service!Answer
  <2>. QED  BY <1>1, <1>4, <1>8, <2>2 DEF Service!Done, Pend
<1>. QED  BY <1>7, <1>8

LEMMA LostImplements ==
  ASSUME IInv, NEW p \in Procs, Lost(p)
  PROVE  Service!Doubt(p)
<1>1. /\ call[p].at \in {"sent", "done"} /\ UNCHANGED <<boot, cfg, client, store>> /\ GiveUp(p)
      /\ wire' \in {wire, wire \cup ({call[p].cmd} \cap Writes)}
  BY DEF Lost
<1>2. call[p] # Idle
  BY <1>1 DEF Idle
<1>. QED  BY <1>1, <1>2, GiveUpImplements

LEMMA ArriveImplements ==
  ASSUME IInv, NEW cmd \in Writes, Arrive(cmd)
  PROVE  \E r \in Service!Writes : Service!Late(r)
<1>1. cmd \in Commands /\ cmd \in wire /\ Honest(cmd) /\ \A d \in wire : d \in Writes /\ Honest(d)
  BY Rest DEF Arrive, Commands
<1>2. Asked(cmd) \in Service!Writes
  BY <1>1, AskedIs
<1>3. Asked(cmd) \in Doubtful /\ Doubtful' = Doubtful \ {Asked(cmd)}
  <2>1. wire' = wire \ {cmd}
    BY DEF Arrive
  <2>2. \A d \in wire : Asked(d) = Asked(cmd) => d = cmd
    BY <1>1, AskedOnce
  <2>. QED  BY <1>1, <2>1, <2>2 DEF Doubtful
<1>4. Service!Effect(Asked(cmd)) \/ UNCHANGED store
  BY <1>1, RunEffect DEF Arrive
<1>5. UNCHANGED <<boot, client, call, res>>
  BY DEF Arrive, calls
<1>6. Service!Late(Asked(cmd))
  BY <1>3, <1>4, <1>5 DEF Service!Late, Doubtful
<1>. QED  BY <1>2, <1>6

\* A Close of a cache that is closed fails, as any other request would.
LEMMA CloseImplements ==
  ASSUME IInv, Keys # {}, NEW p \in Procs, Close(p)
  PROVE  Service!Close(p) \/ \E r \in Service!Requests : Service!Request(p, r)
<1>1. boot = "ready" /\ call[p] = Idle /\ client' = "closed" /\ UNCHANGED <<boot, store, wire>>
      /\ client \in {"open", "closed"}
  BY Rest DEF Close, Clients
<1>2. Pend[p] = Service!Idle
  BY <1>1 DEF Pend, Pending, Idle, Service!Idle
<1>3. CASE client = "open"
  <2>1. Service!Answer(p, "nil", None)
    BY <1>3, Answers DEF Close
  <2>. QED  BY <1>1, <1>2, <2>1 DEF Service!Close, Pend
<1>4. CASE client = "closed"
  <2>1. Service!Answer(p, "error", None)
    BY <1>4, Answers DEF Close
  <2>2. PICK r \in Service!Requests : TRUE
    <3>1. PICK k \in Keys : TRUE
      OBVIOUS
    <3>2. [op |-> "get", key |-> k] \in Service!Requests
      BY DEF Service!Requests
    <3>. QED  BY <3>2
  <2>. QED  BY <1>1, <1>2, <1>4, <2>1, <2>2 DEF Service!Request, Pend
<1>. QED  BY <1>1, <1>3, <1>4

\* Every step is a step of the abstract cache, or shows nothing.
LEMMA StepImplements == Keys # {} /\ IInv /\ [Next]_vars => [Service!Next]_Service!svars
<1>. SUFFICES ASSUME Keys # {}, IInv, [Next]_vars PROVE [Service!Next]_Service!svars
  OBVIOUS
<1>1. CASE NewRedisCache \/ NewClient \/ Ping \/ \E o \in Options : ApplyOption(o)
  BY <1>1, ConstructImplements DEF Service!Next
<1>2. ASSUME NEW p \in Procs, Start(p) PROVE Service!Next
  <2>1. CASE Close(p)
    BY <2>1, CloseImplements DEF Service!Next
  <2>2. CASE ~Close(p)
    <3>1. PICK cmd \in Commands : Send(p, cmd)
      BY <1>2, <2>2, CommandHonest
    <3>2. Asked(cmd) \in Service!Requests
      BY AskedIs
    <3>. QED  BY <3>1, <3>2, SendImplements DEF Service!Next
  <2>. QED  BY <2>1, <2>2
<1>3. ASSUME NEW p \in Procs, Acquire(p) PROVE [Service!Next]_Service!svars
  BY <1>3, AcquireImplements DEF Service!Next
<1>4. ASSUME NEW p \in Procs, Continue(p) PROVE Service!Next
  BY <1>4, ServeImplements, ReplyImplements, LostImplements DEF Continue, Service!Next
<1>5. ASSUME NEW cmd \in Writes, Arrive(cmd) PROVE Service!Next
  BY <1>5, ArriveImplements DEF Service!Next
<1>6. ASSUME NEW k \in Keys, Expire(k) PROVE Service!Next
  <2>1. Service!Expire(k)
    BY <1>6 DEF Expire, calls, Service!Expire
  <2>. QED  BY <2>1 DEF Service!Next
<1>7. CASE UNCHANGED vars
  BY <1>7 DEF vars, Service!svars
<1>. QED  BY <1>1, <1>2, <1>3, <1>4, <1>5, <1>6, <1>7 DEF Next

LEMMA InitImplements == Init => Service!Init
  BY DEF Init, Idle, Pending, Service!Init, Service!Idle

\* RedisCache does nothing worse than what a network makes unavoidable: a write whose answer
\* was lost may happen once more, later than writes that came after it, every other call
\* takes effect at one moment, and an entry set without a positive TTL stays.
THEOREM RedisImplements == ASSUME Keys # {} PROVE Spec => ImplementsLateCache
<1>. QED  BY InitInv, StepInv, InitImplements, StepImplements, PTL
          DEF Spec, ImplementsLateCache, Service!Spec

=============================================================================
