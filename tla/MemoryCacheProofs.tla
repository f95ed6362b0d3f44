-------------------------- MODULE MemoryCacheProofs --------------------------
(***************************************************************************)
(* MemoryCache, for any number of keys, values and goroutines: it keeps    *)
(* its types, a Close that returns has closed it, and it implements the    *)
(* Cache interface as CacheService states it.                              *)
(***************************************************************************)
EXTENDS MemoryCache, TLAPS

\* Where the goroutine that runs the Once may stand.
Closing == {"close.lock", "close.stop", "close.clear", "close.mark"}

\* Whoever is past the Once is the one that runs it, the cache is closed when
\* the Once is done and not before, and a caller in a call has no result yet.
OnceInv ==
    /\ closed <=> once = "done"
    /\ closed => stop
    /\ \A p \in Procs :
          /\ call[p].at \in Closing => once = p
          /\ call[p].at \in {"close.clear", "close.mark"} => stop
          /\ call[p].at # "idle" => res[p] = NoResult

IInv == TypeOK /\ OnceInv /\ ClosedOnReturn

-----------------------------------------------------------------------------
(* Calls and items.                                                        *)

\* Each kind of call carries its key, value and TTL.
LEMMA CallFields ==
  ASSUME NEW c \in Calls
  PROVE  /\ c.at \in {"get", "delete"} => c.key \in Keys /\ c = [at |-> c.at, key |-> c.key]
         /\ c.at = "set" => /\ c.key \in Keys /\ c.val \in Values /\ c.ttl \in BOOLEAN
         /\ c.at = "idle" => c = Idle
         /\ c.at \in {"idle", "get", "delete", "set", "close.once"} \cup Closing
  BY DEF Calls, Idle, Closing

\* What Set stores is an item, live until its TTL is over.
LEMMA StoredType ==
  ASSUME NEW v \in Values, NEW ttl \in BOOLEAN
  PROVE  /\ Stored(v, ttl) \in Item
         /\ LiveEntry(Stored(v, ttl)) = [val |-> v, ttl |-> ttl]
<1>1. Stored(v, ttl) \in Item
  BY DEF Stored, Item, Clocks
<1>2. Stored(v, ttl) # None
  BY <1>1, NamesAssumption DEF Item, Clocks
<1>. QED  BY <1>1, <1>2 DEF Stored, LiveEntry

\* A call that goes on.
LEMMA ProceedType ==
  ASSUME TypeOK, NEW p \in Procs, NEW c \in Calls, Proceed(p, c)
  PROVE  call' \in [Procs -> Calls] /\ res' \in [Procs -> Result]
<1>1. NoResult \in Result
  BY DEF NoResult, Result
<1>. QED  BY <1>1 DEF TypeOK, Proceed

\* A call that returns.
LEMMA ReturnType ==
  ASSUME TypeOK, NEW p \in Procs, NEW op \in {"get", "set", "delete", "close"},
         NEW err \in {"nil", "ErrNotFound", "ErrCacheClosed"}, NEW v \in Values \cup {None},
         Return(p, op, err, v)
  PROVE  call' \in [Procs -> Calls] /\ res' \in [Procs -> Result]
<1>1. Idle \in Calls /\ [op |-> op, err |-> err, val |-> v] \in Result
  BY DEF Calls, Result
<1>. QED  BY <1>1 DEF TypeOK, Return

-----------------------------------------------------------------------------
(* The inductive invariant, by operation.                                  *)

\* A call that begins: with ErrCacheClosed, or past the check.
LEMMA BeginInv ==
  ASSUME IInv, NEW p \in Procs, NEW c \in Calls, c.at \in {"get", "set", "delete"}, Begin(p, c)
  PROVE  IInv'
<1>. USE DEF IInv
<1>1. TypeOK'
  BY ProceedType, ReturnType DEF Begin, TypeOK
<1>2. UNCHANGED <<closed, stop, once>>
  BY DEF Begin
<1>3. CASE closed /\ Return(p, c.at, "ErrCacheClosed", None)
  <2>1. OnceInv'
    BY <1>2, <1>3 DEF TypeOK, OnceInv, Return, Idle, Closing
  <2>2. ClosedOnReturn'
    BY <1>2, <1>3 DEF TypeOK, OnceInv, ClosedOnReturn, Return
  <2>. QED  BY <1>1, <2>1, <2>2
<1>4. CASE Proceed(p, c)
  <2>1. OnceInv'
    BY <1>2, <1>4 DEF TypeOK, OnceInv, Proceed, Closing
  <2>2. ClosedOnReturn'
    BY <1>2, <1>4 DEF TypeOK, ClosedOnReturn, Proceed, NoResult
  <2>. QED  BY <1>1, <2>1, <2>2
<1>. QED  BY <1>3, <1>4 DEF Begin

\* Get, Set and Delete, each in its critical section.
LEMMA AccessInv ==
  ASSUME IInv, NEW p \in Procs, Get(p) \/ Set(p) \/ Delete(p)
  PROVE  IInv'
<1>. USE DEF IInv
<1>1. CASE Get(p)
  <2>. DEFINE it == items[call[p].key]
  <2>1. call[p].key \in Keys /\ it \in Item \cup {None}
    BY <1>1, CallFields DEF Get, TypeOK
  <2>2. it # None => it.val \in Values
    BY <2>1 DEF Item
  <2>3. call' \in [Procs -> Calls] /\ res' \in [Procs -> Result]
    BY <1>1, <2>2, ReturnType DEF Get
  <2>. QED  BY <1>1, <2>3 DEF Get, TypeOK, OnceInv, ClosedOnReturn, Return, Idle, Closing
<1>2. CASE Set(p)
  <2>1. items' \in [Keys -> Item \cup {None}]
    BY <1>2, CallFields, StoredType DEF Set, TypeOK
  <2>2. call' \in [Procs -> Calls] /\ res' \in [Procs -> Result]
    BY <1>2, ReturnType DEF Set
  <2>. QED  BY <1>2, <2>1, <2>2 DEF Set, TypeOK, OnceInv, ClosedOnReturn, Return, Idle, Closing
<1>3. CASE Delete(p)
  <2>1. call' \in [Procs -> Calls] /\ res' \in [Procs -> Result]
    BY <1>3, ReturnType DEF Delete
  <2>. QED  BY <1>3, <2>1 DEF Delete, TypeOK, OnceInv, ClosedOnReturn, Return, Idle, Closing
<1>. QED  BY <1>1, <1>2, <1>3

\* Close, step by step.
LEMMA CloseInv ==
  ASSUME IInv, NEW p \in Procs,
         \/ CloseStart(p) \/ CloseOnce(p) \/ CloseLock(p) \/ CloseStop(p) \/ CloseClear(p)
         \/ CloseMark(p)
  PROVE  IInv'
<1>. USE DEF IInv, TypeOK, OnceInv, ClosedOnReturn, Closing, Idle, NoResult
<1>1. ASSUME NEW at \in {"close.once", "close.lock", "close.stop", "close.clear", "close.mark"},
             Proceed(p, [at |-> at])
      PROVE  call' \in [Procs -> Calls] /\ res' \in [Procs -> Result]
  <2>1. [at |-> at] \in Calls
    BY DEF Calls
  <2>. QED  BY <1>1, <2>1, ProceedType
<1>2. ASSUME Return(p, "close", "nil", None)
      PROVE  call' \in [Procs -> Calls] /\ res' \in [Procs -> Result]
  BY <1>2, ReturnType
<1>3. CASE CloseStart(p)
  BY <1>1, <1>3 DEF CloseStart, Proceed
<1>4. CASE CloseOnce(p) /\ once = "new"
  BY <1>1, <1>4, NamesAssumption DEF CloseOnce, Proceed
<1>5. CASE CloseOnce(p) /\ once = "done"
  BY <1>2, <1>5, NamesAssumption DEF CloseOnce, Return
<1>6. CASE CloseLock(p)
  BY <1>1, <1>6 DEF CloseLock, Proceed
<1>7. CASE CloseStop(p)
  BY <1>1, <1>7 DEF CloseStop, Proceed
<1>8. CASE CloseClear(p)
  BY <1>1, <1>8 DEF CloseClear, Proceed, NoItems
<1>9. CASE CloseMark(p)
  BY <1>2, <1>9, NamesAssumption DEF CloseMark, Return
<1>. QED  BY <1>3, <1>4, <1>5, <1>6, <1>7, <1>8, <1>9 DEF CloseOnce

\* The sweep, and the passing of time.
LEMMA RestInv ==
  ASSUME IInv, \/ GcTick \/ Sweep \/ GcExit \/ (\E k \in Keys : Elapse(k)) \/ UNCHANGED vars
  PROVE  IInv'
<1>. USE DEF IInv, TypeOK
<1>1. UNCHANGED <<closed, stop, once, call, res>>
  BY DEF GcTick, Sweep, GcLock, GcSweep, GcUnlock, GcExit, Elapse, vars
<1>2. OnceInv' /\ ClosedOnReturn'
  BY <1>1 DEF OnceInv, ClosedOnReturn
<1>3. CASE GcTick \/ GcLock \/ GcUnlock \/ GcExit \/ UNCHANGED vars
  BY <1>1, <1>2, <1>3 DEF GcTick, GcLock, GcUnlock, GcExit, vars
<1>4. ASSUME NEW k \in Keys, GcSweep(k) PROVE TypeOK'
  BY <1>1, <1>4 DEF GcSweep
<1>5. ASSUME NEW k \in Keys, Elapse(k) PROVE TypeOK'
  BY <1>1, <1>5 DEF Elapse, Item, Clocks
<1>. QED  BY <1>2, <1>3, <1>4, <1>5 DEF Sweep

\* Every step keeps the invariant.
LEMMA StepInv == IInv /\ [Next]_vars => IInv'
<1>. SUFFICES ASSUME IInv, [Next]_vars PROVE IInv'
  OBVIOUS
<1>1. ASSUME NEW p \in Procs, Start(p) PROVE IInv'
  <2>1. ASSUME NEW k \in Keys, NEW at \in {"get", "delete"}, Begin(p, [at |-> at, key |-> k])
        PROVE  IInv'
    <3>1. [at |-> at, key |-> k] \in Calls
      BY DEF Calls
    <3>. QED  BY <2>1, <3>1, BeginInv
  <2>2. ASSUME NEW k \in Keys, NEW v \in Values, NEW ttl \in BOOLEAN,
               Begin(p, [at |-> "set", key |-> k, val |-> v, ttl |-> ttl])
        PROVE  IInv'
    <3>1. [at |-> "set", key |-> k, val |-> v, ttl |-> ttl] \in Calls
      BY DEF Calls
    <3>. QED  BY <2>2, <3>1, BeginInv
  <2>. QED  BY <1>1, <2>1, <2>2, CloseInv DEF Start
<1>2. ASSUME NEW p \in Procs, Continue(p) PROVE IInv'
  BY <1>2, AccessInv, CloseInv DEF Continue
<1>. QED  BY <1>1, <1>2, RestInv DEF Next

\* Initially the cache is open, empty and idle.
LEMMA InitInv == Init => IInv
<1>. SUFFICES ASSUME Init PROVE IInv
  OBVIOUS
<1>1. Idle \in Calls /\ NoResult \in Result
  BY DEF Calls, Result, NoResult
<1>2. NoItems \in [Keys -> Item \cup {None}]
  BY DEF NoItems
<1>3. TypeOK
  BY <1>1, <1>2 DEF Init, TypeOK
<1>4. OnceInv
  BY DEF Init, OnceInv, Idle, Closing
<1>5. ClosedOnReturn
  BY DEF Init, ClosedOnReturn, NoResult
<1>. QED  BY <1>3, <1>4, <1>5 DEF IInv

\* Every variable keeps its shape, for any number of goroutines.
THEOREM CacheTypeCorrect == Spec => []TypeOK
<1>. QED  BY InitInv, StepInv, PTL DEF Spec, IInv

\* Whoever's Close returns, the cache is closed and the sweeper told to stop.
THEOREM CloseCloses == Spec => []ClosedOnReturn
<1>. QED  BY InitInv, StepInv, PTL DEF Spec, IInv

-----------------------------------------------------------------------------
(* The refinement: what the abstract cache sees of each step.              *)

\* An entry is absent when its item is, or has expired.
LEMMA Live ==
  ASSUME NEW it \in Item \cup {None}
  PROVE  /\ LiveEntry(it) = None <=> it = None \/ Lapsed(it)
         /\ LiveEntry(it) # None => LiveEntry(it) = [val |-> it.val, ttl |-> it.clock = "running"]
<1>1. CASE it = None
  BY <1>1 DEF LiveEntry
<1>2. CASE it \in Item
  <2>1. it # None
    BY <1>2, NamesAssumption DEF Item, Clocks
  <2>2. [val |-> it.val, ttl |-> it.clock = "running"] \in [val : Values, ttl : BOOLEAN]
    BY <1>2 DEF Item
  <2>. QED  BY <2>1, <2>2, NamesAssumption DEF LiveEntry, Lapsed
<1>. QED  BY <1>1, <1>2

\* The request of a call under way.
LEMMA Requested ==
  ASSUME NEW c \in Calls
  PROVE  /\ c = Idle => RequestOf(c) = [op |-> "idle"]
         /\ c.at \in {"get", "delete"} => RequestOf(c) = [op |-> c.at, key |-> c.key]
         /\ c.at = "set" =>
               RequestOf(c) = [op |-> "set", key |-> c.key, val |-> c.val, ttl |-> c.ttl]
         /\ c.at \in {"close.once"} \cup Closing => RequestOf(c) = [op |-> "close"]
  BY DEF RequestOf, Idle, Closing

\* A call that begins is accepted.
LEMMA ProceedAccepts ==
  ASSUME TypeOK, NEW p \in Procs, NEW c, Proceed(p, c)
  PROVE  Service!Accept(p, RequestOf(c))
<1>1. call' = [call EXCEPT ![p] = c] /\ call \in [Procs -> Calls]
  BY DEF Proceed, TypeOK
<1>2. [q \in Procs |-> RequestOf(call[q])]' =
         [[q \in Procs |-> RequestOf(call[q])] EXCEPT ![p] = RequestOf(c)]
  BY <1>1
<1>. QED  BY <1>2 DEF Service!Accept, Proceed, NoResult, Service!NoReply

\* A call that returns is answered.
LEMMA ReturnAnswers ==
  ASSUME TypeOK, NEW p \in Procs, NEW op, NEW err, NEW v, Return(p, op, err, v)
  PROVE  Service!Answer(p, op, err, v)
<1>1. call' = [call EXCEPT ![p] = Idle] /\ call \in [Procs -> Calls]
  BY DEF Return, TypeOK
<1>2. RequestOf(Idle) = [op |-> "idle"]
  BY DEF RequestOf, Idle
<1>3. [q \in Procs |-> RequestOf(call[q])]' =
         [[q \in Procs |-> RequestOf(call[q])] EXCEPT ![p] = [op |-> "idle"]]
  BY <1>1, <1>2
<1>. QED  BY <1>3 DEF Service!Answer, Return, Service!Idle

\* A Close that goes on shows nothing.
LEMMA ClosingStutters ==
  ASSUME IInv, NEW p \in Procs, NEW at \in Closing, call[p].at \in {"close.once"} \cup Closing,
         Proceed(p, [at |-> at])
  PROVE  /\ [q \in Procs |-> RequestOf(call[q])]' = [q \in Procs |-> RequestOf(call[q])]
         /\ res' = res
<1>1. call' = [call EXCEPT ![p] = [at |-> at]] /\ call \in [Procs -> Calls]
  BY DEF Proceed, IInv, TypeOK
<1>2. RequestOf(call[p]) = [op |-> "close"]
  BY <1>1, Requested
<1>3. RequestOf([at |-> at]) = [op |-> "close"]
  BY DEF RequestOf, Closing
<1>4. \A q \in Procs : RequestOf(call'[q]) = RequestOf(call[q])
  BY <1>1, <1>2, <1>3
<1>5. res[p] = NoResult /\ res \in [Procs -> Result]
  BY DEF IInv, TypeOK, OnceInv, Closing
<1>. QED  BY <1>4, <1>5 DEF Proceed

-----------------------------------------------------------------------------
(* Each operation implements its abstract one.                             *)

\* A call is let through or refused by the flag alone.
LEMMA BeginImplements ==
  ASSUME IInv, NEW p \in Procs, NEW c \in Calls, c.at \in {"get", "set", "delete"}, Begin(p, c)
  PROVE  Service!Next
<1>1. RequestOf(c) \in Service!Requests /\ RequestOf(c).op = c.at
  <2>1. CASE c.at \in {"get", "delete"}
    BY <2>1, CallFields, Requested DEF Service!Requests
  <2>2. CASE c.at = "set"
    BY <2>2, CallFields, Requested DEF Service!Requests
  <2>. QED  BY <2>1, <2>2
<1>2. Service!Request(p, RequestOf(c))
  <2>1. [q \in Procs |-> RequestOf(call[q])][p] = [op |-> "idle"]
    BY DEF Begin, RequestOf, Idle
  <2>2. closed => Service!Answer(p, c.at, "ErrCacheClosed", None)
    BY ReturnAnswers DEF Begin, IInv
  <2>3. ~closed => Service!Accept(p, RequestOf(c))
    BY ProceedAccepts DEF Begin, IInv
  <2>. QED  BY <1>1, <2>1, <2>2, <2>3 DEF Service!Request, Service!Idle, Begin
<1>. QED  BY <1>1, <1>2 DEF Service!Next

\* Get, Set and Delete take effect in their critical section.
LEMMA AccessImplements ==
  ASSUME IInv, NEW p \in Procs, Get(p) \/ Set(p) \/ Delete(p)
  PROVE  Service!Next
<1>. DEFINE content == [k \in Keys |-> LiveEntry(items[k])]
            pend == [q \in Procs |-> RequestOf(call[q])]
<1>0. call[p] \in Calls /\ items \in [Keys -> Item \cup {None}] /\ pend[p] = RequestOf(call[p])
  BY DEF IInv, TypeOK
<1>1. CASE Get(p)
  <2>. DEFINE it == items[call[p].key]
  <2>1. call[p].key \in Keys /\ it \in Item \cup {None}
    BY <1>0, <1>1, CallFields DEF Get
  <2>2. pend[p].op = "get" /\ content[pend[p].key] = LiveEntry(it)
    BY <1>0, <1>1, <2>1, Requested DEF Get
  <2>3. ASSUME it = None \/ Lapsed(it) PROVE Service!Get(p)
    <3>1. Return(p, "get", "ErrNotFound", None)
      BY <1>1, <2>3 DEF Get
    <3>2. LiveEntry(it) = None
      BY <2>1, <2>3, Live
    <3>. QED  BY <1>1, <2>2, <3>1, <3>2, ReturnAnswers DEF Service!Get, Get, IInv
  <2>4. ASSUME it # None, ~Lapsed(it) PROVE Service!Get(p)
    <3>1. Return(p, "get", "nil", it.val)
      BY <1>1, <2>4 DEF Get
    <3>2. LiveEntry(it) # None /\ LiveEntry(it).val = it.val
      BY <2>1, <2>4, Live
    <3>. QED  BY <1>1, <2>2, <3>1, <3>2, ReturnAnswers DEF Service!Get, Get, IInv
  <2>5. Service!Get(p)
    BY <2>3, <2>4
  <2>. QED  BY <2>5 DEF Service!Next
<1>2. CASE Set(p)
  <2>1. /\ call[p].key \in Keys /\ call[p].val \in Values /\ call[p].ttl \in BOOLEAN
        /\ pend[p] = [op |-> "set", key |-> call[p].key, val |-> call[p].val, ttl |-> call[p].ttl]
    BY <1>0, <1>2, CallFields, Requested DEF Set
  <2>2. content' = [content EXCEPT ![pend[p].key] = [val |-> pend[p].val, ttl |-> pend[p].ttl]]
    <3>1. items' = [items EXCEPT ![call[p].key] = Stored(call[p].val, call[p].ttl)]
      BY <1>2 DEF Set
    <3>2. LiveEntry(Stored(call[p].val, call[p].ttl)) = [val |-> call[p].val, ttl |-> call[p].ttl]
      BY <2>1, StoredType
    <3>3. content' = [content EXCEPT ![call[p].key] = [val |-> call[p].val, ttl |-> call[p].ttl]]
      BY <1>0, <2>1, <3>1, <3>2
    <3>. HIDE DEF content, pend
    <3>. QED  BY <2>1, <3>3
  <2>3. Service!Set(p)
    BY <1>2, <2>1, <2>2, ReturnAnswers DEF Service!Set, Set, IInv
  <2>. QED  BY <2>3 DEF Service!Next
<1>3. CASE Delete(p)
  <2>1. call[p].key \in Keys /\ pend[p] = [op |-> "delete", key |-> call[p].key]
    BY <1>0, <1>3, CallFields, Requested DEF Delete
  <2>2. content' = [content EXCEPT ![pend[p].key] = None]
    <3>1. items' = [items EXCEPT ![call[p].key] = None] /\ LiveEntry(None) = None
      BY <1>3 DEF Delete, LiveEntry
    <3>2. content' = [content EXCEPT ![call[p].key] = None]
      BY <1>0, <2>1, <3>1
    <3>. HIDE DEF content, pend
    <3>. QED  BY <2>1, <3>2
  <2>3. Service!Delete(p)
    BY <1>3, <2>1, <2>2, ReturnAnswers DEF Service!Delete, Delete, IInv
  <2>. QED  BY <2>3 DEF Service!Next
<1>. QED  BY <1>1, <1>2, <1>3

\* Close is accepted, empties the cache, and returns with it closed; taking the
\* Once, the lock and closing the channel show nothing.
LEMMA CloseImplements ==
  ASSUME IInv, NEW p \in Procs,
         \/ CloseStart(p) \/ CloseOnce(p) \/ CloseLock(p) \/ CloseStop(p) \/ CloseClear(p)
         \/ CloseMark(p)
  PROVE  [Service!Next]_Service!svars
<1>. DEFINE content == [k \in Keys |-> LiveEntry(items[k])]
            pend == [q \in Procs |-> RequestOf(call[q])]
<1>0. call[p] \in Calls /\ pend[p] = RequestOf(call[p])
  BY DEF IInv, TypeOK
<1>1. ASSUME NEW at \in Closing, call[p].at \in {"close.once"} \cup Closing,
             Proceed(p, [at |-> at]), UNCHANGED <<items, closed>>
      PROVE  UNCHANGED Service!svars
  BY <1>1, ClosingStutters DEF Service!svars
<1>2. CASE CloseStart(p)
  <2>1. RequestOf([at |-> "close.once"]) = [op |-> "close"] /\ pend[p] = [op |-> "idle"]
    BY <1>0, <1>2 DEF CloseStart, RequestOf, Idle
  <2>2. Service!Close(p)
    BY <1>2, <2>1, ProceedAccepts DEF Service!Close, Service!Idle, CloseStart, IInv
  <2>. QED  BY <2>2 DEF Service!Next
<1>3. CASE CloseOnce(p) /\ once = "new"
  BY <1>1, <1>3, NamesAssumption DEF CloseOnce, Closing
<1>4. CASE CloseOnce(p) /\ once = "done"
  <2>1. pend[p].op = "close" /\ closed
    BY <1>0, <1>4, Requested DEF CloseOnce, IInv, OnceInv
  <2>2. Service!Closed(p)
    BY <1>4, <2>1, ReturnAnswers, NamesAssumption DEF Service!Closed, CloseOnce, IInv, TypeOK
  <2>. QED  BY <2>2 DEF Service!Next
<1>5. CASE CloseLock(p)
  BY <1>1, <1>5 DEF CloseLock, Closing
<1>6. CASE CloseStop(p)
  BY <1>1, <1>6 DEF CloseStop, Closing
<1>7. CASE CloseClear(p)
  <2>1. pend[p].op = "close" /\ UNCHANGED <<pend, res>>
    BY <1>0, <1>7, Requested, ClosingStutters DEF CloseClear, Closing
  <2>2. ~closed
    BY <1>7, NamesAssumption DEF CloseClear, IInv, OnceInv, Closing
  <2>3. content' = Service!Empty
    BY <1>7 DEF CloseClear, NoItems, LiveEntry, Service!Empty
  <2>4. Service!Clear(p)
    BY <1>7, <2>1, <2>2, <2>3 DEF Service!Clear, CloseClear
  <2>. QED  BY <2>4 DEF Service!Next
<1>8. CASE CloseMark(p)
  <2>1. pend[p].op = "close"
    BY <1>0, <1>8, Requested DEF CloseMark, Closing
  <2>2. Service!Closed(p)
    BY <1>8, <2>1, ReturnAnswers DEF Service!Closed, CloseMark, IInv
  <2>. QED  BY <2>2 DEF Service!Next
<1>. QED  BY <1>2, <1>3, <1>4, <1>5, <1>6, <1>7, <1>8 DEF CloseOnce

\* The sweep removes only what has expired; an item that expires is gone at once.
LEMMA RestImplements ==
  ASSUME IInv, \/ GcTick \/ Sweep \/ GcExit \/ (\E k \in Keys : Elapse(k)) \/ UNCHANGED vars
  PROVE  [Service!Next]_Service!svars
<1>. DEFINE content == [k \in Keys |-> LiveEntry(items[k])]
<1>0. items \in [Keys -> Item \cup {None}]
  BY DEF IInv, TypeOK
<1>1. UNCHANGED <<closed, call, res>>
  BY DEF GcTick, Sweep, GcLock, GcSweep, GcUnlock, GcExit, Elapse, vars
<1>2. CASE GcTick \/ GcLock \/ GcUnlock \/ GcExit \/ UNCHANGED vars
  BY <1>1, <1>2 DEF GcTick, GcLock, GcUnlock, GcExit, vars, Service!svars
<1>3. ASSUME NEW k \in Keys, GcSweep(k) PROVE UNCHANGED Service!svars
  <2>1. \A j \in Keys : LiveEntry(items'[j]) = LiveEntry(items[j])
    <3>1. CASE Lapsed(items[k])
      <4>1. LiveEntry(items[k]) = None /\ LiveEntry(None) = None
        BY <1>0, <3>1, Live DEF LiveEntry
      <4>. QED  BY <1>0, <1>3, <3>1, <4>1 DEF GcSweep
    <3>2. CASE ~Lapsed(items[k])
      BY <1>3, <3>2 DEF GcSweep
    <3>. QED  BY <3>1, <3>2
  <2>. QED  BY <1>1, <2>1 DEF Service!svars
<1>4. ASSUME NEW k \in Keys, Elapse(k) PROVE Service!Next
  <2>1. items[k] \in Item /\ items[k] # None /\ items[k].clock = "running"
    BY <1>0, <1>4 DEF Elapse
  <2>2. content[k] # None /\ content[k].ttl
    <3>1. LiveEntry(items[k]) # None
      BY <2>1, Live DEF Lapsed
    <3>2. LiveEntry(items[k]) = [val |-> items[k].val, ttl |-> TRUE]
      BY <2>1, <3>1, Live
    <3>. QED  BY <3>1, <3>2
  <2>3. content' = [content EXCEPT ![k] = None]
    <3>1. items'[k] \in Item /\ Lapsed(items'[k])
      BY <1>0, <1>4, <2>1 DEF Elapse, Item, Clocks, Lapsed
    <3>2. LiveEntry(items'[k]) = None
      BY <3>1, Live
    <3>. QED  BY <1>0, <1>4, <3>2 DEF Elapse
  <2>4. Service!Expire(k)
    BY <1>1, <2>2, <2>3 DEF Service!Expire
  <2>. QED  BY <2>4 DEF Service!Next
<1>. QED  BY <1>2, <1>3, <1>4 DEF Sweep

\* Every step is a step of the abstract cache, or shows nothing.
LEMMA StepImplements == IInv /\ [Next]_vars => [Service!Next]_Service!svars
<1>. SUFFICES ASSUME IInv, [Next]_vars PROVE [Service!Next]_Service!svars
  OBVIOUS
<1>1. ASSUME NEW p \in Procs, Start(p) PROVE [Service!Next]_Service!svars
  <2>1. ASSUME NEW k \in Keys, NEW at \in {"get", "delete"}, Begin(p, [at |-> at, key |-> k])
        PROVE  Service!Next
    <3>1. [at |-> at, key |-> k] \in Calls
      BY DEF Calls
    <3>. QED  BY <2>1, <3>1, BeginImplements
  <2>2. ASSUME NEW k \in Keys, NEW v \in Values, NEW ttl \in BOOLEAN,
               Begin(p, [at |-> "set", key |-> k, val |-> v, ttl |-> ttl])
        PROVE  Service!Next
    <3>1. [at |-> "set", key |-> k, val |-> v, ttl |-> ttl] \in Calls
      BY DEF Calls
    <3>. QED  BY <2>2, <3>1, BeginImplements
  <2>. QED  BY <1>1, <2>1, <2>2, CloseImplements DEF Start
<1>2. ASSUME NEW p \in Procs, Continue(p) PROVE [Service!Next]_Service!svars
  BY <1>2, AccessImplements, CloseImplements DEF Continue
<1>. QED  BY <1>1, <1>2, RestImplements DEF Next

\* The cache starts as the abstract one does.
LEMMA InitImplements == Init => Service!Init
  BY DEF Init, NoItems, NoResult, LiveEntry, RequestOf, Idle, Service!Init, Service!Empty,
     Service!Idle, Service!NoReply

\* The in-memory cache is the Cache of the interface, whatever Close and the
\* sweep do meanwhile.
THEOREM CacheImplements == Spec => ImplementsCache
<1>. QED  BY InitInv, StepInv, InitImplements, StepImplements, PTL
          DEF Spec, ImplementsCache, Service!Spec
=============================================================================
