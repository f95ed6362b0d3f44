----------------------------- MODULE MemoryCache -----------------------------
(***************************************************************************)
(* The in-memory cache (cache/memory.go): a map behind an RWMutex, a       *)
(* closed flag that is read without it, a sync.Once for Close and a        *)
(* goroutine that sweeps expired items once a minute.                      *)
(*                                                                         *)
(* Get, Set and Delete look at the flag, then do their one map access in   *)
(* one critical section; Close and the sweep hold the lock over several    *)
(* steps, because the flag and the stop channel are read without it.       *)
(***************************************************************************)
EXTENDS Naturals, FiniteSets

CONSTANTS
    Keys, Values,
    Procs,      \* goroutines that call the cache
    GC,         \* the sweeping goroutine
    None

ASSUME NamesAssumption == /\ None \notin Procs \cup Values \cup {GC}
                          /\ None \notin [val : Values, clock : {"never", "running", "over"}]
                          /\ None \notin [val : Values, ttl : BOOLEAN]
                          /\ {GC, "new", "done"} \cap Procs = {}

VARIABLES
    items,      \* MemoryCache.items
    lock,       \* who holds mu for writing over several steps
    closed,     \* the atomic flag
    stop,       \* the stop channel is closed
    once,       \* sync.Once: "new", the goroutine that runs it, "done"
    gc,         \* where the sweeping goroutine stands, and what it has to look at
    call, res

vars == <<items, lock, closed, stop, once, gc, call, res>>

-----------------------------------------------------------------------------
\* An item never expires, is yet to expire, or has expired.
Clocks == {"never", "running", "over"}
Item == [val : Values, clock : Clocks]

\* Mutant of Stored: the expiration is not kept.
StoredBare(v, ttl) == [val |-> v]

\* ttl: a positive TTL was passed.
Stored(v, ttl) == [val |-> v, clock |-> IF ttl THEN "running" ELSE "never"]

\* Mutant of Lapsed: a zero expiration lies in the past, too.
LapsedOrZero(it) == it.clock # "running"

Lapsed(it) == it.clock = "over"

NoItems == [k \in Keys |-> None]
Idle == [at |-> "idle"]
NoResult == [op |-> "none", err |-> "nil", val |-> None]

Calls == {Idle}
         \cup [at : {"get", "delete"}, key : Keys]
         \cup [at : {"set"}, key : Keys, val : Values, ttl : BOOLEAN]
         \cup [at : {"close.once", "close.lock", "close.stop", "close.clear", "close.mark"}]
Result == [op : {"none", "get", "set", "delete", "close"},
           err : {"nil", "ErrNotFound", "ErrCacheClosed"}, val : Values \cup {None}]

Proceed(p, c) == /\ call' = [call EXCEPT ![p] = c]
                 /\ res' = [res EXCEPT ![p] = NoResult]
Return(p, op, err, v) ==
    /\ call' = [call EXCEPT ![p] = Idle]
    /\ res' = [res EXCEPT ![p] = [op |-> op, err |-> err, val |-> v]]

\* isClosed, which every call but Close begins with and reads without the lock.
Begin(p, c) ==
    /\ call[p] = Idle
    /\ IF closed THEN Return(p, c.at, "ErrCacheClosed", None) ELSE Proceed(p, c)
    /\ UNCHANGED <<items, lock, closed, stop, once, gc>>

-----------------------------------------------------------------------------
Get(p) ==
    /\ call[p].at = "get" /\ lock = None
    /\ LET it == items[call[p].key] IN
       \/ it = None /\ Return(p, "get", "ErrNotFound", None)
       \/ it # None /\ Lapsed(it) /\ Return(p, "get", "ErrNotFound", None)
       \/ it # None /\ ~Lapsed(it) /\ Return(p, "get", "nil", it.val)
    /\ UNCHANGED <<items, lock, closed, stop, once, gc>>

Set(p) ==
    /\ call[p].at = "set" /\ lock = None
    /\ items' = [items EXCEPT ![call[p].key] = Stored(call[p].val, call[p].ttl)]
    /\ Return(p, "set", "nil", None)
    /\ UNCHANGED <<lock, closed, stop, once, gc>>

Delete(p) ==
    /\ call[p].at = "delete" /\ lock = None
    /\ items' = [items EXCEPT ![call[p].key] = None]
    /\ Return(p, "delete", "nil", None)
    /\ UNCHANGED <<lock, closed, stop, once, gc>>

-----------------------------------------------------------------------------
CloseStart(p) ==
    /\ call[p] = Idle
    /\ Proceed(p, [at |-> "close.once"])
    /\ UNCHANGED <<items, lock, closed, stop, once, gc>>

\* Mutant of CloseOnce: a flag instead of the Once, so a second Close does not
\* wait for the first.
CloseFlag(p) ==
    /\ call[p].at = "close.once"
    /\ \/ /\ once = "new" /\ once' = p
          /\ Proceed(p, [at |-> "close.lock"])
       \/ /\ once # "new"
          /\ Return(p, "close", "nil", None)
          /\ UNCHANGED once
    /\ UNCHANGED <<items, lock, closed, stop, gc>>

\* once.Do: the first goroutine runs the function, the others wait for it.
CloseOnce(p) ==
    /\ call[p].at = "close.once"
    /\ \/ /\ once = "new" /\ once' = p
          /\ Proceed(p, [at |-> "close.lock"])
       \/ /\ once = "done"
          /\ Return(p, "close", "nil", None)
          /\ UNCHANGED once
    /\ UNCHANGED <<items, lock, closed, stop, gc>>

CloseLock(p) ==
    /\ call[p].at = "close.lock" /\ lock = None
    /\ lock' = p
    /\ Proceed(p, [at |-> "close.stop"])
    /\ UNCHANGED <<items, closed, stop, once, gc>>

\* Mutant of CloseStop: the stop channel stays open.
CloseSilently(p) ==
    /\ call[p].at = "close.stop"
    /\ Proceed(p, [at |-> "close.clear"])
    /\ UNCHANGED <<items, lock, closed, stop, once, gc>>

CloseStop(p) ==
    /\ call[p].at = "close.stop"
    /\ stop' = TRUE
    /\ Proceed(p, [at |-> "close.clear"])
    /\ UNCHANGED <<items, lock, closed, once, gc>>

CloseClear(p) ==
    /\ call[p].at = "close.clear"
    /\ items' = NoItems
    /\ Proceed(p, [at |-> "close.mark"])
    /\ UNCHANGED <<lock, closed, stop, once, gc>>

\* The flag is set and the lock released; the Once is done and Close returns.
CloseMark(p) ==
    /\ call[p].at = "close.mark"
    /\ closed' = TRUE
    /\ lock' = None
    /\ once' = "done"
    /\ Return(p, "close", "nil", None)
    /\ UNCHANGED <<items, stop, gc>>

-----------------------------------------------------------------------------
(* The sweep. The ticker may fire whenever the goroutine waits for it;     *)
(* when the stop channel is closed as well, select picks either.           *)

GcTick ==
    /\ gc.at = "select"
    /\ gc' = [at |-> "lock", todo |-> {}]
    /\ UNCHANGED <<items, lock, closed, stop, once, call, res>>

GcLock ==
    /\ gc.at = "lock" /\ lock = None
    /\ lock' = GC
    /\ gc' = [at |-> "sweep", todo |-> {k \in Keys : items[k] # None}]
    /\ UNCHANGED <<items, closed, stop, once, call, res>>

GcSweep(k) ==
    /\ gc.at = "sweep" /\ k \in gc.todo
    /\ items' = IF Lapsed(items[k]) THEN [items EXCEPT ![k] = None] ELSE items
    /\ gc' = [gc EXCEPT !.todo = @ \ {k}]
    /\ UNCHANGED <<lock, closed, stop, once, call, res>>

\* Mutant of GcUnlock: the lock is kept.
GcKeepsLock ==
    /\ gc.at = "sweep" /\ gc.todo = {}
    /\ gc' = [at |-> "select", todo |-> {}]
    /\ UNCHANGED <<items, lock, closed, stop, once, call, res>>

GcUnlock ==
    /\ gc.at = "sweep" /\ gc.todo = {}
    /\ lock' = None
    /\ gc' = [at |-> "select", todo |-> {}]
    /\ UNCHANGED <<items, closed, stop, once, call, res>>

GcExit ==
    /\ gc.at = "select" /\ stop
    /\ gc' = [at |-> "gone", todo |-> {}]
    /\ UNCHANGED <<items, lock, closed, stop, once, call, res>>

\* Time passes an item's expiration.
Elapse(k) ==
    /\ items[k] # None /\ items[k].clock = "running"
    /\ items' = [items EXCEPT ![k].clock = "over"]
    /\ UNCHANGED <<lock, closed, stop, once, gc, call, res>>

-----------------------------------------------------------------------------
Init ==
    /\ items = NoItems
    /\ lock = None
    /\ closed = FALSE /\ stop = FALSE /\ once = "new"
    /\ gc = [at |-> "select", todo |-> {}]
    /\ call = [p \in Procs |-> Idle]
    /\ res = [p \in Procs |-> NoResult]

Start(p) ==
    \/ \E k \in Keys : \/ Begin(p, [at |-> "get", key |-> k])
                       \/ Begin(p, [at |-> "delete", key |-> k])
                       \/ \E v \in Values, ttl \in BOOLEAN :
                             Begin(p, [at |-> "set", key |-> k, val |-> v, ttl |-> ttl])
    \/ CloseStart(p)

Continue(p) ==
    \/ Get(p) \/ Set(p) \/ Delete(p)
    \/ CloseOnce(p) \/ CloseLock(p) \/ CloseStop(p) \/ CloseClear(p) \/ CloseMark(p)

Sweep == GcLock \/ (\E k \in Keys : GcSweep(k)) \/ GcUnlock

Next ==
    \/ \E p \in Procs : Start(p) \/ Continue(p)
    \/ GcTick \/ Sweep \/ GcExit
    \/ \E k \in Keys : Elapse(k)

Spec == Init /\ [][Next]_vars

\* sync.RWMutex hands the lock to who has waited long, so nobody who keeps
\* asking for it is passed over forever; and a select that is offered both of
\* its cases again and again takes each of them some time.
Fairness ==
    /\ \A p \in Procs : SF_vars(Continue(p))
    /\ SF_vars(Sweep)
    /\ SF_vars(GcExit)

FairSpec == Spec /\ Fairness

-----------------------------------------------------------------------------
(* Properties.                                                             *)

\* Every variable keeps its shape.
TypeOK ==
    /\ items \in [Keys -> Item \cup {None}]
    /\ lock \in Procs \cup {GC, None}
    /\ {closed, stop} \subseteq BOOLEAN
    /\ once \in {"new", "done"} \cup Procs
    /\ gc \in [at : {"select", "lock", "sweep", "gone"}, todo : SUBSET Keys]
    /\ call \in [Procs -> Calls]
    /\ res \in [Procs -> Result]

\* Whichever Close returns, the first or one that came while the first was under
\* way, the cache is closed by then: no call begun later is let through.
ClosedOnReturn ==
    \A p \in Procs : res[p].op = "close" => closed /\ stop

\* No call waits forever, whatever the sweep and other calls do with the lock
\* and the Once.
CallsReturn == \A p \in Procs : call[p].at # "idle" ~> call[p].at = "idle"

\* Closing the cache ends its goroutine (memory.go:114, "stops the background
\* garbage collection goroutine").
SweeperEnds == closed ~> gc.at = "gone"

\* A key's live entry; an expired one counts as gone wherever it still lies.
LiveEntry(it) == IF it = None THEN None ELSE IF it.clock = "over" THEN None
                 ELSE [val |-> it.val, ttl |-> it.clock = "running"]
RequestOf(c) ==
    CASE c.at = "idle" -> [op |-> "idle"]
      [] c.at \in {"get", "delete"} -> [op |-> c.at, key |-> c.key]
      [] c.at = "set" -> [op |-> "set", key |-> c.key, val |-> c.val, ttl |-> c.ttl]
      [] OTHER -> [op |-> "close"]

Service == INSTANCE CacheService WITH
    content <- [k \in Keys |-> LiveEntry(items[k])],
    pend <- [p \in Procs |-> RequestOf(call[p])],
    reply <- res

\* Calls on the cache are linearizable, expired items are never served, items
\* without a TTL never vanish, and no call fails before the cache is closed.
ImplementsCache == Service!Spec
=============================================================================
