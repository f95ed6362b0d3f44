---------------------------- MODULE MemoryStorage ----------------------------
(***************************************************************************)
(* MemoryStorage (storage/memory.go): maps of *Preference under a RWMutex. *)
(* Each call is one critical section. What matters is who can reach which  *)
(* Preference object: callers keep the pointers they passed or got, and    *)
(* write through them later, as GetAll of the Manager does when it         *)
(* decrypts in place.                                                      *)
(*                                                                         *)
(* Objects are named by where they are made: the one Set makes for a slot, *)
(* and the one a caller makes, or is given, for a key. An object made in   *)
(* the same place replaces one nobody can reach any more. Payloads are     *)
(* scalars; a copied map or slice would still be shared.                   *)
(***************************************************************************)
CONSTANTS Users, Keys, Values, Categories, Procs, None

Slot == Users \X Keys
Own == Procs \X Keys
Ref == Slot \cup Own
Row == [val : Values, cat : Categories]

ASSUME NamesAssumption == /\ Users \cap Procs = {}
                          /\ None \notin Row \cup Ref \cup [Keys -> Ref \cup {None}]

VARIABLES
    prefs,  \* each user's map from keys to objects, None if the user has no map
    heap,   \* the objects
    held,   \* the objects each caller has a pointer to
    call, res

vars == <<prefs, heap, held, call, res>>

Requests == [op : {"get", "delete"}, slot : Slot]
            \cup [op : {"set"}, slot : Slot, row : Row]
            \cup [op : {"getall"}, user : Users]
            \cup [op : {"bycategory"}, user : Users, cat : Categories]
Idle == [op |-> "idle"]
NoRefs == [k \in Keys |-> None]
RowMap == [Keys -> Row \cup {None}]
Result == [err : {"nil", "ErrNotFound"}, rows : RowMap]

Read(refs) == [k \in Keys |-> IF refs[k] = None THEN None ELSE heap[refs[k]]]
Object(s) == IF prefs[s[1]] = None THEN None ELSE prefs[s[1]][s[2]]

Return(p, err, rows) ==
    /\ call' = [call EXCEPT ![p] = Idle]
    /\ res' = [res EXCEPT ![p] = [err |-> err, rows |-> rows]]

\* A caller that sets a preference makes an object for it.
Begin(p, r) ==
    /\ call[p] = Idle
    /\ call' = [call EXCEPT ![p] = r]
    /\ res' = [res EXCEPT ![p] = [err |-> "nil", rows |-> NoRefs]]
    /\ IF r.op = "set"
       THEN LET o == <<p, r.slot[2]>> IN
            /\ heap' = [heap EXCEPT ![o] = r.row]
            /\ held' = [held EXCEPT ![p] = [NoRefs EXCEPT ![r.slot[2]] = o]]
       ELSE UNCHANGED <<heap, held>>
    /\ UNCHANGED prefs

\* Mutant of Hand: without copies.
HandOut(p, refs) ==
    /\ held' = [held EXCEPT ![p] = refs]
    /\ UNCHANGED heap

\* The caller gets copies of the objects.
Hand(p, refs) ==
    /\ held' = [held EXCEPT ![p] = [k \in Keys |-> IF refs[k] = None THEN None ELSE <<p, k>>]]
    /\ heap' = [o \in Ref |-> IF o \in {<<p, k>> : k \in {l \in Keys : refs[l] # None}}
                              THEN heap[refs[o[2]]] ELSE heap[o]]

Get(p) ==
    /\ call[p].op = "get"
    /\ LET s == call[p].slot
           refs == [NoRefs EXCEPT ![s[2]] = Object(s)]
       IN \/ Object(s) = None /\ Return(p, "ErrNotFound", NoRefs) /\ UNCHANGED <<heap, held>>
          \/ Object(s) # None /\ Return(p, "nil", Read(refs)) /\ Hand(p, refs)
    /\ UNCHANGED prefs

\* Mutant of Keep: the caller's object itself goes into the map.
KeepPointer(s, o) ==
    /\ prefs' = [prefs EXCEPT ![s[1]] = [(IF @ = None THEN NoRefs ELSE @) EXCEPT ![s[2]] = o]]
    /\ UNCHANGED heap

\* A copy of object o goes into the map, which is made for a new user.
Keep(s, o) ==
    /\ prefs' = [prefs EXCEPT ![s[1]] = [(IF @ = None THEN NoRefs ELSE @) EXCEPT ![s[2]] = s]]
    /\ heap' = [heap EXCEPT ![s] = heap[o]]

Set(p) ==
    /\ call[p].op = "set"
    /\ Keep(call[p].slot, <<p, call[p].slot[2]>>)
    /\ Return(p, "nil", NoRefs)
    /\ UNCHANGED held

\* Mutant of Without: a user's map is never removed.
WithoutKey(map, k) == [map EXCEPT ![k] = None]

\* A user's map without a key; it goes with its last key.
Without(map, k) == IF \A l \in Keys \ {k} : map[l] = None THEN None ELSE [map EXCEPT ![k] = None]

Delete(p) ==
    /\ call[p].op = "delete"
    /\ LET s == call[p].slot IN
       \/ Object(s) = None /\ Return(p, "ErrNotFound", NoRefs) /\ UNCHANGED prefs
       \/ /\ Object(s) # None /\ Return(p, "nil", NoRefs)
          /\ prefs' = [prefs EXCEPT ![s[1]] = Without(@, s[2])]
    /\ UNCHANGED <<heap, held>>

GetAll(p) ==
    /\ call[p].op = "getall"
    /\ LET refs == [k \in Keys |-> Object(<<call[p].user, k>>)]
       IN Return(p, "nil", Read(refs)) /\ Hand(p, refs)
    /\ UNCHANGED prefs

GetByCategory(p) ==
    /\ call[p].op = "bycategory"
    /\ LET Has(o) == o # None /\ heap[o].cat = call[p].cat
           refs == [k \in Keys |-> IF Has(Object(<<call[p].user, k>>))
                                    THEN Object(<<call[p].user, k>>) ELSE None]
       IN Return(p, "nil", Read(refs)) /\ Hand(p, refs)
    /\ UNCHANGED prefs

\* A caller writes to a Preference it has.
CallerWrites(p, k, row) ==
    /\ call[p] = Idle /\ held[p][k] # None
    /\ heap' = [heap EXCEPT ![held[p][k]] = row]
    /\ UNCHANGED <<prefs, held, call, res>>

\* It does nothing: the storage goes on serving.
Close(p) ==
    /\ call[p] = Idle
    /\ Return(p, "nil", NoRefs)
    /\ UNCHANGED <<prefs, heap, held>>

Init ==
    /\ prefs = [u \in Users |-> None]
    /\ heap = [o \in Ref |-> None]
    /\ held = [p \in Procs |-> NoRefs]
    /\ call = [p \in Procs |-> Idle]
    /\ res = [p \in Procs |-> [err |-> "nil", rows |-> NoRefs]]

Next ==
    \E p \in Procs :
       \/ \E r \in Requests : Begin(p, r)
       \/ Get(p) \/ Set(p) \/ Delete(p) \/ GetAll(p) \/ GetByCategory(p) \/ Close(p)
       \/ \E k \in Keys, row \in Row : CallerWrites(p, k, row)

Spec == Init /\ [][Next]_vars

-----------------------------------------------------------------------------
(* Properties.                                                             *)

\* Every variable keeps its shape: the maps hold objects Set made, callers hold
\* objects that were made.
TypeOK ==
    /\ prefs \in [Users -> {None} \cup [Keys -> Slot \cup {None}]]
    /\ heap \in [Ref -> Row \cup {None}]
    /\ held \in [Procs -> [Keys -> Ref \cup {None}]]
    /\ \A p \in Procs, k \in Keys : held[p][k] # None => heap[held[p][k]] # None
    /\ call \in [Procs -> Requests \cup {Idle}]
    /\ res \in [Procs -> Result]

\* Nobody shares an object: what a caller can reach is reached neither by the storage
\* nor by another caller, and every slot's object is its own. It is what Get, GetAll,
\* GetByCategory and Set copy for; a single missing copy breaks it only after a call
\* of another goroutine.
Isolated ==
    /\ \A p \in Procs, k \in Keys : held[p][k] # None =>
          /\ \A s \in Slot : Object(s) # held[p][k]
          /\ \A q \in Procs \ {p}, l \in Keys : held[q][l] # held[p][k]
    /\ \A s, t \in Slot : Object(s) # None /\ s # t => Object(s) # Object(t)

\* Delete leaves no empty map behind, and takes no map that still has a key.
NoEmptyMaps == \A u \in Users : prefs[u] # None => \E k \in Keys : prefs[u][k] # None

\* The storage is linearizable, GetAll and GetByCategory see one moment, Close does
\* not end it, and only Set and Delete change what it holds: not what callers do to
\* the preferences they passed or were given.
Service == INSTANCE StorageService WITH
    Medium <- "memory",
    content <- [s \in Slot |-> IF Object(s) = None THEN None ELSE heap[Object(s)]],
    usable <- TRUE,
    pend <- call,
    reply <- res

ImplementsStorage == Service!Spec
=============================================================================
