------------------------- MODULE MemoryStorageProofs -------------------------
(***************************************************************************)
(* MemoryStorage, for any users, keys, values, categories and goroutines:  *)
(* it keeps its types, shares no object with a caller, and implements the  *)
(* Storage interface as StorageService states it.                          *)
(***************************************************************************)
EXTENDS MemoryStorage, TLAPS

\* Objects are where they were made: a slot's is the one Set made for it, a caller's
\* the one it made or was given, and they exist.
Placed ==
    /\ \A s \in Slot : Object(s) # None => Object(s) = s /\ heap[s] # None
    /\ \A p \in Procs, k \in Keys : held[p][k] # None => held[p][k] = <<p, k>>
    /\ \A p \in Procs : call[p].op = "set" => heap[<<p, call[p].slot[2]>>] = call[p].row

IInv == TypeOK /\ Placed

-----------------------------------------------------------------------------
(* Names and calls.                                                        *)

\* What callers reach is not where slots are.
LEMMA Apart ==
  /\ \A p \in Procs, k \in Keys : <<p, k>> \in Ref /\ <<p, k>> \notin Slot /\ <<p, k>> # None
  /\ \A s \in Slot : s \in Ref /\ s # None /\ s[1] \in Users /\ s[2] \in Keys /\ s = <<s[1], s[2]>>
  BY NamesAssumption DEF Slot, Own, Ref

\* Each kind of request carries its parts.
LEMMA RequestFields ==
  ASSUME NEW c \in Requests \cup {Idle}
  PROVE  /\ c.op \in {"get", "delete"} => c.slot \in Slot
         /\ c.op = "set" => c.slot \in Slot /\ c.row \in Row
         /\ c.op = "getall" => c.user \in Users
         /\ c.op = "bycategory" => c.user \in Users /\ c.cat \in Categories
  BY DEF Requests, Idle

\* A row is not None, and an object is one.
LEMMA RowIs == None \notin Row /\ \A r \in Row : r.cat \in Categories
  BY NamesAssumption DEF Row

\* The object of a slot.
LEMMA ObjectType ==
  ASSUME TypeOK, NEW s \in Slot
  PROVE  Object(s) \in Slot \cup {None}
  BY Apart DEF TypeOK, Object

\* What is read from objects are rows.
LEMMA ReadType ==
  ASSUME TypeOK, NEW refs \in [Keys -> Slot \cup {None}]
  PROVE  Read(refs) \in RowMap
  BY Apart DEF TypeOK, Read, RowMap

\* A call that returns.
LEMMA ReturnType ==
  ASSUME TypeOK, NEW p \in Procs, NEW err \in {"nil", "ErrNotFound"}, NEW rows \in RowMap,
         Return(p, err, rows)
  PROVE  /\ call' \in [Procs -> Requests \cup {Idle}] /\ res' \in [Procs -> Result]
         /\ call'[p].op = "idle" /\ \A q \in Procs \ {p} : call'[q] = call[q]
  BY DEF TypeOK, Return, Result, Idle

\* No rows are rows.
LEMMA NoRefsType == NoRefs \in RowMap /\ NoRefs \in [Keys -> Slot \cup {None}]
  BY DEF NoRefs, RowMap

\* Callers get objects of their own, and those of slots stay as they are.
LEMMA HandPlaced ==
  ASSUME IInv, NEW p \in Procs, NEW refs \in [Keys -> Slot \cup {None}],
         \A k \in Keys : refs[k] # None => \E s \in Slot : refs[k] = Object(s),
         call[p].op # "idle", call'[p].op = "idle", \A q \in Procs \ {p} : call'[q] = call[q],
         Hand(p, refs), UNCHANGED prefs
  PROVE  /\ heap' \in [Ref -> Row \cup {None}] /\ held' \in [Procs -> [Keys -> Ref \cup {None}]]
         /\ \A q \in Procs, k \in Keys : held'[q][k] # None => heap'[held'[q][k]] # None
         /\ \A s \in Slot : heap'[s] = heap[s]
         /\ Placed'
<1>. DEFINE mine == {<<p, k>> : k \in {l \in Keys : refs[l] # None}}
<1>1. /\ heap' = [o \in Ref |-> IF o \in mine THEN heap[refs[o[2]]] ELSE heap[o]]
      /\ held' = [held EXCEPT ![p] = [k \in Keys |-> IF refs[k] = None THEN None ELSE <<p, k>>]]
  BY DEF Hand
<1>2. \A k \in Keys : refs[k] # None => refs[k] \in Slot /\ heap[refs[k]] # None /\ heap[refs[k]] \in Row
  BY Apart DEF IInv, TypeOK, Placed
<1>3. \A o \in mine : o[2] \in Keys /\ refs[o[2]] # None /\ o \in Ref /\ o \notin Slot
  BY Apart
<1>4. heap' \in [Ref -> Row \cup {None}]
  BY <1>1, <1>2, <1>3 DEF IInv, TypeOK
<1>5. held' \in [Procs -> [Keys -> Ref \cup {None}]]
  BY <1>1, Apart DEF IInv, TypeOK
<1>6. \A s \in Slot : heap'[s] = heap[s]
  BY <1>1, <1>3, Apart
<1>7. \A k \in Keys : /\ refs[k] # None => held'[p][k] = <<p, k>> /\ heap'[<<p, k>>] # None
                      /\ refs[k] = None => held'[p][k] = None
  <2>. TAKE k \in Keys
  <2>1. held'[p][k] = IF refs[k] = None THEN None ELSE <<p, k>>
    BY <1>1 DEF IInv, TypeOK
  <2>2. ASSUME refs[k] # None PROVE heap'[<<p, k>>] = heap[refs[k]]
    BY <1>1, <2>2, Apart
  <2>. QED  BY <1>2, <2>1, <2>2
<1>8. \A q \in Procs \ {p} : /\ held'[q] = held[q]
                             /\ \A k \in Keys : heap'[<<q, k>>] = heap[<<q, k>>]
  <2>. TAKE q \in Procs \ {p}
  <2>1. held'[q] = held[q]
    BY <1>1 DEF IInv, TypeOK
  <2>2. \A k \in Keys : <<q, k>> \notin mine /\ <<q, k>> \in Ref
    BY Apart
  <2>. QED  BY <1>1, <2>1, <2>2
<1>9. \A q \in Procs, k \in Keys : held'[q][k] # None =>
         held'[q][k] = <<q, k>> /\ heap'[held'[q][k]] # None
  <2>. TAKE q \in Procs, k \in Keys
  <2>1. CASE q = p
    BY <1>7, <2>1
  <2>2. CASE q # p /\ held[q][k] # None
    <3>1. held[q][k] = <<q, k>> /\ heap[<<q, k>>] # None
      BY <2>2 DEF IInv, TypeOK, Placed
    <3>2. held'[q][k] = <<q, k>> /\ heap'[<<q, k>>] # None
      BY <1>8, <2>2, <3>1
    <3>. QED  BY <3>2
  <2>3. CASE q # p /\ held[q][k] = None
    BY <1>8, <2>3
  <2>. QED  BY <2>1, <2>2, <2>3
<1>10. \A s \in Slot : Object(s)' # None => Object(s)' = s /\ heap'[s] # None
  BY <1>6 DEF IInv, Placed, Object
<1>11. \A q \in Procs : call'[q].op = "set" => heap'[<<q, call'[q].slot[2]>>] = call'[q].row
  <2>. TAKE q \in Procs
  <2>1. ASSUME q # p, call[q].op = "set" PROVE heap'[<<q, call[q].slot[2]>>] = call[q].row
    <3>1. call[q].slot[2] \in Keys
      BY <2>1, RequestFields, Apart DEF IInv, TypeOK
    <3>. QED  BY <1>8, <2>1, <3>1 DEF IInv, Placed
  <2>. QED  BY <2>1
<1>. QED  BY <1>4, <1>5, <1>6, <1>9, <1>10, <1>11 DEF Placed

-----------------------------------------------------------------------------
(* The inductive invariant, by operation.                                  *)

\* A caller makes an object for what it sets.
LEMMA BeginInv ==
  ASSUME IInv, NEW p \in Procs, NEW r \in Requests, Begin(p, r)
  PROVE  IInv' /\ \A s \in Slot : heap'[s] = heap[s]
<1>1. /\ call' = [call EXCEPT ![p] = r] /\ call' \in [Procs -> Requests \cup {Idle}]
      /\ res' \in [Procs -> Result] /\ UNCHANGED prefs
  BY NoRefsType DEF Begin, IInv, TypeOK, Result
<1>2. CASE r.op # "set"
  <2>1. UNCHANGED <<heap, held>>
    BY <1>2 DEF Begin
  <2>2. Placed'
    BY <1>1, <1>2, <2>1 DEF IInv, TypeOK, Placed, Object
  <2>. QED  BY <1>1, <2>1, <2>2 DEF IInv, TypeOK
<1>3. CASE r.op = "set"
  <2>. DEFINE k == r.slot[2]
              o == <<p, k>>
  <2>1. k \in Keys /\ r.row \in Row /\ o \in Ref /\ o \notin Slot /\ o # None /\ r.row # None
    BY <1>3, RequestFields, Apart, RowIs
  <2>2. heap' = [heap EXCEPT ![o] = r.row] /\ held' = [held EXCEPT ![p] = [NoRefs EXCEPT ![k] = o]]
    BY <1>3 DEF Begin
  <2>. HIDE DEF k, o
  <2>3. heap' \in [Ref -> Row \cup {None}] /\ \A s \in Slot : heap'[s] = heap[s]
    BY <2>1, <2>2, Apart DEF IInv, TypeOK
  <2>4. [NoRefs EXCEPT ![k] = o] \in [Keys -> Ref \cup {None}]
    BY <2>1 DEF NoRefs
  <2>5. held' \in [Procs -> [Keys -> Ref \cup {None}]]
    BY <2>2, <2>4 DEF IInv, TypeOK
  <2>6. \A q \in Procs, l \in Keys : held'[q][l] # None =>
           held'[q][l] = <<q, l>> /\ heap'[<<q, l>>] # None
    <3>. TAKE q \in Procs, l \in Keys
    <3>1. CASE q = p
      <4>1. held'[q] = [NoRefs EXCEPT ![k] = o]
        BY <2>2, <3>1 DEF IInv, TypeOK
      <4>2. held'[q][l] # None => l = k /\ held'[q][l] = o
        BY <2>1, <4>1 DEF NoRefs
      <4>3. heap'[o] # None
        BY <2>1, <2>2 DEF IInv, TypeOK
      <4>. QED  BY <3>1, <4>2, <4>3 DEF o
    <3>2. CASE q # p /\ held[q][l] # None
      <4>1. held[q][l] = <<q, l>> /\ heap[<<q, l>>] # None /\ held'[q] = held[q]
        BY <2>2, <3>2 DEF IInv, TypeOK, Placed
      <4>2. heap'[<<q, l>>] = heap[<<q, l>>]
        BY <2>1, <2>2, <3>2, Apart DEF IInv, TypeOK, o
      <4>. QED  BY <4>1, <4>2
    <3>3. CASE q # p /\ held[q][l] = None
      BY <2>2, <3>3 DEF IInv, TypeOK
    <3>. QED  BY <3>1, <3>2, <3>3
  <2>7. \A s \in Slot : Object(s)' # None => Object(s)' = s /\ heap'[s] # None
    BY <1>1, <2>3 DEF IInv, Placed, Object
  <2>8. \A q \in Procs : call'[q].op = "set" => heap'[<<q, call'[q].slot[2]>>] = call'[q].row
    <3>. TAKE q \in Procs
    <3>1. CASE q = p
      <4>1. call'[q] = r /\ heap'[o] = r.row
        BY <1>1, <2>1, <2>2, <3>1 DEF IInv, TypeOK
      <4>. QED  BY <3>1, <4>1 DEF o, k
    <3>2. CASE q # p /\ call[q].op = "set"
      <4>1. call'[q] = call[q] /\ call[q].slot[2] \in Keys
        BY <1>1, <3>2, RequestFields, Apart DEF IInv, TypeOK
      <4>2. heap'[<<q, call[q].slot[2]>>] = heap[<<q, call[q].slot[2]>>]
        BY <2>1, <2>2, <3>2, <4>1, Apart DEF IInv, TypeOK, o
      <4>. QED  BY <3>2, <4>1, <4>2 DEF IInv, Placed
    <3>3. CASE q # p /\ call[q].op # "set"
      BY <1>1, <3>3 DEF IInv, TypeOK
    <3>. QED  BY <3>1, <3>2, <3>3
  <2>9. TypeOK' /\ Placed'
    <3>1. \A q \in Procs, l \in Keys : held'[q][l] # None => heap'[held'[q][l]] # None
      BY <2>6
    <3>2. Placed'
      BY <2>6, <2>7, <2>8 DEF Placed
    <3>. QED  BY <1>1, <2>3, <2>5, <3>1, <3>2 DEF IInv, TypeOK
  <2>. QED  BY <2>3, <2>9 DEF IInv
<1>. QED  BY <1>2, <1>3

\* A read hands out copies and leaves the slots alone.
LEMMA ReadInv ==
  ASSUME IInv, NEW p \in Procs, Get(p) \/ GetAll(p) \/ GetByCategory(p)
  PROVE  IInv' /\ \A s \in Slot : heap'[s] = heap[s]
<1>0. call[p] \in Requests \cup {Idle} /\ UNCHANGED prefs /\ call[p].op # "idle"
  BY DEF IInv, TypeOK, Get, GetAll, GetByCategory
<1>1. ASSUME NEW refs \in [Keys -> Slot \cup {None}],
             \A k \in Keys : refs[k] # None => \E s \in Slot : refs[k] = Object(s),
             Return(p, "nil", Read(refs)), Hand(p, refs)
      PROVE  IInv' /\ \A s \in Slot : heap'[s] = heap[s]
  <2>1. Read(refs) \in RowMap
    BY ReadType DEF IInv
  <2>2. /\ call' \in [Procs -> Requests \cup {Idle}] /\ res' \in [Procs -> Result]
        /\ call'[p].op = "idle" /\ \A q \in Procs \ {p} : call'[q] = call[q]
    BY <1>1, <2>1, ReturnType DEF IInv
  <2>3. /\ heap' \in [Ref -> Row \cup {None}] /\ held' \in [Procs -> [Keys -> Ref \cup {None}]]
        /\ \A q \in Procs, k \in Keys : held'[q][k] # None => heap'[held'[q][k]] # None
        /\ \A s \in Slot : heap'[s] = heap[s]
        /\ Placed'
    BY <1>0, <1>1, <2>2, HandPlaced
  <2>. QED  BY <1>0, <2>2, <2>3 DEF IInv, TypeOK
<1>2. CASE Get(p)
  <2>. DEFINE s == call[p].slot
              refs == [NoRefs EXCEPT ![s[2]] = Object(s)]
  <2>1. s \in Slot /\ Object(s) \in Slot \cup {None}
    BY <1>0, <1>2, RequestFields, ObjectType DEF Get, IInv
  <2>2. CASE Object(s) = None
    <3>1. /\ call' \in [Procs -> Requests \cup {Idle}] /\ res' \in [Procs -> Result]
          /\ call'[p].op = "idle" /\ \A q \in Procs \ {p} : call'[q] = call[q]
      BY <1>2, <2>2, NoRefsType, ReturnType DEF Get, IInv
    <3>2. UNCHANGED <<prefs, heap, held>>
      BY <1>2, <2>2 DEF Get
    <3>. QED  BY <3>1, <3>2 DEF IInv, TypeOK, Placed, Object
  <2>3. CASE Object(s) # None
    <3>1. /\ refs \in [Keys -> Slot \cup {None}]
          /\ \A k \in Keys : refs[k] # None => refs[k] = Object(s)
      BY <2>1, Apart DEF NoRefs
    <3>2. Return(p, "nil", Read(refs)) /\ Hand(p, refs)
      BY <1>2, <2>3 DEF Get
    <3>. HIDE DEF refs
    <3>. QED  BY <1>1, <2>1, <3>1, <3>2
  <2>. QED  BY <2>2, <2>3
<1>3. CASE GetAll(p)
  <2>. DEFINE refs == [k \in Keys |-> Object(<<call[p].user, k>>)]
  <2>1. call[p].user \in Users
    BY <1>0, <1>3, RequestFields DEF GetAll
  <2>2. /\ refs \in [Keys -> Slot \cup {None}]
        /\ \A k \in Keys : refs[k] # None => \E s \in Slot : refs[k] = Object(s)
    <3>1. \A k \in Keys : <<call[p].user, k>> \in Slot
      BY <2>1 DEF Slot
    <3>. QED  BY <3>1, ObjectType DEF IInv
  <2>3. Return(p, "nil", Read(refs)) /\ Hand(p, refs)
    BY <1>3 DEF GetAll
  <2>. HIDE DEF refs
  <2>. QED  BY <1>1, <2>2, <2>3
<1>4. CASE GetByCategory(p)
  <2>. DEFINE Has(o) == o # None /\ heap[o].cat = call[p].cat
             refs == [k \in Keys |-> IF Has(Object(<<call[p].user, k>>))
                                      THEN Object(<<call[p].user, k>>) ELSE None]
  <2>1. call[p].user \in Users
    BY <1>0, <1>4, RequestFields DEF GetByCategory
  <2>2. /\ refs \in [Keys -> Slot \cup {None}]
        /\ \A k \in Keys : refs[k] # None => \E s \in Slot : refs[k] = Object(s)
    <3>1. \A k \in Keys : <<call[p].user, k>> \in Slot
      BY <2>1 DEF Slot
    <3>. QED  BY <3>1, ObjectType DEF IInv
  <2>3. Return(p, "nil", Read(refs)) /\ Hand(p, refs)
    BY <1>4 DEF GetByCategory
  <2>. HIDE DEF refs
  <2>. QED  BY <1>1, <2>2, <2>3
<1>. QED  BY <1>2, <1>3, <1>4

\* A user's map with an object in a slot.
LEMMA KeepObject ==
  ASSUME IInv, NEW s \in Slot, NEW o \in Ref, Keep(s, o)
  PROVE  /\ prefs' \in [Users -> {None} \cup [Keys -> Slot \cup {None}]]
         /\ Object(s)' = s
         /\ \A t \in Slot \ {s} : Object(t)' = Object(t)
<1>. DEFINE map == IF prefs[s[1]] = None THEN NoRefs ELSE prefs[s[1]]
            new == [map EXCEPT ![s[2]] = s]
<1>1. s[1] \in Users /\ s[2] \in Keys /\ prefs' = [prefs EXCEPT ![s[1]] = new]
  BY Apart DEF Keep
<1>2. map \in [Keys -> Slot \cup {None}]
  BY <1>1, NoRefsType DEF IInv, TypeOK
<1>3. new \in [Keys -> Slot \cup {None}] /\ new[s[2]] = s
      /\ \A k \in Keys \ {s[2]} : new[k] = map[k]
  BY <1>1, <1>2
<1>4. new # None
  <2>1. new \in [Keys -> Ref \cup {None}]
    BY <1>3, Apart
  <2>. QED  BY <2>1, NamesAssumption
<1>. HIDE DEF new
<1>5. prefs' \in [Users -> {None} \cup [Keys -> Slot \cup {None}]] /\ prefs'[s[1]] = new
      /\ \A u \in Users \ {s[1]} : prefs'[u] = prefs[u]
  BY <1>1, <1>3 DEF IInv, TypeOK
<1>6. Object(s)' = s
  BY <1>3, <1>4, <1>5 DEF Object
<1>7. ASSUME NEW t \in Slot \ {s} PROVE Object(t)' = Object(t)
  <2>1. t[1] \in Users /\ t[2] \in Keys /\ (t[1] # s[1] \/ t[2] # s[2])
    BY Apart
  <2>2. CASE t[1] # s[1]
    BY <1>5, <2>1, <2>2 DEF Object
  <2>3. CASE t[1] = s[1] /\ t[2] # s[2]
    <3>1. Object(t)' = map[t[2]]
      BY <1>3, <1>4, <1>5, <2>1, <2>3 DEF Object
    <3>2. map[t[2]] = Object(t)
      BY <2>1, <2>3 DEF Object, NoRefs
    <3>. QED  BY <3>1, <3>2
  <2>. QED  BY <2>1, <2>2, <2>3
<1>. QED  BY <1>5, <1>6, <1>7

\* Set keeps a copy.
LEMMA SetInv ==
  ASSUME IInv, NEW p \in Procs, NEW s \in Slot, s = call[p].slot, Set(p)
  PROVE  /\ IInv' /\ call[p].row \in Row
         /\ Object(s)' = s /\ heap'[s] = call[p].row
         /\ \A t \in Slot \ {s} : Object(t)' = Object(t) /\ heap'[t] = heap[t]
<1>. DEFINE o == <<p, s[2]>>
<1>1. call[p].row \in Row
  BY RequestFields DEF Set, IInv, TypeOK
<1>2. o \in Ref /\ s \in Ref /\ o # s /\ heap[o] = call[p].row /\ Keep(s, o)
  BY Apart DEF Set, IInv, Placed
<1>. HIDE DEF o
<1>3. /\ prefs' \in [Users -> {None} \cup [Keys -> Slot \cup {None}]]
      /\ Object(s)' = s
      /\ \A t \in Slot \ {s} : Object(t)' = Object(t)
  BY <1>1, <1>2, KeepObject
<1>4. heap' = [heap EXCEPT ![s] = call[p].row]
  BY <1>2 DEF Keep
<1>5. /\ call' \in [Procs -> Requests \cup {Idle}] /\ res' \in [Procs -> Result]
      /\ call'[p].op = "idle" /\ \A q \in Procs \ {p} : call'[q] = call[q]
      /\ UNCHANGED held
  BY NoRefsType, ReturnType DEF Set, IInv
<1>6. /\ heap' \in [Ref -> Row \cup {None}] /\ heap'[s] = call[p].row /\ call[p].row # None
      /\ \A t \in Ref \ {s} : heap'[t] = heap[t]
  BY <1>1, <1>2, <1>4, RowIs DEF IInv, TypeOK
<1>7. \A q \in Procs, k \in Keys : heap'[<<q, k>>] = heap[<<q, k>>]
  BY <1>1, <1>6, Apart
<1>8. \A q \in Procs, k \in Keys : held'[q][k] # None => heap'[held'[q][k]] # None
  <2>. TAKE q \in Procs, k \in Keys
  <2>1. held[q][k] # None => held[q][k] = <<q, k>> /\ heap[<<q, k>>] # None
    BY DEF IInv, TypeOK, Placed
  <2>. QED  BY <1>5, <1>7, <2>1
<1>9. \A t \in Slot : Object(t)' # None => Object(t)' = t /\ heap'[t] # None
  <2>. TAKE t \in Slot
  <2>1. CASE t = s
    BY <1>3, <1>6, <2>1
  <2>2. CASE t # s
    <3>1. Object(t)' = Object(t) /\ heap'[t] = heap[t]
      BY <1>3, <1>6, <2>2, Apart
    <3>. QED  BY <3>1 DEF IInv, Placed
  <2>. QED  BY <2>1, <2>2
<1>10. \A q \in Procs : call'[q].op = "set" => heap'[<<q, call'[q].slot[2]>>] = call'[q].row
  <2>. TAKE q \in Procs
  <2>1. ASSUME q # p, call[q].op = "set" PROVE heap'[<<q, call[q].slot[2]>>] = call[q].row
    <3>1. call[q].slot[2] \in Keys
      BY <2>1, RequestFields, Apart DEF IInv, TypeOK
    <3>. QED  BY <1>7, <2>1, <3>1 DEF IInv, Placed
  <2>. QED  BY <1>5, <2>1
<1>11. IInv'
  <2>1. Placed'
    BY <1>5, <1>9, <1>10 DEF IInv, Placed
  <2>. QED  BY <1>3, <1>5, <1>6, <1>8, <2>1 DEF IInv, TypeOK
<1>12. \A t \in Slot \ {s} : heap'[t] = heap[t]
  BY <1>6, Apart
<1>. QED  BY <1>1, <1>3, <1>6, <1>11, <1>12

\* Delete takes a key out of a user's map, and the map with the last key.
LEMMA DeleteInv ==
  ASSUME IInv, NEW p \in Procs, NEW s \in Slot, s = call[p].slot, Delete(p)
  PROVE  /\ IInv' /\ Object(s)' = None /\ UNCHANGED heap
         /\ \A t \in Slot \ {s} : Object(t)' = Object(t)
<1>0. s[1] \in Users /\ s[2] \in Keys
  BY Apart
<1>1. /\ call' \in [Procs -> Requests \cup {Idle}] /\ res' \in [Procs -> Result]
      /\ call'[p].op = "idle" /\ \A q \in Procs \ {p} : call'[q] = call[q]
      /\ UNCHANGED <<heap, held>>
  BY NoRefsType, ReturnType DEF Delete, IInv
<1>2. /\ prefs' \in [Users -> {None} \cup [Keys -> Slot \cup {None}]]
      /\ Object(s)' = None /\ \A t \in Slot \ {s} : Object(t)' = Object(t)
  <2>1. CASE Object(s) = None
    <3>1. UNCHANGED prefs
      BY <2>1 DEF Delete
    <3>. QED  BY <2>1, <3>1 DEF IInv, TypeOK, Object
  <2>2. CASE Object(s) # None
    <3>. DEFINE map == prefs[s[1]]
                new == Without(map, s[2])
    <3>1. prefs' = [prefs EXCEPT ![s[1]] = new]
      BY <2>2 DEF Delete
    <3>2. map # None /\ map \in [Keys -> Slot \cup {None}]
      BY <1>0, <2>2 DEF Object, IInv, TypeOK
    <3>3. new # None => /\ new \in [Keys -> Slot \cup {None}] /\ new[s[2]] = None
                        /\ \A k \in Keys \ {s[2]} : new[k] = map[k]
      BY <1>0, <3>2 DEF Without
    <3>4. new = None => \A k \in Keys \ {s[2]} : map[k] = None
      <4>1. [map EXCEPT ![s[2]] = None] \in [Keys -> Ref \cup {None}]
        BY <1>0, <3>2, Apart
      <4>2. [map EXCEPT ![s[2]] = None] # None
        BY <4>1, NamesAssumption
      <4>. QED  BY <4>2 DEF Without
    <3>. HIDE DEF new
    <3>5. /\ prefs' \in [Users -> {None} \cup [Keys -> Slot \cup {None}]] /\ prefs'[s[1]] = new
          /\ \A u \in Users \ {s[1]} : prefs'[u] = prefs[u]
      BY <1>0, <3>1, <3>3 DEF IInv, TypeOK
    <3>6. Object(s)' = None
      BY <3>3, <3>5 DEF Object
    <3>7. ASSUME NEW t \in Slot \ {s} PROVE Object(t)' = Object(t)
      <4>1. t[1] \in Users /\ t[2] \in Keys /\ (t[1] # s[1] \/ t[2] # s[2])
        BY Apart
      <4>. QED  BY <3>2, <3>3, <3>4, <3>5, <4>1 DEF Object
    <3>. QED  BY <3>5, <3>6, <3>7
  <2>. QED  BY <2>1, <2>2
<1>3. Placed'
  <2>1. \A t \in Slot : Object(t)' # None => Object(t)' = t /\ heap'[t] # None
    BY <1>1, <1>2 DEF IInv, Placed
  <2>. QED  BY <1>1, <2>1 DEF IInv, Placed
<1>. QED  BY <1>1, <1>2, <1>3 DEF IInv, TypeOK

\* What a caller writes to is not a slot's.
LEMMA CallerWritesInv ==
  ASSUME IInv, NEW p \in Procs, NEW k \in Keys, NEW row \in Row, CallerWrites(p, k, row)
  PROVE  IInv' /\ \A s \in Slot : heap'[s] = heap[s]
<1>1. held[p][k] = <<p, k>> /\ <<p, k>> \in Ref /\ row # None
  BY Apart, RowIs DEF CallerWrites, IInv, Placed
<1>2. heap' = [heap EXCEPT ![<<p, k>>] = row] /\ UNCHANGED <<prefs, held, call, res>>
  BY <1>1 DEF CallerWrites
<1>3. /\ heap' \in [Ref -> Row \cup {None}] /\ heap'[<<p, k>>] = row
      /\ \A o \in Ref \ {<<p, k>>} : heap'[o] = heap[o]
  BY <1>1, <1>2 DEF IInv, TypeOK
<1>4. \A s \in Slot : heap'[s] = heap[s]
  BY <1>3, Apart
<1>5. \A q \in Procs, l \in Keys : held'[q][l] # None => heap'[held'[q][l]] # None
  <2>. TAKE q \in Procs, l \in Keys
  <2>1. held[q][l] # None => held[q][l] = <<q, l>> /\ heap[<<q, l>>] # None
    BY DEF IInv, TypeOK, Placed
  <2>. QED  BY <1>1, <1>2, <1>3, <2>1, Apart
<1>6. \A q \in Procs : call'[q].op = "set" => heap'[<<q, call'[q].slot[2]>>] = call'[q].row
  <2>. TAKE q \in Procs
  <2>1. ASSUME call[q].op = "set" PROVE heap'[<<q, call[q].slot[2]>>] = call[q].row
    <3>1. q # p /\ <<q, call[q].slot[2]>> \in Ref
      BY <2>1, RequestFields, Apart DEF CallerWrites, Idle, IInv, TypeOK
    <3>2. <<q, call[q].slot[2]>> # <<p, k>>
      BY <3>1
    <3>. QED  BY <1>3, <2>1, <3>1, <3>2 DEF IInv, Placed
  <2>. QED  BY <1>2, <2>1
<1>7. Placed'
  <2>1. \A t \in Slot : Object(t)' # None => Object(t)' = t /\ heap'[t] # None
    BY <1>2, <1>4 DEF IInv, Placed, Object
  <2>. QED  BY <1>2, <1>6, <2>1 DEF IInv, Placed
<1>. QED  BY <1>2, <1>3, <1>4, <1>5, <1>7 DEF IInv, TypeOK

LEMMA CloseInv ==
  ASSUME IInv, NEW p \in Procs, Close(p)
  PROVE  IInv'
<1>1. /\ call' \in [Procs -> Requests \cup {Idle}] /\ res' \in [Procs -> Result]
      /\ call'[p].op = "idle" /\ \A q \in Procs \ {p} : call'[q] = call[q]
      /\ UNCHANGED <<prefs, heap, held>>
  BY NoRefsType, ReturnType DEF Close, IInv
<1>. QED  BY <1>1 DEF IInv, TypeOK, Placed, Object

LEMMA InitInv == Init => IInv
<1>. SUFFICES ASSUME Init PROVE IInv
  OBVIOUS
<1>1. NoRefs \in [Keys -> Ref \cup {None}] /\ \A k \in Keys : NoRefs[k] = None
  BY DEF NoRefs
<1>2. TypeOK
  BY <1>1, NoRefsType DEF Init, TypeOK, Result
<1>3. Placed
  BY <1>1, Apart DEF Init, Placed, Object, Idle
<1>. QED  BY <1>2, <1>3 DEF IInv

LEMMA StepInv == IInv /\ [Next]_vars => IInv'
<1>. SUFFICES ASSUME IInv, [Next]_vars PROVE IInv'
  OBVIOUS
<1>1. ASSUME NEW p \in Procs, NEW r \in Requests, Begin(p, r) PROVE IInv'
  BY <1>1, BeginInv
<1>2. ASSUME NEW p \in Procs, Get(p) \/ GetAll(p) \/ GetByCategory(p) PROVE IInv'
  BY <1>2, ReadInv
<1>3. ASSUME NEW p \in Procs, Set(p) \/ Delete(p) PROVE IInv'
  <2>1. call[p].slot \in Slot
    BY <1>3, RequestFields DEF Set, Delete, IInv, TypeOK
  <2>. QED  BY <1>3, <2>1, SetInv, DeleteInv
<1>4. ASSUME NEW p \in Procs, Close(p) PROVE IInv'
  BY <1>4, CloseInv
<1>5. ASSUME NEW p \in Procs, NEW k \in Keys, NEW row \in Row, CallerWrites(p, k, row)
      PROVE  IInv'
  BY <1>5, CallerWritesInv
<1>6. CASE UNCHANGED vars
  BY <1>6 DEF vars, IInv, TypeOK, Placed, Object
<1>. QED  BY <1>1, <1>2, <1>3, <1>4, <1>5, <1>6 DEF Next

\* MemoryStorage keeps its types: in particular no caller has a pointer to an object that
\* does not exist.
THEOREM StorageTypeCorrect == Spec => []TypeOK
<1>1. IInv => TypeOK
  BY DEF IInv
<1>. QED  BY <1>1, InitInv, StepInv, PTL DEF Spec

\* No object is shared between the storage and a caller, or between two callers, whatever
\* they do with the preferences they have.
THEOREM NothingShared == Spec => []Isolated
<1>1. IInv => Isolated
  BY Apart DEF IInv, Placed, Isolated
<1>. QED  BY <1>1, InitInv, StepInv, PTL DEF Spec

-----------------------------------------------------------------------------
(* Maps of users.                                                          *)

\* Keep leaves a key in the map it writes to, and the other maps alone.
LEMMA KeepMaps ==
  ASSUME IInv, NEW s \in Slot, NEW o \in Ref, Keep(s, o), NoEmptyMaps
  PROVE  NoEmptyMaps'
<1>. DEFINE map == IF prefs[s[1]] = None THEN NoRefs ELSE prefs[s[1]]
            new == [map EXCEPT ![s[2]] = s]
<1>1. s[1] \in Users /\ s[2] \in Keys /\ s # None /\ prefs' = [prefs EXCEPT ![s[1]] = new]
  BY Apart DEF Keep
<1>2. map \in [Keys -> Slot \cup {None}]
  BY <1>1, NoRefsType DEF IInv, TypeOK
<1>3. new[s[2]] = s
  BY <1>1, <1>2
<1>. HIDE DEF new
<1>4. prefs'[s[1]] = new /\ \A u \in Users \ {s[1]} : prefs'[u] = prefs[u]
  BY <1>1 DEF IInv, TypeOK
<1>. QED  BY <1>1, <1>3, <1>4 DEF NoEmptyMaps

\* Without keeps the map when, and only when, another key is in it.
LEMMA WithoutMaps ==
  ASSUME NEW map \in [Keys -> Slot \cup {None}], NEW k \in Keys, Without(map, k) # None
  PROVE  \E l \in Keys : Without(map, k)[l] # None
<1>1. PICK l \in Keys \ {k} : map[l] # None
  BY DEF Without
<1>2. Without(map, k) = [map EXCEPT ![k] = None]
  BY <1>1 DEF Without
<1>3. Without(map, k)[l] = map[l]
  BY <1>1, <1>2
<1>. QED  BY <1>1, <1>3

LEMMA DeleteMaps ==
  ASSUME IInv, NEW p \in Procs, Delete(p), NoEmptyMaps
  PROVE  NoEmptyMaps'
<1>. DEFINE s == call[p].slot
            new == Without(prefs[s[1]], s[2])
<1>1. s \in Slot /\ s[1] \in Users /\ s[2] \in Keys
  BY RequestFields, Apart DEF Delete, IInv, TypeOK
<1>2. CASE Object(s) = None
  BY <1>2 DEF Delete, NoEmptyMaps
<1>3. CASE Object(s) # None
  <2>1. prefs' = [prefs EXCEPT ![s[1]] = new]
    BY <1>3 DEF Delete
  <2>2. prefs[s[1]] \in [Keys -> Slot \cup {None}]
    BY <1>1, <1>3 DEF Object, IInv, TypeOK
  <2>3. new # None => \E l \in Keys : new[l] # None
    BY <1>1, <2>2, WithoutMaps
  <2>. HIDE DEF new
  <2>4. prefs'[s[1]] = new /\ \A u \in Users \ {s[1]} : prefs'[u] = prefs[u]
    BY <1>1, <2>1 DEF IInv, TypeOK
  <2>. QED  BY <2>3, <2>4 DEF NoEmptyMaps
<1>. QED  BY <1>2, <1>3

\* A user has a map exactly as long as it holds a key: Delete leaves no empty one behind.
THEOREM MapsHoldKeys == Spec => []NoEmptyMaps
<1>1. Init => NoEmptyMaps
  BY DEF Init, NoEmptyMaps
<1>2. ASSUME IInv, NoEmptyMaps, [Next]_vars PROVE NoEmptyMaps'
  <2>1. ASSUME UNCHANGED prefs PROVE NoEmptyMaps'
    BY <1>2, <2>1 DEF NoEmptyMaps
  <2>2. ASSUME NEW p \in Procs, Set(p) PROVE NoEmptyMaps'
    <3>1. call[p].slot \in Slot
      BY <1>2, <2>2, RequestFields DEF Set, IInv, TypeOK
    <3>2. <<p, call[p].slot[2]>> \in Ref /\ Keep(call[p].slot, <<p, call[p].slot[2]>>)
      BY <2>2, <3>1, Apart DEF Set
    <3>. QED  BY <1>2, <3>1, <3>2, KeepMaps
  <2>3. ASSUME NEW p \in Procs, Delete(p) PROVE NoEmptyMaps'
    BY <1>2, <2>3, DeleteMaps
  <2>. QED  BY <1>2, <2>1, <2>2, <2>3
            DEF Next, vars, Begin, Get, GetAll, GetByCategory, Close, CallerWrites
<1>. QED  BY <1>1, <1>2, InitInv, StepInv, PTL DEF Spec

-----------------------------------------------------------------------------
(* MemoryStorage implements StorageService.                                *)

\* What a slot holds, to the abstract storage.
Content(s) == IF Object(s) = None THEN None ELSE heap[Object(s)]

\* A slot's content, when its object is where it was made.
LEMMA ContentIs ==
  ASSUME IInv, NEW s \in Slot
  PROVE  /\ Content(s) \in Row \cup {None}
         /\ Content(s) # None => Content(s) = heap[s] /\ Object(s) = s
         /\ Content(s) = None <=> Object(s) = None
  BY ObjectType, Apart, RowIs DEF IInv, TypeOK, Placed, Content

\* A step that leaves the slots' objects alone leaves the content alone.
LEMMA ContentStays ==
  ASSUME IInv, UNCHANGED prefs, \A s \in Slot : heap'[s] = heap[s]
  PROVE  [s \in Slot |-> Content(s)]' = [s \in Slot |-> Content(s)]
<1>1. ASSUME NEW s \in Slot PROVE Content(s)' = Content(s)
  <2>1. Object(s)' = Object(s)
    BY DEF Object
  <2>2. Object(s) \in Slot \cup {None}
    BY ObjectType DEF IInv
  <2>. QED  BY <2>1, <2>2 DEF Content
<1>. QED  BY <1>1

\* The content of what is read.
LEMMA ReadContent ==
  ASSUME NEW refs, NEW k \in Keys, NEW s \in Slot, refs[k] = Object(s)
  PROVE  Read(refs)[k] = Content(s)
  BY DEF Read, Content

LEMMA BeginImplements ==
  ASSUME IInv, NEW p \in Procs, NEW r \in Requests, Begin(p, r)
  PROVE  Service!Request(p, r)
<1>1. UNCHANGED prefs /\ \A s \in Slot : heap'[s] = heap[s]
  BY BeginInv DEF Begin
<1>2. [s \in Slot |-> Content(s)]' = [s \in Slot |-> Content(s)]
  BY <1>1, ContentStays
<1>3. Service!Await(p, r) /\ call[p] = Service!Idle
  BY DEF Begin, Service!Await, Idle, Service!Idle, NoRefs, Service!NoRows
<1>. QED  BY <1>2, <1>3 DEF Service!Request, Content

LEMMA GetImplements ==
  ASSUME IInv, NEW p \in Procs, Get(p)
  PROVE  Service!Get(p)
<1>. DEFINE s == call[p].slot
            refs == [NoRefs EXCEPT ![s[2]] = Object(s)]
<1>1. s \in Slot /\ s[2] \in Keys /\ UNCHANGED prefs /\ \A t \in Slot : heap'[t] = heap[t]
  BY RequestFields, Apart, ReadInv DEF Get, IInv, TypeOK
<1>2. [t \in Slot |-> Content(t)]' = [t \in Slot |-> Content(t)]
  BY <1>1, ContentStays
<1>3. CASE Object(s) = None
  <2>1. Service!Answer(p, "ErrNotFound", Service!NoRows) /\ Content(s) = None
    BY <1>3 DEF Get, Return, Idle, Service!Answer, Service!Idle, NoRefs, Service!NoRows, Content
  <2>. QED  BY <1>1, <1>2, <2>1 DEF Service!Get, Get, Content
<1>4. CASE Object(s) # None
  <2>1. Read(refs) = [NoRefs EXCEPT ![s[2]] = Content(s)]
    BY <1>1, <1>4 DEF Read, NoRefs, Content
  <2>2. Content(s) # None
    BY <1>1, <1>4, ContentIs
  <2>3. Service!Answer(p, "nil", [Service!NoRows EXCEPT ![s[2]] = Content(s)])
    BY <1>4, <2>1 DEF Get, Return, Idle, Service!Answer, Service!Idle, NoRefs, Service!NoRows
  <2>. QED  BY <1>1, <1>2, <2>2, <2>3 DEF Service!Get, Get, Content
<1>. QED  BY <1>3, <1>4

LEMMA ReadImplements ==
  ASSUME IInv, NEW p \in Procs, GetAll(p) \/ GetByCategory(p)
  PROVE  Service!Snapshot(p)
<1>. DEFINE r == call[p]
            content == [s \in Slot |-> Content(s)]
            rows == [k \in Keys |-> IF Service!Selects(r, <<r.user, k>>) THEN content[<<r.user, k>>]
                                    ELSE None]
<1>1. /\ r.user \in Users /\ UNCHANGED prefs /\ \A t \in Slot : heap'[t] = heap[t]
      /\ \A k \in Keys : <<r.user, k>> \in Slot
  BY RequestFields, ReadInv DEF GetAll, GetByCategory, IInv, TypeOK, Slot
<1>2. content' = content
  BY <1>1, ContentStays
<1>3. ASSUME NEW k \in Keys
      PROVE  Service!Selects(r, <<r.user, k>>) <=>
                /\ Content(<<r.user, k>>) # None
                /\ r.op = "bycategory" => Content(<<r.user, k>>).cat = r.cat
  BY <1>1, <1>3 DEF Service!Selects, Content
<1>4. CASE GetAll(p)
  <2>. DEFINE refs == [k \in Keys |-> Object(<<r.user, k>>)]
  <2>1. Read(refs) = rows
    <3>1. ASSUME NEW k \in Keys PROVE Read(refs)[k] = rows[k]
      <4>1. refs[k] = Object(<<r.user, k>>)
        BY <3>1
      <4>2. Read(refs)[k] = Content(<<r.user, k>>)
        BY <1>1, <3>1, <4>1, ReadContent
      <4>. QED  BY <1>1, <1>3, <1>4, <3>1, <4>2 DEF GetAll
    <3>. QED  BY <3>1 DEF Read
  <2>2. Return(p, "nil", rows)
    BY <1>4, <2>1 DEF GetAll
  <2>. QED  BY <1>2, <1>4, <2>2
            DEF GetAll, Return, Idle, Service!Snapshot, Service!Answer, Service!Idle, Content
<1>5. CASE GetByCategory(p)
  <2>. DEFINE Has(o) == o # None /\ heap[o].cat = r.cat
             refs == [k \in Keys |-> IF Has(Object(<<r.user, k>>))
                                      THEN Object(<<r.user, k>>) ELSE None]
  <2>1. Read(refs) = rows
    <3>1. ASSUME NEW k \in Keys PROVE Read(refs)[k] = rows[k]
      <4>. DEFINE s == <<r.user, k>>
      <4>1. s \in Slot /\ (Object(s) # None => Object(s) = s /\ Content(s) = heap[s] /\ Content(s) # None)
            /\ (Object(s) = None => Content(s) = None)
        BY <1>1, <3>1, ContentIs
      <4>2. CASE Object(s) # None /\ heap[s].cat = r.cat
        <5>1. refs[k] = Object(s)
          BY <3>1, <4>1, <4>2
        <5>2. Read(refs)[k] = Content(s)
          BY <3>1, <4>1, <5>1, ReadContent
        <5>. QED  BY <1>3, <3>1, <4>1, <4>2, <5>2
      <4>3. CASE ~(Object(s) # None /\ heap[s].cat = r.cat)
        <5>1. refs[k] = None
          BY <3>1, <4>1, <4>3
        <5>2. Read(refs)[k] = None
          BY <3>1, <5>1 DEF Read
        <5>. QED  BY <1>3, <1>5, <3>1, <4>1, <4>3, <5>2 DEF GetByCategory
      <4>. QED  BY <4>2, <4>3
    <3>. QED  BY <3>1 DEF Read
  <2>2. Return(p, "nil", rows)
    BY <1>5, <2>1 DEF GetByCategory
  <2>. QED  BY <1>2, <1>5, <2>2
            DEF GetByCategory, Return, Idle, Service!Snapshot, Service!Answer, Service!Idle, Content
<1>. QED  BY <1>4, <1>5

LEMMA WriteImplements ==
  ASSUME IInv, NEW p \in Procs, Set(p) \/ Delete(p)
  PROVE  Service!Write(p)
<1>. DEFINE content == [t \in Slot |-> Content(t)]
<1>0. PICK s \in Slot : s = call[p].slot
  BY RequestFields DEF Set, Delete, IInv, TypeOK
<1>1. CASE Set(p)
  <2>1. /\ Object(s)' = s /\ heap'[s] = call[p].row /\ s # None
        /\ \A t \in Slot \ {s} : Object(t)' = Object(t) /\ heap'[t] = heap[t]
    BY <1>0, <1>1, SetInv, Apart
  <2>2. \A t \in Slot \ {s} : Content(t)' = Content(t)
    BY <2>1, ObjectType DEF Content, IInv, Placed
  <2>3. Content(s)' = call[p].row
    BY <2>1 DEF Content
  <2>4. content' = [content EXCEPT ![call[p].slot] = call[p].row]
    BY <1>0, <2>2, <2>3
  <2>5. Service!Takes(call[p])
    BY <1>1, <2>4 DEF Service!Takes, Set, Content
  <2>6. Service!Answer(p, "nil", Service!NoRows)
    BY <1>1 DEF Set, Return, Idle, Service!Answer, Service!Idle, NoRefs, Service!NoRows
  <2>. QED  BY <1>1, <2>5, <2>6 DEF Service!Write, Set
<1>2. CASE Delete(p)
  <2>1. Object(s)' = None /\ UNCHANGED heap /\ \A t \in Slot \ {s} : Object(t)' = Object(t)
    BY <1>0, <1>2, DeleteInv
  <2>2. Content(s)' = None /\ \A t \in Slot \ {s} : Content(t)' = Content(t)
    BY <2>1 DEF Content
  <2>3. content' = [content EXCEPT ![call[p].slot] = None]
    BY <1>0, <2>2
  <2>4. Service!Takes(call[p])
    BY <1>2, <2>3 DEF Service!Takes, Delete, Content
  <2>5. Service!Answer(p, IF Content(s) = None THEN "ErrNotFound" ELSE "nil", Service!NoRows)
    <3>1. Content(s) = None <=> Object(s) = None
      BY ContentIs
    <3>. QED  BY <1>0, <1>2, <3>1
              DEF Delete, Return, Idle, Service!Answer, Service!Idle, NoRefs, Service!NoRows
  <2>. QED  BY <1>0, <1>2, <2>4, <2>5 DEF Service!Write, Delete, Content
<1>. QED  BY <1>1, <1>2

LEMMA CloseImplements ==
  ASSUME IInv, NEW p \in Procs, Close(p)
  PROVE  Service!Close(p)
<1>1. [s \in Slot |-> Content(s)]' = [s \in Slot |-> Content(s)]
  BY ContentStays DEF Close
<1>2. Service!Answer(p, "nil", Service!NoRows) /\ call[p] = Service!Idle
  BY DEF Close, Return, Idle, Service!Answer, Service!Idle, NoRefs, Service!NoRows
<1>. QED  BY <1>1, <1>2 DEF Service!Close, Content

\* Every step is a step of the abstract storage, or shows nothing.
LEMMA StepImplements == IInv /\ [Next]_vars => [Service!Next]_Service!svars
<1>. SUFFICES ASSUME IInv, [Next]_vars PROVE [Service!Next]_Service!svars
  OBVIOUS
<1>1. ASSUME NEW p \in Procs, NEW r \in Requests, Begin(p, r) PROVE Service!Next
  <2>1. r \in Service!Requests
    BY DEF Requests, Service!Requests, Slot, Service!Slot, Row, Service!Row
  <2>. QED  BY <1>1, <2>1, BeginImplements DEF Service!Next
<1>2. ASSUME NEW p \in Procs, Get(p) PROVE Service!Next
  BY <1>2, GetImplements DEF Service!Next
<1>3. ASSUME NEW p \in Procs, GetAll(p) \/ GetByCategory(p) PROVE Service!Next
  BY <1>3, ReadImplements DEF Service!Next
<1>4. ASSUME NEW p \in Procs, Set(p) \/ Delete(p) PROVE Service!Next
  BY <1>4, WriteImplements DEF Service!Next
<1>5. ASSUME NEW p \in Procs, Close(p) PROVE Service!Next
  BY <1>5, CloseImplements DEF Service!Next
<1>6. ASSUME NEW p \in Procs, NEW k \in Keys, NEW row \in Row, CallerWrites(p, k, row)
      PROVE  UNCHANGED Service!svars
  <2>1. UNCHANGED <<prefs, call, res>> /\ \A s \in Slot : heap'[s] = heap[s]
    BY <1>6, CallerWritesInv DEF CallerWrites
  <2>2. [s \in Slot |-> Content(s)]' = [s \in Slot |-> Content(s)]
    BY <2>1, ContentStays
  <2>. QED  BY <2>1, <2>2 DEF Service!svars, Content
<1>7. CASE UNCHANGED vars
  <2>1. [s \in Slot |-> Content(s)]' = [s \in Slot |-> Content(s)]
    BY <1>7, ContentStays DEF vars
  <2>. QED  BY <1>7, <2>1 DEF vars, Service!svars, Content
<1>. QED  BY <1>1, <1>2, <1>3, <1>4, <1>5, <1>6, <1>7 DEF Next

LEMMA InitImplements == Init => Service!Init
  BY DEF Init, Object, NoRefs, Idle, Service!Init, Service!Idle, Service!NoRows, Slot, Service!Slot

\* The in-memory storage is the Storage of the interface, whatever callers do with the
\* preferences they have.
THEOREM StorageImplements == Spec => ImplementsStorage
<1>. QED  BY InitInv, StepInv, InitImplements, StepImplements, PTL
          DEF Spec, ImplementsStorage, Service!Spec
=============================================================================
