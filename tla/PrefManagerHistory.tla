-------------------------- MODULE PrefManagerHistory -------------------------
(***************************************************************************)
(* What storage, cache and callers can hold, in terms of what happened:    *)
(* the proofs of SealedAtRest, NothingUnstored, StoredReadable and         *)
(* ClearToCallers. They need that a call only uses definitions its key has *)
(* had, which is what makes an old definition, looked up at the start of a *)
(* call, harmless at its end.                                              *)
(***************************************************************************)
EXTENDS PrefManagerProofs

\* Definitions in use are definitions the key has had.
DefsOffered ==
    /\ \A k \in Keys : /\ defs[k] # None => defs[k] \in offered[k]
                       /\ InitialDefs[k] # None => InitialDefs[k] \in offered[k]
    /\ \A p \in Procs :
          /\ call[p].at \in {"get.cache", "get.storage", "set.storage"}
                => call[p].def \in offered[call[p].slot[2]]
          /\ call[p].at = "all.storage"
                => \A k \in Keys : call[p].defs[k] # None => call[p].defs[k] \in offered[k]

\* A call in progress whose definitions its key has had.
CallOffered(c) ==
    /\ c.at \in {"get.cache", "get.storage", "set.storage"} => c.def \in offered[c.slot[2]]
    /\ c.at = "all.storage" => \A k \in Keys : c.defs[k] # None => c.defs[k] \in offered[k]

\* A call that has ended uses no definition.
LEMMA IdleOffered == CallOffered(Idle)
  BY DEF CallOffered, Idle

\* The initial definitions begin each key's history.
LEMMA InitOffered == Init => DefsOffered
  BY DefinitionAssumption DEF Init, DefsOffered, Idle

\* A step that moves one call to a point where it uses only offered definitions.
LEMMA OfferedCall ==
  ASSUME TypeOK, DefsOffered, UNCHANGED <<defs, offered>>,
         NEW p \in Procs, NEW c, CallOffered(c), call' = [call EXCEPT ![p] = c]
  PROVE  DefsOffered'
<1>1. ASSUME NEW q \in Procs PROVE CallOffered(call'[q])
  BY DEF TypeOK, DefsOffered, CallOffered
<1>. QED  BY <1>1 DEF DefsOffered, CallOffered

\* A call that returns.
LEMMA OfferedReturn ==
  ASSUME TypeOK, DefsOffered, UNCHANGED <<defs, offered>>, NEW p \in Procs,
         NEW op, NEW err, NEW prefs,
         Return(p, op, err, prefs) \/ Fail(p, op, err)
  PROVE  DefsOffered'
  BY OfferedCall, IdleOffered DEF Return, Fail

\* A call that goes on.
LEMMA OfferedProceed ==
  ASSUME TypeOK, DefsOffered, UNCHANGED <<defs, offered>>, NEW p \in Procs,
         NEW c, CallOffered(c), Proceed(p, c)
  PROVE  DefsOffered'
  BY OfferedCall DEF Proceed

\* A call that has begun goes on with offered definitions.
LEMMA ContinueOffered ==
  ASSUME TypeOK, DefsOffered, NEW p \in Procs, Continue(p)
  PROVE  DefsOffered' /\ UNCHANGED <<defs, offered>>
<1>1. UNCHANGED <<defs, offered>>
  BY DEF Continue, GetCache, GetStorage, GetFill, SetStorage, SetCache, DelStorage, DelCache,
         AllStorage, ByCategoryDef
<1>2. CASE GetCache(p)
  <2>. DEFINE c == [at |-> "get.storage", slot |-> call[p].slot, def |-> call[p].def]
  <2>1. CallOffered(c)
    BY <1>2 DEF CallOffered, DefsOffered, GetCache
  <2>. HIDE DEF c
  <2>2. \/ Proceed(p, c)
        \/ \E op, err, prefs : Return(p, op, err, prefs)
    BY <1>2 DEF GetCache, c
  <2>. QED  BY <1>1, <2>1, <2>2, OfferedReturn, OfferedProceed
<1>3. ASSUME NEW c, Proceed(p, c), c.at \in {"get.fill", "set.cache", "del.cache", "bycat.defs"}
      PROVE  DefsOffered'
  BY <1>1, <1>3, OfferedProceed DEF CallOffered
<1>4. ASSUME NEW op, NEW err, NEW prefs, Return(p, op, err, prefs) \/ Fail(p, op, err)
      PROVE  DefsOffered'
  BY <1>1, <1>4, OfferedReturn
<1>5. CASE GetStorage(p)
  BY <1>3, <1>4, <1>5 DEF GetStorage
<1>6. CASE GetFill(p)
  BY <1>4, <1>6 DEF GetFill
<1>7. CASE SetStorage(p)
  BY <1>3, <1>4, <1>7 DEF SetStorage
<1>8. CASE SetCache(p)
  BY <1>4, <1>8 DEF SetCache
<1>9. CASE DelStorage(p)
  BY <1>3, <1>4, <1>9 DEF DelStorage
<1>10. CASE DelCache(p)
  BY <1>4, <1>10 DEF DelCache
<1>11. CASE AllStorage(p)
  BY <1>4, <1>11 DEF AllStorage
<1>12. ASSUME NEW k \in Keys, ByCategoryDef(p, k) PROVE DefsOffered'
  BY <1>3, <1>4, <1>12 DEF ByCategoryDef
<1>. QED  BY <1>1, <1>2, <1>5, <1>6, <1>7, <1>8, <1>9, <1>10, <1>11, <1>12 DEF Continue

\* A call begins with the current definitions.
LEMMA StartOffered ==
  ASSUME TypeOK, DefsOffered, NEW p \in Procs, Start(p)
  PROVE  DefsOffered' /\ \A k \in Keys : offered[k] \subseteq offered'[k]
<1>1. ASSUME NEW c, Proceed(p, c), UNCHANGED <<defs, offered>>, CallOffered(c) PROVE DefsOffered'
  BY <1>1, OfferedProceed
<1>2. ASSUME NEW op, NEW err, NEW prefs, UNCHANGED <<defs, offered>>,
             Return(p, op, err, prefs) \/ Fail(p, op, err)
      PROVE  DefsOffered'
  BY <1>2, OfferedReturn
<1>3. ASSUME NEW u \in Users \cup {Empty}, NEW k \in Keys \cup {Empty}, GetStart(p, u, k)
      PROVE  DefsOffered'
  <2>. DEFINE c == [at |-> IF HasCache THEN "get.cache" ELSE "get.storage",
                    slot |-> <<u, k>>, def |-> defs[k]]
  <2>1. Known(u, k) => CallOffered(c)
    BY DEF Known, CallOffered, DefsOffered
  <2>. HIDE DEF c
  <2>2. UNCHANGED <<defs, offered>> /\ ((Known(u, k) /\ Proceed(p, c)) \/ Refuse(p, "get", u, k))
    BY <1>3 DEF GetStart, c
  <2>. QED  BY <1>1, <1>2, <2>1, <2>2 DEF Refuse
<1>4. ASSUME NEW u \in Users \cup {Empty}, NEW k \in Keys \cup {Empty}, DelStart(p, u, k)
      PROVE  DefsOffered'
  BY <1>1, <1>2, <1>4 DEF DelStart, Refuse, CallOffered
<1>5. ASSUME NEW u \in Users \cup {Empty}, NEW k \in Keys \cup {Empty}, NEW x \in Ids,
             SetStart(p, u, k, x)
      PROVE  DefsOffered'
  <2>. DEFINE c == [at |-> "set.storage", slot |-> <<u, k>>, def |-> defs[k], x |-> x]
  <2>1. Known(u, k) => CallOffered(c)
    BY DEF Known, CallOffered, DefsOffered
  <2>. HIDE DEF c
  <2>2. /\ UNCHANGED <<defs, offered>>
        /\ \/ Known(u, k) /\ Proceed(p, c)
           \/ Refuse(p, "set", u, k)
           \/ \E err : Fail(p, "set", err)
    BY <1>5 DEF SetStart, c
  <2>. QED  BY <1>1, <1>2, <2>1, <2>2 DEF Refuse
<1>6. ASSUME NEW u \in Users \cup {Empty}, AllStart(p, u) PROVE DefsOffered'
  <2>. DEFINE c == [at |-> "all.storage", user |-> u, defs |-> defs]
  <2>1. CallOffered(c)
    BY DEF CallOffered, DefsOffered
  <2>. HIDE DEF c
  <2>2. UNCHANGED <<defs, offered>> /\ (Proceed(p, c) \/ \E err : Fail(p, "getall", err))
    BY <1>6 DEF AllStart, c
  <2>. QED  BY <1>1, <1>2, <2>1, <2>2
<1>7. ASSUME NEW u \in Users \cup {Empty}, NEW cat \in Categories \cup {Empty},
             ByCategoryStart(p, u, cat)
      PROVE  DefsOffered'
  BY <1>1, <1>2, <1>7 DEF ByCategoryStart, CallOffered
<1>8. ASSUME NEW d \in Definitions, DefinePreference(p, d)
      PROVE  DefsOffered' /\ \A k \in Keys : offered[k] \subseteq offered'[k]
  <2>1. CASE UNCHANGED <<defs, offered>>
    BY <1>2, <1>8, <2>1 DEF DefinePreference
  <2>2. CASE /\ d \in Registered
             /\ defs' = [defs EXCEPT ![d.key] = d]
             /\ offered' = [offered EXCEPT ![d.key] = @ \cup {d}]
    <3>1. call' = call
      <4>1. call[p] = Idle /\ call' = [call EXCEPT ![p] = Idle]
        BY <1>8 DEF DefinePreference, Fail, Return, Begins
      <4>. QED  BY <4>1 DEF TypeOK
    <3>2. /\ \A k \in Keys : offered[k] \subseteq offered'[k]
          /\ d.key \in Keys /\ d \in offered'[d.key]
      BY <2>2, RegisteredType DEF TypeOK
    <3>3. \A k \in Keys : defs'[k] # None => defs'[k] \in offered'[k]
      BY <2>2, <3>2 DEF DefsOffered, TypeOK
    <3>4. ASSUME NEW q \in Procs PROVE CallOffered(call[q])'
      <4>1. CallOffered(call[q])
        BY DEF DefsOffered, CallOffered
      <4>. QED  BY <3>1, <3>2, <4>1, CallFields DEF CallOffered, TypeOK, Slot
    <3>. QED  BY <3>2, <3>3, <3>4 DEF DefsOffered, CallOffered
  <2>. QED  BY <1>8, <2>1, <2>2 DEF DefinePreference
<1>9. ASSUME NEW u, NEW k, NEW x, NEW cat,
             \/ GetStart(p, u, k) \/ DelStart(p, u, k) \/ SetStart(p, u, k, x)
             \/ AllStart(p, u) \/ ByCategoryStart(p, u, cat)
      PROVE  UNCHANGED offered
  BY <1>9 DEF GetStart, DelStart, SetStart, AllStart, ByCategoryStart
<1>. QED  BY <1>3, <1>4, <1>5, <1>6, <1>7, <1>8, <1>9 DEF Start

\* Every step keeps the definitions in use among those offered, and takes none
\* out of a key's history.
LEMMA StepOffered ==
  ASSUME TypeOK, DefsOffered, [Next]_vars
  PROVE  DefsOffered' /\ \A k \in Keys : offered[k] \subseteq offered'[k]
<1>1. CASE UNCHANGED vars
  BY <1>1 DEF vars, DefsOffered
<1>2. CASE \E p \in Procs : Start(p) \/ Continue(p)
  BY <1>2, StartOffered, ContinueOffered
<1>3. CASE \/ \E p \in Procs, s \in Slot : WarmStep(p, s)
           \/ \E p \in Procs, s \in Slot, x \in Ids : CallerWrites(p, s, x)
           \/ \E s \in Slot : Expire(s)
  <2>1. UNCHANGED <<defs, offered, call>>
    BY <1>3 DEF WarmStep, CallerWrites, Expire
  <2>. QED  BY <2>1 DEF DefsOffered
<1>4. CASE Crash
  BY <1>4, DefinitionAssumption DEF Crash, DefsOffered, Idle
<1>. QED  BY <1>1, <1>2, <1>3, <1>4 DEF Next

(***************************************************************************)
(* Encryption at rest.                                                     *)
(***************************************************************************)

\* Only a Set's storage write puts a value into a slot.
LEMMA StoreChanges ==
  ASSUME TypeOK, [Next]_vars, NEW s \in Slot
  PROVE  \/ store'[s] = store[s] \/ store'[s] = None
         \/ \E p \in Procs : SetStorage(p) /\ call[p].slot = s
<1>1. ASSUME NEW p \in Procs, Start(p) PROVE UNCHANGED store
  BY <1>1 DEF Start, GetStart, DelStart, SetStart, AllStart, ByCategoryStart, DefinePreference
<1>2. ASSUME NEW p \in Procs, Continue(p)
      PROVE  UNCHANGED store \/ SetStorage(p) \/ DelStorage(p)
  BY <1>2 DEF Continue, GetCache, GetStorage, GetFill, SetCache, DelCache, AllStorage, ByCategoryDef
<1>3. CASE \/ \E p \in Procs, t \in Slot : WarmStep(p, t)
           \/ \E p \in Procs, t \in Slot, x \in Ids : CallerWrites(p, t, x)
           \/ \E t \in Slot : Expire(t)
           \/ UNCHANGED vars
  BY <1>3 DEF WarmStep, CallerWrites, Expire, vars
<1>4. ASSUME NEW p \in Procs, SetStorage(p), call[p].slot # s PROVE store'[s] = store[s]
  BY <1>4 DEF SetStorage, Stores, TypeOK
<1>5. ASSUME NEW p \in Procs, DelStorage(p) PROVE store'[s] = store[s] \/ store'[s] = None
  BY <1>5 DEF DelStorage, TypeOK
<1>6. CASE Crash
  BY <1>6 DEF Crash
<1>. QED  BY <1>1, <1>2, <1>3, <1>4, <1>5, <1>6 DEF Next

\* What a Set stores under an encrypted definition is sealed.
LEMMA StoresSealed ==
  ASSUME TypeOK, NEW p \in Procs, SetStorage(p), call[p].def.encrypted
  PROVE  LET s == call[p].slot IN
         \/ store'[s] = store[s]
         \/ store'[s].value.form = "cipher" \/ store'[s].value.id \in Blank
<1>. DEFINE s == call[p].slot
            d == call[p].def
            x == call[p].x
            v == EncryptValue(x, d)
            pref == PrefOf(v, d)
<1>1. s \in Slot /\ d \in Registered /\ x \in Ids /\ v # None
  BY CallFields DEF SetStorage, TypeOK
<1>2. v \in Value /\ v.id = x /\ (v.form = "cipher" \/ x \in Blank)
  BY <1>1, EncryptType DEF EncryptValue
<1>3. pref \in Pref /\ pref.value = v
  BY <1>1, <1>2, PrefOfType DEF PrefOf
<1>. HIDE DEF v, pref
<1>4. ASSUME NEW old \in Pref \cup {None}
      PROVE  \/ Upserted(old, pref).value.form = "cipher"
             \/ Upserted(old, pref).value.id \in Blank
  <2>1. Upserted(old, pref).value \in {v, Rejson(v)}
    BY <1>3, <1>4 DEF Upserted, RejsonPref, Pref
  <2>. QED  BY <1>2, <2>1, RejsonType DEF Rejson
<1>5. store' = store \/ store'[s] = Upserted(store[s], pref)
  BY <1>1 DEF SetStorage, Stores, TypeOK, pref, v
<1>. QED  BY <1>1, <1>4, <1>5 DEF TypeOK

\* Every step keeps sealed what must be sealed.
LEMMA StepSealed == TypeOK /\ DefsOffered /\ SealedAtRest /\ [Next]_vars => SealedAtRest'
<1>. SUFFICES ASSUME TypeOK, DefsOffered, SealedAtRest, [Next]_vars, NEW s \in Slot,
                     store'[s] # None, \A d \in offered'[s[2]] : d.encrypted
              PROVE  store'[s].value.form = "cipher" \/ store'[s].value.id \in Blank
  BY DEF SealedAtRest
<1>1. offered[s[2]] \subseteq offered'[s[2]]
  BY StepOffered DEF Slot
<1>2. CASE store'[s] = store[s]
  BY <1>1, <1>2 DEF SealedAtRest
<1>3. ASSUME NEW p \in Procs, SetStorage(p), call[p].slot = s
      PROVE  store'[s].value.form = "cipher" \/ store'[s].value.id \in Blank
  <2>1. call[p].def \in offered[s[2]]
    BY <1>3 DEF DefsOffered, SetStorage
  <2>. QED  BY <1>1, <1>2, <1>3, <2>1, StoresSealed
<1>. QED  BY <1>2, <1>3, StoreChanges

\* A key that only ever had encrypted definitions has no value in clear in the
\* storage, whatever was redefined while a Set was under way.
THEOREM Sealed == Spec => []SealedAtRest
<1>1. Init => TypeOK /\ DefsOffered /\ SealedAtRest
  BY InitTypes, InitOffered DEF Init, SealedAtRest
<1>2. TypeOK /\ DefsOffered /\ SealedAtRest /\ [Next]_vars => (TypeOK /\ DefsOffered /\ SealedAtRest)'
  BY StepTypes, StepOffered, StepSealed
<1>. QED  BY <1>1, <1>2, PTL DEF Spec

(***************************************************************************)
(* Nothing but what was stored, or a default, ever reaches the cache.      *)
(***************************************************************************)

\* The payloads slot s may legitimately show.
Genuine(s) == past[s] \cup {d.dflt : d \in offered[s[2]]}

\* Wherever a payload of slot s lies, or is under way, it is genuine.
Traced(s) ==
    /\ store[s] # None => store[s].value.id \in past[s]
    /\ cache[s] # None => cache[s].value.id \in Genuine(s)
    /\ \A q \in Procs :
          /\ call[q].at \in {"get.fill", "set.cache"} /\ call[q].slot = s
                => call[q].pref.value.id \in Genuine(s)
          /\ warm[q][s] # None => warm[q][s].value.id \in Genuine(s)

\* What was genuine stays genuine.
LEMMA GenuineGrows ==
  ASSUME TypeOK, DefsOffered, [Next]_vars, NEW s \in Slot
  PROVE  past[s] \subseteq past'[s] /\ Genuine(s) \subseteq Genuine(s)'
<1>1. past[s] \subseteq past'[s]
  <2>1. ASSUME NEW p \in Procs, Start(p) PROVE UNCHANGED past
    BY <2>1 DEF Start, GetStart, DelStart, SetStart, AllStart, ByCategoryStart, DefinePreference
  <2>2. ASSUME NEW p \in Procs, Continue(p) PROVE UNCHANGED past \/ SetStorage(p)
    BY <2>2 DEF Continue, GetCache, GetStorage, GetFill, SetCache, DelStorage, DelCache,
           AllStorage, ByCategoryDef
  <2>3. ASSUME NEW p \in Procs, SetStorage(p) PROVE past[s] \subseteq past'[s]
    BY <2>3 DEF SetStorage, Stores, TypeOK
  <2>4. CASE \/ \E p \in Procs, t \in Slot : WarmStep(p, t)
             \/ \E p \in Procs, t \in Slot, x \in Ids : CallerWrites(p, t, x)
             \/ \E t \in Slot : Expire(t)
             \/ Crash \/ UNCHANGED vars
    BY <2>4 DEF WarmStep, CallerWrites, Expire, Crash, vars
  <2>. QED  BY <2>1, <2>2, <2>3, <2>4 DEF Next
<1>2. offered[s[2]] \subseteq offered'[s[2]]
  BY StepOffered DEF Slot
<1>. QED  BY <1>1, <1>2 DEF Genuine

\* A Set that changes the storage has left its payload in the slot's history.
LEMMA StoresTraced ==
  ASSUME TypeOK, NEW p \in Procs, SetStorage(p)
  PROVE  LET s == call[p].slot IN
         \/ UNCHANGED store /\ call'[p] = Idle
         \/ /\ store'[s] # None /\ store'[s].value.id = call[p].x
            /\ call[p].x \in past'[s]
<1>. DEFINE s == call[p].slot
            d == call[p].def
            x == call[p].x
            pref == PrefOf(EncryptValue(x, d), d)
<1>1. s \in Slot /\ d \in Registered /\ x \in Ids /\ EncryptValue(x, d) # None
  BY CallFields DEF SetStorage, TypeOK
<1>2. pref \in Pref /\ pref.value.id = x
  BY <1>1, EncryptType, PrefOfType
<1>. HIDE DEF pref
<1>3. Stores(s, pref, x) \/ (UNCHANGED store /\ Fail(p, "set", "ErrStorage"))
        \/ (UNCHANGED store /\ Fail(p, "set", "ErrSerialization"))
  BY DEF SetStorage, pref
<1>4. CASE Stores(s, pref, x)
  <2>1. store'[s] = Upserted(store[s], pref) /\ x \in past'[s]
    BY <1>1, <1>4 DEF Stores, TypeOK
  <2>2. store[s] \in Pref \cup {None}
    BY <1>1 DEF TypeOK
  <2>3. Upserted(store[s], pref) \in Pref /\ Upserted(store[s], pref).value.id = x
    BY <1>2, <2>2, UpsertedType
  <2>. QED  BY <2>1, <2>3, PrefNotNone
<1>5. ASSUME NEW err, Fail(p, "set", err) PROVE call'[p] = Idle
  BY <1>5 DEF Fail, Return, TypeOK
<1>. QED  BY <1>3, <1>4, <1>5

\* The storage only holds what was stored.
LEMMA StoreTraced ==
  ASSUME TypeOK, DefsOffered, [Next]_vars, NEW s \in Slot, Traced(s)
  PROVE  store'[s] # None => store'[s].value.id \in past'[s]
<1>1. past[s] \subseteq past'[s]
  BY GenuineGrows
<1>2. CASE store'[s] = store[s] \/ store'[s] = None
  BY <1>1, <1>2 DEF Traced
<1>3. ASSUME NEW p \in Procs, SetStorage(p), call[p].slot = s
      PROVE  store'[s] # None => store'[s].value.id \in past'[s]
  BY <1>2, <1>3, StoresTraced
<1>. QED  BY <1>2, <1>3, StoreChanges

\* An entry changes by removal, or by one of the copies under way.
LEMMA CacheChanges ==
  ASSUME TypeOK, [Next]_vars, NEW s \in Slot
  PROVE  \/ cache'[s] \in {cache[s], None}
         \/ \E p \in Procs : /\ call[p].at \in {"get.fill", "set.cache"} /\ call[p].slot = s
                             /\ cache'[s] = RejsonPref(call[p].pref)
         \/ \E p \in Procs : warm[p][s] # None /\ cache'[s] = RejsonPref(warm[p][s])
<1>1. ASSUME NEW p \in Procs, Start(p) PROVE UNCHANGED cache
  BY <1>1 DEF Start, GetStart, DelStart, SetStart, AllStart, ByCategoryStart, DefinePreference
<1>2. ASSUME NEW p \in Procs, Continue(p)
      PROVE  UNCHANGED cache \/ GetFill(p) \/ SetCache(p) \/ DelCache(p)
  BY <1>2 DEF Continue, GetCache, GetStorage, SetStorage, DelStorage, AllStorage, ByCategoryDef
<1>3. ASSUME NEW p \in Procs, GetFill(p) \/ SetCache(p)
      PROVE  \/ cache'[s] = cache[s]
             \/ /\ call[p].at \in {"get.fill", "set.cache"} /\ call[p].slot = s
                /\ cache'[s] = RejsonPref(call[p].pref)
  <2>1. /\ call[p].at \in {"get.fill", "set.cache"}
        /\ UNCHANGED cache \/ CacheTakes(call[p].slot, call[p].pref)
    BY <1>3 DEF GetFill, SetCache, CacheSkips
  <2>. QED  BY <2>1 DEF CacheTakes, TypeOK
<1>4. ASSUME NEW p \in Procs, DelCache(p) PROVE cache'[s] \in {cache[s], None}
  BY <1>4 DEF DelCache, TypeOK
<1>5. ASSUME NEW p \in Procs, NEW t \in Slot, WarmStep(p, t)
      PROVE  cache'[s] = cache[s] \/ (warm[p][s] # None /\ cache'[s] = RejsonPref(warm[p][s]))
  BY <1>5 DEF WarmStep, CacheTakes, CacheSkips, TypeOK
<1>6. CASE \/ \E p \in Procs, t \in Slot, x \in Ids : CallerWrites(p, t, x)
           \/ \E t \in Slot : Expire(t)
           \/ Crash \/ UNCHANGED vars
  BY <1>6 DEF CallerWrites, Expire, Crash, vars, TypeOK
<1>. QED  BY <1>1, <1>2, <1>3, <1>4, <1>5, <1>6 DEF Next

\* The cache only shows genuine payloads.
LEMMA CacheTraced ==
  ASSUME TypeOK, DefsOffered, [Next]_vars, NEW s \in Slot, Traced(s)
  PROVE  cache'[s] # None => cache'[s].value.id \in Genuine(s)'
<1>1. Genuine(s) \subseteq Genuine(s)'
  BY GenuineGrows
<1>2. CASE cache'[s] \in {cache[s], None}
  BY <1>1, <1>2 DEF Traced
<1>3. ASSUME NEW p \in Procs, call[p].at \in {"get.fill", "set.cache"}, call[p].slot = s,
             cache'[s] = RejsonPref(call[p].pref)
      PROVE  cache'[s].value.id \in Genuine(s)'
  <2>1. call[p].pref \in Pref
    BY <1>3, CallFields DEF TypeOK
  <2>. QED  BY <1>1, <1>3, <2>1, RejsonPrefType DEF Traced
<1>4. ASSUME NEW p \in Procs, warm[p][s] # None, cache'[s] = RejsonPref(warm[p][s])
      PROVE  cache'[s].value.id \in Genuine(s)'
  <2>1. warm[p][s] \in Pref
    BY <1>4 DEF TypeOK
  <2>. QED  BY <1>1, <1>4, <2>1, RejsonPrefType DEF Traced
<1>. QED  BY <1>2, <1>3, <1>4, CacheChanges

\* A copy under way to the cache was read from the storage, or written to it.
LEMMA CallTraced ==
  ASSUME TypeOK, DefsOffered, [Next]_vars, NEW s \in Slot, Traced(s), NEW q \in Procs,
         call'[q].at \in {"get.fill", "set.cache"}, call'[q].slot = s
  PROVE  call'[q].pref.value.id \in Genuine(s)'
<1>1. Genuine(s) \subseteq Genuine(s)'
  BY GenuineGrows
<1>2. CASE call'[q] = call[q]
  BY <1>1, <1>2 DEF Traced
<1>3. ASSUME NEW p \in Procs, Start(p) PROVE call'[q] = call[q]
  BY <1>3 DEF Start, GetStart, DelStart, SetStart, AllStart, ByCategoryStart, DefinePreference,
         Refuse, Fail, Return, Proceed, Idle, TypeOK
<1>4. ASSUME NEW p \in Procs, Continue(p), call'[q] # call[q]
      PROVE  p = q /\ (GetStorage(q) \/ SetStorage(q))
  <2>1. CASE GetStorage(p) \/ SetStorage(p)
    BY <1>4, <2>1 DEF GetStorage, SetStorage, Fail, Return, Proceed, TypeOK
  <2>2. CASE GetCache(p) \/ GetFill(p) \/ SetCache(p)
    BY <1>4, <2>2 DEF GetCache, GetFill, SetCache, Fail, Return, Proceed, Idle, TypeOK
  <2>3. CASE DelStorage(p) \/ DelCache(p) \/ AllStorage(p) \/ \E k \in Keys : ByCategoryDef(p, k)
    BY <1>4, <2>3 DEF DelStorage, DelCache, AllStorage, ByCategoryDef, Fail, Return, Proceed,
           Idle, TypeOK
  <2>. QED  BY <1>4, <2>1, <2>2, <2>3 DEF Continue
<1>5. CASE GetStorage(q)
  <2>. DEFINE pref == Decrypted(store[call[q].slot], call[q].def)
  <2>1. \/ call'[q] = Idle
        \/ /\ store[call[q].slot] # None /\ pref # None
           /\ call'[q] = [at |-> "get.fill", slot |-> call[q].slot, pref |-> pref]
    BY <1>5 DEF GetStorage, Fail, Return, Proceed, TypeOK
  <2>2. call[q].slot = s /\ store[s] \in Pref /\ pref # None /\ call'[q].pref = pref
    BY <2>1 DEF Idle, TypeOK
  <2>3. call'[q].pref.value.id = store[s].value.id
    BY <2>2, DecryptedType
  <2>. QED  BY <1>1, <2>2, <2>3, PrefNotNone DEF Traced, Genuine
<1>6. CASE SetStorage(q)
  <2>. DEFINE pref == PrefOf(Native(call[q].x), call[q].def)
  <2>1. call'[q] = Idle \/ call'[q] = [at |-> "set.cache", slot |-> call[q].slot, pref |-> pref]
    BY <1>6 DEF SetStorage, Fail, Return, Proceed, TypeOK
  <2>2. call[q].slot = s /\ call'[q].pref = pref /\ call'[q] # Idle
    BY <2>1 DEF Idle
  <2>3. call[q].x \in Ids /\ call[q].def \in Registered
    BY <1>6, CallFields DEF SetStorage, TypeOK
  <2>4. pref.value.id = call[q].x
    BY <2>3, NativeType, PrefOfType
  <2>5. call[q].x \in past'[s]
    BY <1>6, <2>2, StoresTraced
  <2>. QED  BY <2>2, <2>4, <2>5 DEF Genuine
<1>7. CASE \/ \E p \in Procs, t \in Slot : WarmStep(p, t)
           \/ \E p \in Procs, t \in Slot, x \in Ids : CallerWrites(p, t, x)
           \/ \E t \in Slot : Expire(t)
           \/ UNCHANGED vars
  BY <1>2, <1>7 DEF WarmStep, CallerWrites, Expire, vars
<1>8. ~Crash
  BY DEF Crash, Idle
<1>. QED  BY <1>2, <1>3, <1>4, <1>5, <1>6, <1>7, <1>8 DEF Next

\* What GetAll hands to its warming goroutine was read from the storage, or is
\* the default of a definition.
LEMMA AllTraced ==
  ASSUME TypeOK, DefsOffered, NEW s \in Slot, Traced(s), NEW p \in Procs, AllStorage(p),
         warm'[p][s] # None
  PROVE  warm'[p][s] = warm[p][s] \/ warm'[p][s].value.id \in Genuine(s)
<1>. DEFINE ds == call[p].defs
            u == call[p].user
            d == ds[s[2]]
            all == [k \in Keys |->
                       IF ds[k] = None THEN None
                       ELSE IF k \in {l \in Keys : ds[l] # None /\ store[<<u, l>>] # None}
                            THEN Refreshed(store[<<u, k>>], ds[k])
                            ELSE DefaultPref(ds[k])]
<1>1. ds \in [Keys -> Registered \cup {None}] /\ u \in Users /\ s[2] \in Keys /\ s = <<s[1], s[2]>>
  BY CallFields DEF AllStorage, TypeOK, Slot
<1>2. UNCHANGED warm \/ warm' = [warm EXCEPT ![p] = ToWarm(u, all)]
  BY DEF AllStorage
<1>. SUFFICES ASSUME warm' = [warm EXCEPT ![p] = ToWarm(u, all)]
              PROVE  warm'[p][s].value.id \in Genuine(s)
  BY <1>2
<1>3. warm'[p][s] = ToWarm(u, all)[s]
  BY DEF TypeOK
<1>4. u = s[1] /\ warm'[p][s] = all[s[2]]
  BY <1>3 DEF ToWarm
<1>5. d # None /\ d \in Registered /\ d \in offered[s[2]]
  BY <1>1, <1>4 DEF DefsOffered, AllStorage
<1>6. CASE store[s] # None
  <2>1. warm'[p][s] = Refreshed(store[s], d)
    BY <1>1, <1>4, <1>5, <1>6
  <2>2. store[s] \in Pref
    BY <1>6 DEF TypeOK
  <2>3. warm'[p][s].value.id = store[s].value.id
    BY <1>5, <2>1, <2>2, RefreshedType
  <2>. QED  BY <1>6, <2>3 DEF Traced, Genuine
<1>7. CASE store[s] = None
  <2>1. warm'[p][s] = DefaultPref(d)
    BY <1>1, <1>4, <1>5, <1>7
  <2>. QED  BY <1>5, <2>1, DefaultPrefType DEF Genuine
<1>. QED  BY <1>6, <1>7

\* The warming goroutines only have genuine payloads to write, unless a caller
\* changes what it was returned.
LEMMA WarmTraced ==
  ASSUME "mutate" \notin Ops, TypeOK, DefsOffered, [Next]_vars, NEW s \in Slot, Traced(s),
         NEW q \in Procs, warm'[q][s] # None
  PROVE  warm'[q][s].value.id \in Genuine(s)'
<1>1. Genuine(s) \subseteq Genuine(s)'
  BY GenuineGrows
<1>2. CASE warm'[q][s] = warm[q][s]
  BY <1>1, <1>2 DEF Traced
<1>3. ASSUME NEW p \in Procs, Start(p) PROVE UNCHANGED warm
  BY <1>3 DEF Start, GetStart, DelStart, SetStart, AllStart, ByCategoryStart, DefinePreference
<1>4. ASSUME NEW p \in Procs, Continue(p) PROVE UNCHANGED warm \/ AllStorage(p)
  BY <1>4 DEF Continue, GetCache, GetStorage, GetFill, SetStorage, SetCache, DelStorage,
         DelCache, ByCategoryDef
<1>5. ASSUME NEW p \in Procs, AllStorage(p) PROVE warm'[q][s] = warm[q][s] \/ p = q
  BY <1>5 DEF AllStorage, TypeOK
<1>6. ASSUME NEW p \in Procs, NEW t \in Slot, WarmStep(p, t) PROVE warm'[q][s] = warm[q][s]
  BY <1>6 DEF WarmStep, TypeOK
<1>7. ASSUME NEW p \in Procs, NEW t \in Slot, NEW x \in Ids, CallerWrites(p, t, x) PROVE FALSE
  BY <1>7 DEF CallerWrites
<1>8. CASE (\E t \in Slot : Expire(t)) \/ UNCHANGED vars
  BY <1>2, <1>8 DEF Expire, vars
<1>9. ~Crash
  BY DEF Crash, NoWarm
<1>. QED  BY <1>1, <1>2, <1>3, <1>4, <1>5, <1>6, <1>7, <1>8, <1>9, AllTraced DEF Next

\* Every step keeps every slot traced.
LEMMA StepTraced ==
  ASSUME "mutate" \notin Ops, TypeOK, DefsOffered, \A s \in Slot : Traced(s), [Next]_vars
  PROVE  \A s \in Slot : Traced(s)'
<1>. SUFFICES ASSUME NEW s \in Slot PROVE Traced(s)'
  OBVIOUS
<1>. QED  BY StoreTraced, CacheTraced, CallTraced, WarmTraced DEF Traced

\* As long as no caller writes to the preferences GetAll returned to it, the
\* cache only ever serves what a Set stored in that slot, or a default its key has had.
THEOREM NeverUnstored ==
  ASSUME "mutate" \notin Ops
  PROVE  Spec => []NothingUnstored
<1>. DEFINE AllTracedNow == \A s \in Slot : Traced(s)
<1>1. Init => TypeOK /\ DefsOffered /\ AllTracedNow
  BY InitTypes, InitOffered DEF Init, Traced, Idle, NoWarm
<1>2. TypeOK /\ DefsOffered /\ AllTracedNow /\ [Next]_vars => (TypeOK /\ DefsOffered /\ AllTracedNow)'
  BY StepTypes, StepOffered, StepTraced
<1>3. AllTracedNow => NothingUnstored
  BY DEF Traced, Genuine, NothingUnstored
<1>. QED  BY <1>1, <1>2, <1>3, PTL DEF Spec

(***************************************************************************)
(* What Set accepted can be read: every stored value is one that some      *)
(* definition of its key accepted and encryptValue wrote.                  *)
(***************************************************************************)

\* v is how a payload that definition d accepts is stored.
WrittenAs(v, d) ==
    /\ Accepts(d, v.id) /\ EncryptValue(v.id, d) # None
    /\ v \in {EncryptValue(v.id, d), Rejson(EncryptValue(v.id, d))}

Written(s) == store[s] # None => \E d \in offered[s[2]] : WrittenAs(store[s].value, d)

\* A Set that has reached the storage has passed validation.
SetsAccepted == \A p \in Procs : call[p].at = "set.storage" => Accepts(call[p].def, call[p].x)

\* Only its own steps, and a crash, change a goroutine's call and its result.
LEMMA OwnSteps ==
  ASSUME TypeOK, [Next]_vars, NEW q \in Procs
  PROVE  \/ call'[q] = call[q] /\ res'[q] = res[q]
         \/ Start(q) \/ Continue(q) \/ Crash
<1>1. ASSUME NEW p \in Procs, p # q, Start(p)
      PROVE  call'[q] = call[q] /\ res'[q] = res[q]
  BY <1>1 DEF Start, GetStart, DelStart, SetStart, AllStart, ByCategoryStart, DefinePreference,
         Refuse, Fail, Return, Proceed, TypeOK
<1>2. ASSUME NEW p \in Procs, p # q, Continue(p)
      PROVE  call'[q] = call[q] /\ res'[q] = res[q]
  <2>1. ASSUME NEW c, Proceed(p, c) PROVE call'[q] = call[q] /\ res'[q] = res[q]
    BY <1>2, <2>1 DEF Proceed, TypeOK
  <2>2. ASSUME NEW op, NEW err, NEW prefs, Return(p, op, err, prefs)
        PROVE  call'[q] = call[q] /\ res'[q] = res[q]
    BY <1>2, <2>2 DEF Return, TypeOK
  <2>3. CASE GetCache(p) \/ GetStorage(p) \/ GetFill(p)
    BY <2>1, <2>2, <2>3 DEF GetCache, GetStorage, GetFill, Fail
  <2>4. CASE SetStorage(p) \/ SetCache(p) \/ DelStorage(p) \/ DelCache(p)
    BY <2>1, <2>2, <2>4 DEF SetStorage, SetCache, DelStorage, DelCache, Fail
  <2>5. CASE AllStorage(p) \/ \E k \in Keys : ByCategoryDef(p, k)
    BY <2>1, <2>2, <2>5 DEF AllStorage, ByCategoryDef, Fail
  <2>. QED  BY <1>2, <2>3, <2>4, <2>5 DEF Continue
<1>3. CASE \/ \E p \in Procs, t \in Slot : WarmStep(p, t)
           \/ \E p \in Procs, t \in Slot, x \in Ids : CallerWrites(p, t, x)
           \/ \E t \in Slot : Expire(t)
           \/ UNCHANGED vars
  BY <1>3 DEF WarmStep, CallerWrites, Expire, vars
<1>. QED  BY <1>1, <1>2, <1>3 DEF Next

\* Only SetStart begins a storage write, and only of what it accepted.
LEMMA StepAccepted ==
  ASSUME TypeOK, SetsAccepted, [Next]_vars
  PROVE  SetsAccepted'
<1>. SUFFICES ASSUME NEW q \in Procs, call'[q].at = "set.storage"
              PROVE  Accepts(call'[q].def, call'[q].x)
  BY DEF SetsAccepted
<1>1. CASE call'[q] = call[q]
  BY <1>1 DEF SetsAccepted
<1>2. ASSUME NEW op, NEW err, NEW prefs, Return(q, op, err, prefs) PROVE FALSE
  BY <1>2 DEF Return, Idle, TypeOK
<1>3. ASSUME NEW c, Proceed(q, c) PROVE call'[q] = c
  BY <1>3 DEF Proceed, TypeOK
<1>4. CASE Start(q)
  <2>1. ASSUME NEW u, NEW k, NEW x, SetStart(q, u, k, x) PROVE Accepts(call'[q].def, call'[q].x)
    BY <1>2, <1>3, <2>1 DEF SetStart, Refuse, Fail
  <2>2. ASSUME NEW u, NEW k, GetStart(q, u, k) \/ DelStart(q, u, k) PROVE FALSE
    BY <1>2, <1>3, <2>2 DEF GetStart, DelStart, Refuse, Fail
  <2>3. ASSUME NEW u, NEW cat, AllStart(q, u) \/ ByCategoryStart(q, u, cat) PROVE FALSE
    BY <1>2, <1>3, <2>3 DEF AllStart, ByCategoryStart, Fail
  <2>4. ASSUME NEW d, DefinePreference(q, d) PROVE FALSE
    BY <1>2, <2>4 DEF DefinePreference, Fail
  <2>. QED  BY <1>4, <2>1, <2>2, <2>3, <2>4 DEF Start
<1>5. ~Continue(q)
  <2>1. ~GetCache(q) /\ ~GetStorage(q) /\ ~GetFill(q)
    BY <1>2, <1>3 DEF GetCache, GetStorage, GetFill, Fail
  <2>2. ~SetStorage(q) /\ ~SetCache(q) /\ ~DelStorage(q) /\ ~DelCache(q)
    BY <1>2, <1>3 DEF SetStorage, SetCache, DelStorage, DelCache, Fail
  <2>3. ~AllStorage(q) /\ \A k \in Keys : ~ByCategoryDef(q, k)
    BY <1>2, <1>3 DEF AllStorage, ByCategoryDef, Fail
  <2>. QED  BY <2>1, <2>2, <2>3 DEF Continue
<1>6. ~Crash
  BY DEF Crash, Idle
<1>. QED  BY <1>1, <1>4, <1>5, <1>6, OwnSteps

\* Every step leaves in the storage what some definition of the key accepted.
LEMMA StepWritten ==
  ASSUME TypeOK, DefsOffered, SetsAccepted, [Next]_vars, NEW s \in Slot, Written(s)
  PROVE  Written(s)'
<1>1. offered[s[2]] \subseteq offered'[s[2]]
  BY StepOffered DEF Slot
<1>2. CASE store'[s] = store[s] \/ store'[s] = None
  BY <1>1, <1>2 DEF Written
<1>3. ASSUME NEW p \in Procs, SetStorage(p), call[p].slot = s PROVE Written(s)'
  <2>. DEFINE d == call[p].def
              x == call[p].x
              v == EncryptValue(x, d)
              pref == PrefOf(v, d)
  <2>1. d \in Registered /\ x \in Ids /\ v # None /\ Accepts(d, x) /\ d \in offered[s[2]]
    BY <1>3, CallFields DEF SetStorage, SetsAccepted, DefsOffered, TypeOK
  <2>2. v \in Value /\ v.id = x
    BY <2>1, EncryptType
  <2>3. pref \in Pref /\ pref.value = v
    BY <2>1, <2>2, PrefOfType DEF PrefOf
  <2>4. store' = store \/ store'[s] = Upserted(store[s], pref)
    BY <1>3 DEF SetStorage, Stores, TypeOK
  <2>. HIDE DEF v, pref
  <2>5. ASSUME NEW old \in Pref \cup {None} PROVE WrittenAs(Upserted(old, pref).value, d)
    <3>1. Upserted(old, pref).value \in {v, Rejson(v)}
      BY <2>3, <2>5 DEF Upserted, RejsonPref, Pref
    <3>. QED  BY <2>1, <2>2, <3>1, RejsonType DEF WrittenAs, v
  <2>. QED  BY <1>1, <1>2, <2>1, <2>4, <2>5 DEF Written, TypeOK
<1>. QED  BY <1>2, <1>3, StoreChanges

\* The history invariant behind the theorems below.
WriteHistory == TypeOK /\ DefsOffered /\ SetsAccepted /\ \A s \in Slot : Written(s)

LEMMA InitWritten == Init => WriteHistory
  BY InitTypes, InitOffered DEF Init, WriteHistory, SetsAccepted, Written, Idle

LEMMA StepWriteHistory == WriteHistory /\ [Next]_vars => WriteHistory'
  BY StepTypes, StepOffered, StepAccepted, StepWritten DEF WriteHistory

\* Encrypted json definitions let no string through that is not text of a JSON value
\* (the run `unreadable` shows what happens otherwise).
TextAdmitted ==
    \A d \in Definitions : \A x \in d.admits :
        d.encrypted /\ d.type = "json" /\ Kind[x] = "string" => <<x, "json">> \in Parses

\* decryptValue undoes encryptValue, and what the storage made of its result.
LEMMA WrittenReadable ==
  ASSUME TextAdmitted, NEW d \in Registered, NEW v \in Value, WrittenAs(v, d)
  PROVE  DecryptValue(v, d) # None
<1>. DEFINE x == v.id
<1>1. /\ x \in Ids /\ v # None /\ d \in Definitions
      /\ Accepts(d, x) /\ x \in d.admits /\ d.type \in Types
      /\ \A t : Decoded(x, t) # None
  BY RejsonType, DecodedType, RegisteredType DEF Registered, WrittenAs, Accepts
<1>2. CASE ~d.encrypted \/ ~IsString(v)
  BY <1>1, <1>2 DEF DecryptValue
<1>3. CASE d.encrypted /\ IsString(v)
  <2>1. v.form = "cipher" \/ x \in Blank
    BY <1>3 DEF WrittenAs, EncryptValue, Rejson, Native
  <2>2. v.form # "cipher" => Kind[x] = "string"
    BY <1>3 DEF IsString
  <2>3. v.form = "cipher" => x \notin Unencodable /\ x \notin Blank
    <3>1. EncryptValue(x, d).form = "cipher" => x \notin Unencodable /\ x \notin Blank
      BY <1>3 DEF EncryptValue, WrittenAs, Native
    <3>2. Rejson(EncryptValue(x, d)).form = "cipher" => EncryptValue(x, d).form = "cipher"
      BY <1>1, EncryptType DEF Rejson, WrittenAs, Value
    <3>. QED  BY <3>1, <3>2 DEF WrittenAs
  <2>4. x \notin Unencodable
    BY <1>1, <2>2, <2>3, DataAssumption
  <2>5. d.type # "json" => Kind[x] = d.type
    BY <1>1 DEF Accepts
  <2>6. <<x, d.type>> \in Parses
    <3>1. CASE d.type = "json" /\ Kind[x] = "string"
      BY <1>1, <1>3, <3>1 DEF TextAdmitted
    <3>2. CASE d.type # "json" /\ Kind[x] = "string"
      BY <1>1, <2>4, <2>5, <3>2, CodecAssumption
    <3>3. CASE Kind[x] # "string"
      <4>1. x \notin Blank /\ d.type \in {Kind[x], "json"} \cap Types
        BY <1>1, <2>2, <2>3, <2>5, <3>3
      <4>. QED  BY <1>1, <2>4, <3>3, <4>1, CodecAssumption
    <3>. QED  BY <3>1, <3>2, <3>3
  <2>. QED  BY <1>1, <1>3, <2>1, <2>6 DEF DecryptValue
<1>. QED  BY <1>2, <1>3

\* A Get of a key that only ever had one definition never fails to decrypt what a Set
\* stored, for every payload validation lets through, provided encrypted json
\* definitions admit no string but JSON text.
THEOREM AcceptedIsReadable ==
  ASSUME TextAdmitted
  PROVE  Spec => []StoredReadable
<1>1. ASSUME WriteHistory PROVE StoredReadable
  <2>. SUFFICES ASSUME NEW s \in Slot, store[s] # None, defs[s[2]] # None,
                       offered[s[2]] = {defs[s[2]]}
                PROVE  DecryptValue(store[s].value, defs[s[2]]) # None
    BY DEF StoredReadable
  <2>1. WrittenAs(store[s].value, defs[s[2]])
    BY <1>1 DEF WriteHistory, Written
  <2>2. defs[s[2]] \in Registered /\ store[s].value \in Value
    <3>0. TypeOK /\ s[2] \in Keys
      BY <1>1 DEF WriteHistory, Slot
    <3>1. store[s] \in Pref
      BY <3>0 DEF TypeOK
    <3>2. defs[s[2]] \in Registered
      BY <3>0 DEF TypeOK
    <3>. QED  BY <3>1, <3>2, PrefNotNone
  <2>. QED  BY <2>1, <2>2, WrittenReadable
<1>. QED  BY <1>1, InitWritten, StepWriteHistory, PTL DEF Spec

(***************************************************************************)
(* No ciphertext leaves the Manager: ClearToCallers.  What the storage     *)
(* holds as ciphertext was written under an encrypted definition, so that  *)
(* any definition a call uses decrypts it, as long as they all agree.      *)
(***************************************************************************)

\* A ciphertext under key k comes from an encrypted definition.
SealedUnder(v, k) == v.form = "cipher" => \E d \in offered[k] : d.encrypted

\* What GetByCategory has read and not looked up yet is as the storage held it.
HitsSealed ==
    \A q \in Procs : call[q].at = "bycat.defs" =>
        \A k \in call[q].todo : SealedUnder(call[q].prefs[k].value, k)

\* Whatever lies in the cache, or is on its way to it, is in clear.
ClearCopies(s) ==
    EncryptionAgreed(s[2]) =>
        /\ cache[s] # None => cache[s].value.form # "cipher"
        /\ \A q \in Procs :
              /\ call[q].at \in {"get.fill", "set.cache"} /\ call[q].slot = s
                    => call[q].pref.value.form # "cipher"
              /\ warm[q][s] # None => warm[q][s].value.form # "cipher"

ClearInv == WriteHistory /\ HitsSealed /\ \A s \in Slot : ClearCopies(s)

\* Agreement at a step's end is agreement before it.
LEMMA AgreedBefore ==
  ASSUME TypeOK, DefsOffered, [Next]_vars, NEW k \in Keys, EncryptionAgreed(k)'
  PROVE  EncryptionAgreed(k)
  BY StepOffered DEF EncryptionAgreed

\* Stored ciphertexts come from encrypted definitions.
LEMMA StoreSealed ==
  ASSUME WriteHistory, NEW s \in Slot, store[s] # None
  PROVE  SealedUnder(store[s].value, s[2])
<1>1. PICK d \in offered[s[2]] : WrittenAs(store[s].value, d)
  BY DEF WriteHistory, Written
<1>2. store[s].value.id \in Ids
  BY PrefNotNone, RejsonType DEF WriteHistory, TypeOK
<1>3. store[s].value.form = "cipher" => EncryptValue(store[s].value.id, d).form = "cipher"
  BY <1>1, <1>2, EncryptType DEF WrittenAs, Rejson, Value
<1>. QED  BY <1>1, <1>3 DEF SealedUnder, EncryptValue, Native

\* Decryption leaves no ciphertext.
LEMMA DecryptClears ==
  ASSUME NEW v \in Value, NEW k \in Keys, SealedUnder(v, k), EncryptionAgreed(k),
         NEW d \in offered[k], DecryptValue(v, d) # None
  PROVE  DecryptValue(v, d).form # "cipher"
<1>1. CASE ~d.encrypted
  BY <1>1 DEF DecryptValue, SealedUnder, EncryptionAgreed
<1>2. CASE d.encrypted /\ ~IsString(v)
  BY <1>2 DEF DecryptValue, IsString
<1>3. CASE d.encrypted /\ IsString(v)
  BY <1>3, NativeType DEF DecryptValue, Decoded, Rejson, Native
<1>. QED  BY <1>1, <1>2, <1>3

\* So what Get, GetAll and GetByCategory make of a stored preference is in clear.
LEMMA DecryptedClear ==
  ASSUME NEW pref \in Pref, NEW k \in Keys, SealedUnder(pref.value, k), EncryptionAgreed(k),
         NEW d \in offered[k]
  PROVE  /\ Decrypted(pref, d) # None => Decrypted(pref, d).value.form # "cipher"
         /\ Refreshed(pref, d) # None => Refreshed(pref, d).value.form # "cipher"
  BY PrefNotNone, DecryptClears DEF Decrypted, Refreshed, PrefOf, Pref

\* So is a default, and so is what Set hands to the cache.
LEMMA NativeClear ==
  ASSUME NEW x, NEW d
  PROVE  /\ PrefOf(Native(x), d).value.form # "cipher"
         /\ DefaultPref(d).value.form # "cipher"
  BY DEF PrefOf, DefaultPref, Native

\* JSON makes no ciphertext.
LEMMA RejsonClear ==
  ASSUME NEW pref \in Pref, pref.value.form # "cipher"
  PROVE  RejsonPref(pref).value.form # "cipher"
  BY DEF RejsonPref, Rejson, Pref, Value

\* The hits of a GetByCategory are copies of the storage.
LEMMA StepHitsSealed ==
  ASSUME WriteHistory, HitsSealed, [Next]_vars
  PROVE  HitsSealed'
<1>. SUFFICES ASSUME NEW q \in Procs, call'[q].at = "bycat.defs", NEW k \in call'[q].todo
              PROVE  SealedUnder(call[q].prefs[k].value, k)'
  BY DEF HitsSealed
<1>0. TypeOK' /\ TypeOK /\ DefsOffered
  BY StepTypes DEF WriteHistory
<1>1. k \in Keys
  BY <1>0, CallFields DEF TypeOK
<1>2. offered[k] \subseteq offered'[k]
  BY <1>0, <1>1, StepOffered
<1>3. ASSUME call'[q] = call[q] PROVE SealedUnder(call'[q].prefs[k].value, k)
  BY <1>3 DEF HitsSealed
<1>4. ASSUME NEW op, NEW err, NEW prefs, Return(q, op, err, prefs) PROVE FALSE
  BY <1>0, <1>4 DEF Return, Idle, TypeOK
<1>5. ASSUME NEW c, Proceed(q, c) PROVE call'[q] = c
  BY <1>0, <1>5 DEF Proceed, TypeOK
<1>6. ASSUME NEW u, NEW l, NEW x, NEW d,
             \/ GetStart(q, u, l) \/ DelStart(q, u, l) \/ SetStart(q, u, l, x)
             \/ AllStart(q, u) \/ DefinePreference(q, d)
      PROVE  FALSE
  <2>1. ~GetStart(q, u, l)
    BY <1>4, <1>5 DEF GetStart, Refuse, Fail
  <2>2. ~DelStart(q, u, l) /\ ~SetStart(q, u, l, x)
    BY <1>4, <1>5 DEF DelStart, SetStart, Refuse, Fail
  <2>3. ~AllStart(q, u) /\ ~DefinePreference(q, d)
    BY <1>4, <1>5 DEF AllStart, DefinePreference, Fail
  <2>. QED  BY <1>6, <2>1, <2>2, <2>3
<1>7. ASSUME NEW u \in Users \cup {Empty}, NEW cat, ByCategoryStart(q, u, cat)
      PROVE  SealedUnder(call'[q].prefs[k].value, k)
  <2>. DEFINE hits == {l \in Keys : store[<<u, l>>] # None /\ store[<<u, l>>].cat = cat}
              prefs == [l \in Keys |-> IF l \in hits THEN store[<<u, l>>] ELSE None]
  <2>1. u # Empty /\ call'[q] = [at |-> "bycat.defs", todo |-> hits, prefs |-> prefs]
    BY <1>4, <1>5, <1>7 DEF ByCategoryStart, Fail
  <2>2. k \in hits /\ call'[q].prefs[k] = store[<<u, k>>] /\ store[<<u, k>>] # None
    BY <1>1, <2>1
  <2>3. <<u, k>> \in Slot
    BY <1>1, <2>1 DEF Slot
  <2>. QED  BY <2>2, <2>3, StoreSealed
<1>8. ASSUME NEW l \in Keys, ByCategoryDef(q, l)
      PROVE  SealedUnder(call'[q].prefs[k].value, k)
  <2>1. PICK pref : call'[q] = [at |-> "bycat.defs", todo |-> call[q].todo \ {l},
                                prefs |-> [call[q].prefs EXCEPT ![l] = pref]]
    BY <1>4, <1>5, <1>8 DEF ByCategoryDef, Fail
  <2>2. k \in call[q].todo /\ k # l /\ call[q].prefs \in PrefMap /\ call[q].at = "bycat.defs"
    BY <1>0, <1>8, <2>1, CallFields DEF ByCategoryDef, TypeOK
  <2>3. call'[q].prefs[k] = call[q].prefs[k]
    BY <1>1, <2>1, <2>2 DEF PrefMap
  <2>. QED  BY <2>2, <2>3 DEF HitsSealed
<1>9. ASSUME Continue(q) PROVE \E l \in Keys : ByCategoryDef(q, l)
  <2>1. ~GetCache(q) /\ ~GetStorage(q) /\ ~GetFill(q)
    BY <1>4, <1>5 DEF GetCache, GetStorage, GetFill, Fail
  <2>2. ~SetStorage(q) /\ ~SetCache(q) /\ ~DelStorage(q) /\ ~DelCache(q) /\ ~AllStorage(q)
    BY <1>4, <1>5 DEF SetStorage, SetCache, DelStorage, DelCache, AllStorage, Fail
  <2>. QED  BY <1>9, <2>1, <2>2 DEF Continue
<1>10. ~Crash
  BY DEF Crash, Idle
<1>11. CASE SealedUnder(call'[q].prefs[k].value, k)
  BY <1>2, <1>11 DEF SealedUnder
<1>. QED  BY <1>0, <1>3, <1>6, <1>7, <1>8, <1>9, <1>10, <1>11, OwnSteps DEF Start

\* A copy for the cache is made by Get and Set only, from the storage or from the caller.
LEMMA CallCopies ==
  ASSUME TypeOK, [Next]_vars, NEW q \in Procs, call'[q] # call[q],
         call'[q].at \in {"get.fill", "set.cache"}
  PROVE  \/ /\ call[q].at = "get.storage" /\ call'[q].slot = call[q].slot
            /\ store[call[q].slot] # None
            /\ call'[q].pref = Decrypted(store[call[q].slot], call[q].def)
            /\ call'[q].pref # None
         \/ /\ call[q].at = "set.storage" /\ call'[q].slot = call[q].slot
            /\ call'[q].pref = PrefOf(Native(call[q].x), call[q].def)
<1>1. ASSUME NEW op, NEW err, NEW prefs, Return(q, op, err, prefs) PROVE FALSE
  BY <1>1 DEF Return, Idle, TypeOK
<1>2. ASSUME NEW c, Proceed(q, c) PROVE call'[q] = c
  BY <1>2 DEF Proceed, TypeOK
<1>3. ASSUME NEW u, NEW k, NEW x, NEW cat, NEW d
      PROVE  /\ ~GetStart(q, u, k) /\ ~DelStart(q, u, k) /\ ~SetStart(q, u, k, x)
             /\ ~AllStart(q, u) /\ ~ByCategoryStart(q, u, cat) /\ ~DefinePreference(q, d)
  <2>1. ~GetStart(q, u, k) /\ ~DelStart(q, u, k)
    BY <1>1, <1>2 DEF GetStart, DelStart, Refuse, Fail
  <2>2. ~SetStart(q, u, k, x) /\ ~AllStart(q, u)
    BY <1>1, <1>2 DEF SetStart, AllStart, Refuse, Fail
  <2>3. ~ByCategoryStart(q, u, cat) /\ ~DefinePreference(q, d)
    BY <1>1, <1>2 DEF ByCategoryStart, DefinePreference, Fail
  <2>. QED  BY <2>1, <2>2, <2>3
<1>4. ~Start(q)
  BY <1>3 DEF Start
<1>5. ASSUME Continue(q) PROVE GetStorage(q) \/ SetStorage(q)
  <2>1. ~GetCache(q) /\ ~GetFill(q) /\ ~SetCache(q)
    BY <1>1, <1>2 DEF GetCache, GetFill, SetCache, Fail
  <2>2. ~DelStorage(q) /\ ~DelCache(q) /\ ~AllStorage(q) /\ \A k \in Keys : ~ByCategoryDef(q, k)
    BY <1>1, <1>2 DEF DelStorage, DelCache, AllStorage, ByCategoryDef, Fail
  <2>. QED  BY <1>5, <2>1, <2>2 DEF Continue
<1>6. CASE GetStorage(q)
  <2>. DEFINE pref == Decrypted(store[call[q].slot], call[q].def)
  <2>1. /\ call[q].at = "get.storage" /\ store[call[q].slot] # None /\ pref # None
        /\ call'[q] = [at |-> "get.fill", slot |-> call[q].slot, pref |-> pref]
    BY <1>1, <1>2, <1>6 DEF GetStorage, Fail
  <2>. HIDE DEF pref
  <2>2. call'[q].slot = call[q].slot /\ call'[q].pref = pref
    BY <2>1
  <2>. QED  BY <2>1, <2>2 DEF pref
<1>7. CASE SetStorage(q)
  <2>. DEFINE pref == PrefOf(Native(call[q].x), call[q].def)
  <2>1. /\ call[q].at = "set.storage"
        /\ call'[q] = [at |-> "set.cache", slot |-> call[q].slot, pref |-> pref]
    BY <1>1, <1>2, <1>7 DEF SetStorage, Fail
  <2>. HIDE DEF pref
  <2>2. call'[q].slot = call[q].slot /\ call'[q].pref = pref
    BY <2>1
  <2>. QED  BY <2>1, <2>2 DEF pref
<1>8. ~Crash
  BY DEF Crash, Idle
<1>. QED  BY <1>4, <1>5, <1>6, <1>7, <1>8, OwnSteps

\* What GetAll returns: for each key the refreshed storage, or the default.
LEMMA AllReturns ==
  ASSUME TypeOK, DefsOffered, NEW p \in Procs, AllStorage(p)
  PROVE  \/ UNCHANGED warm /\ \E err : err # "nil" /\ Fail(p, "getall", err)
         \/ \E all \in [Keys -> Pref \cup {None}] :
               /\ Return(p, "getall", "nil", all)
               /\ warm' = IF HasCache THEN [warm EXCEPT ![p] = ToWarm(call[p].user, all)]
                          ELSE warm
               /\ \A k \in Keys : all[k] = None <=> call[p].defs[k] = None
               /\ \A k \in Keys : all[k] # None =>
                     \E d \in offered[k] :
                        \/ store[<<call[p].user, k>>] = None /\ all[k] = DefaultPref(d)
                        \/ /\ store[<<call[p].user, k>>] # None
                           /\ all[k] = Refreshed(store[<<call[p].user, k>>], d)
<1>. DEFINE u == call[p].user
            ds == call[p].defs
            found == {k \in Keys : ds[k] # None /\ store[<<u, k>>] # None}
            bad == {k \in found : Refreshed(store[<<u, k>>], ds[k]) = None}
            all == [k \in Keys |-> IF ds[k] = None THEN None
                                   ELSE IF k \in found THEN Refreshed(store[<<u, k>>], ds[k])
                                   ELSE DefaultPref(ds[k])]
<1>1. /\ u \in Users /\ ds \in [Keys -> Registered \cup {None}]
      /\ \A k \in Keys : ds[k] # None => ds[k] \in offered[k]
  BY CallFields DEF AllStorage, TypeOK, DefsOffered
<1>2. \/ UNCHANGED warm /\ \E err : err # "nil" /\ Fail(p, "getall", err)
      \/ /\ bad = {} /\ Return(p, "getall", "nil", all)
         /\ warm' = IF HasCache THEN [warm EXCEPT ![p] = ToWarm(u, all)] ELSE warm
  BY DEF AllStorage
<1>3. ASSUME bad = {}, NEW k \in Keys, ds[k] # None
      PROVE  /\ all[k] \in Pref
             /\ \/ store[<<u, k>>] = None /\ all[k] = DefaultPref(ds[k])
                \/ store[<<u, k>>] # None /\ all[k] = Refreshed(store[<<u, k>>], ds[k])
  <2>1. ds[k] \in Registered
    BY <1>1, <1>3
  <2>2. CASE k \in found
    <3>1. all[k] = Refreshed(store[<<u, k>>], ds[k]) /\ all[k] # None /\ store[<<u, k>>] # None
      BY <1>3, <2>2
    <3>2. store[<<u, k>>] \in Pref
      BY <1>1, <3>1 DEF TypeOK, Slot
    <3>. HIDE DEF all
    <3>. QED  BY <2>1, <3>1, <3>2, RefreshedType
  <2>3. CASE k \notin found
    BY <1>3, <2>1, <2>3, DefaultPrefType
  <2>. QED  BY <2>2, <2>3
<1>4. \A k \in Keys : ds[k] = None => all[k] = None
  OBVIOUS
<1>. HIDE DEF found, bad
<1>5. bad = {} => all \in [Keys -> Pref \cup {None}]
  BY <1>3, <1>4
<1>6. bad = {} => \A k \in Keys : all[k] = None <=> ds[k] = None
  BY <1>3, <1>4, PrefNotNone
<1>7. bad = {} => \A k \in Keys : all[k] # None =>
         \E d \in offered[k] :
            \/ store[<<u, k>>] = None /\ all[k] = DefaultPref(d)
            \/ store[<<u, k>>] # None /\ all[k] = Refreshed(store[<<u, k>>], d)
  BY <1>1, <1>3, <1>4
<1>. HIDE DEF all
<1>. QED  BY <1>2, <1>5, <1>6, <1>7

\* The preferences of a GetAll are in clear.
LEMMA AllClear ==
  ASSUME ClearInv, NEW u \in Users, NEW k \in Keys, EncryptionAgreed(k), NEW pref, NEW d \in offered[k],
         pref # None,
         \/ pref = DefaultPref(d)
         \/ store[<<u, k>>] # None /\ pref = Refreshed(store[<<u, k>>], d)
  PROVE  pref.value.form # "cipher"
<1>1. CASE pref = DefaultPref(d)
  BY <1>1, NativeClear
<1>2. CASE store[<<u, k>>] # None /\ pref = Refreshed(store[<<u, k>>], d)
  <2>1. <<u, k>> \in Slot
    BY DEF Slot
  <2>2. store[<<u, k>>] \in Pref
    BY <1>2, <2>1 DEF ClearInv, WriteHistory, TypeOK
  <2>3. SealedUnder(store[<<u, k>>].value, k)
    BY <1>2, <2>1, StoreSealed DEF ClearInv
  <2>. QED  BY <1>2, <2>2, <2>3, DecryptedClear
<1>. QED  BY <1>1, <1>2

\* An entry that a step leaves in the cache is in clear.
LEMMA CacheClear ==
  ASSUME ClearInv, [Next]_vars, NEW s \in Slot, EncryptionAgreed(s[2]), cache'[s] # None
  PROVE  cache'[s].value.form # "cipher"
<1>1. TypeOK /\ ClearCopies(s)
  BY DEF ClearInv, WriteHistory
<1>2. CASE cache'[s] = cache[s]
  BY <1>1, <1>2 DEF ClearCopies
<1>3. ASSUME NEW p \in Procs, call[p].at \in {"get.fill", "set.cache"}, call[p].slot = s,
             cache'[s] = RejsonPref(call[p].pref)
      PROVE  cache'[s].value.form # "cipher"
  <2>1. call[p].pref \in Pref
    BY <1>1, <1>3, CallFields DEF TypeOK
  <2>. QED  BY <1>1, <1>3, <2>1, RejsonClear DEF ClearCopies
<1>4. ASSUME NEW p \in Procs, warm[p][s] # None, cache'[s] = RejsonPref(warm[p][s])
      PROVE  cache'[s].value.form # "cipher"
  <2>1. warm[p][s] \in Pref
    BY <1>1, <1>4 DEF TypeOK
  <2>. QED  BY <1>1, <1>4, <2>1, RejsonClear DEF ClearCopies
<1>. QED  BY <1>1, <1>2, <1>3, <1>4, CacheChanges

\* So is what a step leaves for a warming goroutine.
LEMMA WarmClear ==
  ASSUME ClearInv, [Next]_vars, NEW s \in Slot, EncryptionAgreed(s[2]), NEW q \in Procs,
         warm'[q][s] # None
  PROVE  warm'[q][s].value.form # "cipher"
<1>1. TypeOK /\ ClearCopies(s) /\ DefsOffered /\ s[2] \in Keys /\ s[1] \in Users /\ s = <<s[1], s[2]>>
  BY DEF ClearInv, WriteHistory, Slot
<1>2. CASE warm'[q][s] = warm[q][s]
  BY <1>1, <1>2 DEF ClearCopies
<1>3. ASSUME NEW p \in Procs, Start(p) PROVE UNCHANGED warm
  BY <1>3 DEF Start, GetStart, DelStart, SetStart, AllStart, ByCategoryStart, DefinePreference
<1>4. ASSUME NEW p \in Procs, Continue(p) PROVE UNCHANGED warm \/ AllStorage(p)
  BY <1>4 DEF Continue, GetCache, GetStorage, GetFill, SetStorage, SetCache, DelStorage,
         DelCache, ByCategoryDef
<1>5. ASSUME NEW p \in Procs, AllStorage(p), warm'[q][s] # warm[q][s]
      PROVE  warm'[q][s].value.form # "cipher"
  <2>1. PICK all \in [Keys -> Pref \cup {None}] :
           /\ warm' = IF HasCache THEN [warm EXCEPT ![p] = ToWarm(call[p].user, all)] ELSE warm
           /\ \A k \in Keys : all[k] # None =>
                 \E d \in offered[k] :
                    \/ all[k] = DefaultPref(d)
                    \/ /\ store[<<call[p].user, k>>] # None
                       /\ all[k] = Refreshed(store[<<call[p].user, k>>], d)
    BY <1>1, <1>5, AllReturns
  <2>2. p = q /\ warm'[q][s] = ToWarm(call[p].user, all)[s]
    BY <1>1, <1>5, <2>1 DEF TypeOK
  <2>3. call[p].user = s[1] /\ warm'[q][s] = all[s[2]]
    BY <2>2 DEF ToWarm
  <2>4. PICK d \in offered[s[2]] :
           \/ all[s[2]] = DefaultPref(d)
           \/ store[<<s[1], s[2]>>] # None /\ all[s[2]] = Refreshed(store[<<s[1], s[2]>>], d)
    BY <1>1, <2>1, <2>3
  <2>. QED  BY <1>1, <2>3, <2>4, AllClear
<1>6. ASSUME NEW p \in Procs, NEW t \in Slot, WarmStep(p, t) PROVE warm'[q][s] = warm[q][s]
  BY <1>1, <1>6 DEF WarmStep, TypeOK
<1>7. ASSUME NEW p \in Procs, NEW t \in Slot, NEW x \in Ids, CallerWrites(p, t, x),
             warm'[q][s] # warm[q][s]
      PROVE  warm'[q][s].value.form # "cipher"
  <2>. DEFINE written == [warm[p][t] EXCEPT !.value = Native(x)]
  <2>1. warm[p][t] \in Pref
    BY <1>1, <1>7 DEF CallerWrites, TypeOK
  <2>2. written.value = Native(x)
    BY <2>1 DEF Pref
  <2>. HIDE DEF written
  <2>3. warm' = [warm EXCEPT ![p] = [warm[p] EXCEPT ![t] = written]]
    BY <1>1, <1>7 DEF CallerWrites, TypeOK, written
  <2>4. warm'[q][s] = written
    BY <1>1, <1>7, <2>3 DEF TypeOK
  <2>. QED  BY <2>2, <2>4 DEF Native
<1>8. CASE (\E t \in Slot : Expire(t)) \/ UNCHANGED vars
  BY <1>2, <1>8 DEF Expire, vars
<1>9. ~Crash
  BY DEF Crash, NoWarm
<1>. QED  BY <1>2, <1>3, <1>4, <1>5, <1>6, <1>7, <1>8, <1>9 DEF Next

\* The copies of a slot stay in clear.
LEMMA StepClearCopies ==
  ASSUME ClearInv, [Next]_vars, NEW s \in Slot
  PROVE  ClearCopies(s)'
<1>. SUFFICES ASSUME EncryptionAgreed(s[2])'
              PROVE  /\ cache'[s] # None => cache'[s].value.form # "cipher"
                     /\ \A q \in Procs :
                           /\ call'[q].at \in {"get.fill", "set.cache"} /\ call'[q].slot = s
                                 => call'[q].pref.value.form # "cipher"
                           /\ warm'[q][s] # None => warm'[q][s].value.form # "cipher"
  BY DEF ClearCopies
<1>1. TypeOK /\ DefsOffered /\ WriteHistory /\ ClearCopies(s) /\ s[2] \in Keys
  BY DEF ClearInv, WriteHistory, Slot
<1>2. EncryptionAgreed(s[2])
  BY <1>1, AgreedBefore
<1>3. ASSUME NEW q \in Procs, call'[q].at \in {"get.fill", "set.cache"}, call'[q].slot = s
      PROVE  call'[q].pref.value.form # "cipher"
  <2>1. CASE call'[q] = call[q]
    BY <1>1, <1>2, <1>3, <2>1 DEF ClearCopies
  <2>2. CASE /\ call[q].at = "get.storage" /\ store[s] # None
             /\ call[q].slot = s /\ call'[q].pref = Decrypted(store[s], call[q].def)
             /\ call'[q].pref # None
    <3>1. store[s] \in Pref
      BY <1>1, <2>2 DEF TypeOK
    <3>2. SealedUnder(store[s].value, s[2])
      BY <1>1, <2>2, StoreSealed
    <3>3. call[q].def \in offered[s[2]]
      BY <1>1, <2>2 DEF DefsOffered
    <3>. QED  BY <1>1, <1>2, <2>2, <3>1, <3>2, <3>3, DecryptedClear
  <2>3. CASE call'[q].pref = PrefOf(Native(call[q].x), call[q].def)
    BY <2>3, NativeClear
  <2>. QED  BY <1>1, <1>3, <2>1, <2>2, <2>3, CallCopies
<1>. QED  BY <1>2, <1>3, CacheClear, WarmClear

\* What a step of its own puts into a goroutine's hand for key k is in clear.
NothingSealed(p, k) ==
    InHand(p)'[k] \notin {None, InHand(p)[k]} => InHand(p)'[k].value.form # "cipher"

\* A call that returns hands over its result, one that goes on nothing.
LEMMA HandOver ==
  ASSUME TypeOK, NEW p \in Procs
  PROVE  /\ \A op, err, prefs : Return(p, op, err, prefs) => InHand(p)' = prefs
         /\ \A op, err : Fail(p, op, err) => InHand(p)' = NoPrefs
         /\ \A c : Proceed(p, c) /\ c.at # "bycat.defs" => InHand(p)' = NoPrefs
<1>1. ASSUME NEW op, NEW err, NEW prefs, Return(p, op, err, prefs) PROVE InHand(p)' = prefs
  BY <1>1 DEF Return, InHand, Idle, TypeOK
<1>2. ASSUME NEW op, NEW err, Fail(p, op, err) PROVE InHand(p)' = NoPrefs
  BY <1>1, <1>2 DEF Fail
<1>3. ASSUME NEW c, Proceed(p, c), c.at # "bycat.defs" PROVE InHand(p)' = NoPrefs
  BY <1>3 DEF Proceed, InHand, NoResult, TypeOK
<1>. QED  BY <1>1, <1>2, <1>3

\* Of a single preference, and of none.
LEMMA OnlyClear ==
  ASSUME NEW p \in Procs, NEW k \in Keys, NEW l \in Keys, NEW pref,
         InHand(p)' \in {NoPrefs, Only(l, pref)}, l = k => pref.value.form # "cipher"
  PROVE  NothingSealed(p, k)
  BY DEF NothingSealed, NoPrefs, Only

LEMMA NothingClear ==
  ASSUME NEW p \in Procs, NEW k \in Keys, InHand(p)' = NoPrefs
  PROVE  NothingSealed(p, k)
  BY DEF NothingSealed, NoPrefs

\* Get returns what is cached, what it decrypted, or a default.
LEMMA GetClear ==
  ASSUME ClearInv, NEW k \in Keys, EncryptionAgreed(k), NEW p \in Procs,
         GetCache(p) \/ GetStorage(p) \/ GetFill(p)
  PROVE  NothingSealed(p, k)
<1>. DEFINE s == call[p].slot
            d == call[p].def
<1>1. TypeOK /\ DefsOffered /\ WriteHistory /\ s \in Slot /\ s[2] \in Keys /\ ClearCopies(s)
  BY CallFields DEF GetCache, GetStorage, GetFill, ClearInv, WriteHistory, TypeOK, Slot
<1>2. CASE GetCache(p)
  <2>1. \/ cache[s] # None /\ InHand(p)' = Only(s[2], cache[s])
        \/ InHand(p)' = Only(s[2], DefaultPref(d))
        \/ InHand(p)' = NoPrefs
    BY <1>1, <1>2, HandOver DEF GetCache
  <2>2. cache[s] # None /\ s[2] = k => cache[s].value.form # "cipher"
    BY <1>1 DEF ClearCopies
  <2>. QED  BY <1>1, <2>1, <2>2, NativeClear, OnlyClear, NothingClear
<1>3. CASE GetStorage(p)
  <2>. DEFINE pref == Decrypted(store[s], d)
  <2>1. \/ InHand(p)' = Only(s[2], DefaultPref(d))
        \/ store[s] # None /\ pref # None /\ InHand(p)' = Only(s[2], pref)
        \/ InHand(p)' = NoPrefs
    BY <1>1, <1>3, HandOver DEF GetStorage
  <2>2. ASSUME store[s] # None, pref # None, s[2] = k PROVE pref.value.form # "cipher"
    <3>1. store[s] \in Pref
      BY <1>1, <2>2 DEF TypeOK
    <3>2. SealedUnder(store[s].value, s[2])
      BY <1>1, <2>2, StoreSealed
    <3>3. d \in offered[s[2]]
      BY <1>1, <1>3 DEF DefsOffered, GetStorage
    <3>. QED  BY <1>1, <2>2, <3>1, <3>2, <3>3, DecryptedClear
  <2>. HIDE DEF pref
  <2>. QED  BY <1>1, <2>1, <2>2, NativeClear, OnlyClear, NothingClear
<1>4. CASE GetFill(p)
  <2>1. InHand(p)' = Only(s[2], call[p].pref)
    BY <1>1, <1>4, HandOver DEF GetFill
  <2>2. s[2] = k => call[p].pref.value.form # "cipher"
    BY <1>1, <1>4 DEF ClearCopies, GetFill
  <2>. QED  BY <1>1, <2>1, <2>2, OnlyClear
<1>. QED  BY <1>2, <1>3, <1>4

\* GetByCategory decrypts what it looks up.
LEMMA ByCategoryClear ==
  ASSUME ClearInv, NEW k \in Keys, EncryptionAgreed(k), defs[k] # None, NEW p \in Procs,
         \/ \E u \in Users \cup {Empty}, cat \in Categories \cup {Empty} : ByCategoryStart(p, u, cat)
         \/ \E l \in Keys : ByCategoryDef(p, l)
  PROVE  NothingSealed(p, k)
<1>1. TypeOK /\ DefsOffered
  BY DEF ClearInv, WriteHistory
<1>2. ASSUME NEW u \in Users \cup {Empty}, NEW cat, ByCategoryStart(p, u, cat)
      PROVE  NothingSealed(p, k)
  <2>. DEFINE hits == {l \in Keys : store[<<u, l>>] # None /\ store[<<u, l>>].cat = cat}
              prefs == [l \in Keys |-> IF l \in hits THEN store[<<u, l>>] ELSE None]
              c == [at |-> "bycat.defs", todo |-> hits, prefs |-> prefs]
  <2>1. (\E err : Fail(p, "bycategory", err)) \/ Proceed(p, c)
    BY <1>2 DEF ByCategoryStart
  <2>2. ASSUME Proceed(p, c) PROVE InHand(p)' = NoPrefs
    <3>1. call'[p] = c
      BY <1>1, <2>2 DEF Proceed, TypeOK
    <3>2. InHand(p)' = [l \in Keys |-> IF l \in hits THEN None ELSE prefs[l]]
      BY <3>1 DEF InHand
    <3>. QED  BY <3>2 DEF NoPrefs
  <2>. QED  BY <1>1, <2>1, <2>2, HandOver, NothingClear
<1>3. ASSUME NEW l \in Keys, ByCategoryDef(p, l) PROVE NothingSealed(p, k)
  <2>. DEFINE pref == IF defs[l] = None THEN call[p].prefs[l]
                      ELSE Refreshed(call[p].prefs[l], defs[l])
              prefs == [call[p].prefs EXCEPT ![l] = pref]
              todo == call[p].todo \ {l}
              c == [at |-> "bycat.defs", todo |-> todo, prefs |-> prefs]
  <2>1. /\ call[p].at = "bycat.defs" /\ l \in call[p].todo /\ call[p].prefs \in PrefMap
        /\ call[p].prefs[l] \in Pref
    BY <1>1, <1>3, CallFields DEF ByCategoryDef, TypeOK
  <2>2. \/ \E err : Fail(p, "bycategory", err)
        \/ pref # None /\ todo = {} /\ Return(p, "bycategory", "nil", prefs)
        \/ pref # None /\ Proceed(p, c)
    BY <1>3 DEF ByCategoryDef
  <2>3. InHand(p)[k] = IF k \in call[p].todo THEN None ELSE call[p].prefs[k]
    BY <2>1 DEF InHand
  <2>4. prefs[k] = IF k = l THEN pref ELSE call[p].prefs[k]
    BY <2>1 DEF PrefMap
  <2>5. ASSUME k = l, pref # None PROVE pref.value.form # "cipher"
    <3>1. SealedUnder(call[p].prefs[k].value, k)
      BY <2>1, <2>5 DEF ClearInv, HitsSealed
    <3>2. defs[k] \in offered[k] /\ pref = Refreshed(call[p].prefs[k], defs[k])
      BY <1>1, <2>5 DEF DefsOffered
    <3>. QED  BY <2>1, <2>5, <3>1, <3>2, DecryptedClear
  <2>. HIDE DEF pref, prefs
  <2>6. ASSUME pref # None, todo = {}, Return(p, "bycategory", "nil", prefs)
        PROVE  NothingSealed(p, k)
    <3>1. InHand(p)'[k] = prefs[k]
      BY <1>1, <2>6, HandOver
    <3>. QED  BY <2>3, <2>4, <2>5, <2>6, <3>1 DEF NothingSealed
  <2>7. ASSUME pref # None, Proceed(p, c) PROVE NothingSealed(p, k)
    <3>1. call'[p] = c
      BY <1>1, <2>7 DEF Proceed, TypeOK
    <3>2. InHand(p)'[k] = IF k \in todo THEN None ELSE prefs[k]
      BY <3>1 DEF InHand
    <3>. QED  BY <2>3, <2>4, <2>5, <2>7, <3>2 DEF NothingSealed
  <2>. QED  BY <1>1, <2>2, <2>6, <2>7, HandOver, NothingClear
<1>. QED  BY <1>2, <1>3

\* Every other step hands over nothing.
LEMMA StepHands ==
  ASSUME ClearInv, [Next]_vars, NEW k \in Keys, EncryptionAgreed(k), defs[k] # None,
         NEW p \in Procs
  PROVE  NothingSealed(p, k)
<1>1. TypeOK /\ DefsOffered
  BY DEF ClearInv, WriteHistory
<1>2. CASE call'[p] = call[p] /\ res'[p] = res[p]
  BY <1>2 DEF NothingSealed, InHand
<1>3. CASE Start(p)
  <2>1. ASSUME NEW u, NEW l, GetStart(p, u, l) \/ DelStart(p, u, l) PROVE InHand(p)' = NoPrefs
    BY <1>1, <2>1, HandOver DEF GetStart, DelStart, Refuse
  <2>2. ASSUME NEW u, NEW l, NEW x, SetStart(p, u, l, x) PROVE InHand(p)' = NoPrefs
    BY <1>1, <2>2, HandOver DEF SetStart, Refuse
  <2>3. ASSUME NEW u, AllStart(p, u) PROVE InHand(p)' = NoPrefs
    BY <1>1, <2>3, HandOver DEF AllStart
  <2>4. ASSUME NEW d, DefinePreference(p, d) PROVE InHand(p)' = NoPrefs
    BY <1>1, <2>4, HandOver DEF DefinePreference
  <2>. QED  BY <1>3, <2>1, <2>2, <2>3, <2>4, NothingClear, ByCategoryClear DEF Start
<1>4. CASE Continue(p)
  <2>1. CASE SetStorage(p) \/ SetCache(p)
    <3>1. InHand(p)' = NoPrefs
      BY <1>1, <2>1, HandOver DEF SetStorage, SetCache, Fail
    <3>. QED  BY <3>1, NothingClear
  <2>2. CASE DelStorage(p) \/ DelCache(p)
    <3>1. InHand(p)' = NoPrefs
      BY <1>1, <2>2, HandOver DEF DelStorage, DelCache
    <3>. QED  BY <3>1, NothingClear
  <2>3. CASE AllStorage(p)
    <3>1. CASE \E err : Fail(p, "getall", err)
      BY <1>1, <3>1, HandOver, NothingClear
    <3>2. ASSUME NEW all, Return(p, "getall", "nil", all),
                 \A l \in Keys : all[l] # None =>
                    \E d \in offered[l] :
                       \/ all[l] = DefaultPref(d)
                       \/ /\ store[<<call[p].user, l>>] # None
                          /\ all[l] = Refreshed(store[<<call[p].user, l>>], d)
          PROVE  NothingSealed(p, k)
      <4>1. InHand(p)'[k] = all[k] /\ call[p].user \in Users
        BY <1>1, <2>3, <3>2, HandOver, CallFields DEF AllStorage, TypeOK
      <4>. QED  BY <3>2, <4>1, AllClear DEF NothingSealed
    <3>. QED  BY <1>1, <2>3, <3>1, <3>2, AllReturns
  <2>. QED  BY <1>4, <2>1, <2>2, <2>3, GetClear, ByCategoryClear DEF Continue
<1>5. CASE Crash
  <2>1. call'[p] = Idle /\ res'[p] = NoResult
    BY <1>5 DEF Crash
  <2>2. InHand(p)' = NoPrefs
    BY <2>1 DEF InHand, Idle, NoResult
  <2>. QED  BY <2>2, NothingClear
<1>. QED  BY <1>1, <1>2, <1>3, <1>4, <1>5, OwnSteps

\* As long as a key's definitions agree on encryption, no call returns its ciphertext and
\* the cache holds none, with any number of goroutines, keys, failures and restarts;
\* GetByCategory excepted for a key it finds undefined.
THEOREM CallersSeeClear == Spec => ClearToCallers
<1>1. Init => ClearInv
  <2>1. Init => HitsSealed /\ \A s \in Slot : ClearCopies(s)
    BY DEF Init, HitsSealed, ClearCopies, Idle, NoWarm
  <2>. QED  BY <2>1, InitWritten DEF ClearInv
<1>2. ClearInv /\ [Next]_vars => ClearInv'
  BY StepWriteHistory, StepHitsSealed, StepClearCopies DEF ClearInv
<1>3. ASSUME ClearInv, [Next]_vars, NEW k \in Keys, EncryptionAgreed(k)
      PROVE  /\ \A u \in Users : cache'[<<u, k>>] # None => cache'[<<u, k>>].value.form # "cipher"
             /\ \A p \in Procs : defs[k] # None => NothingSealed(p, k)
  <2>1. \A u \in Users : <<u, k>> \in Slot /\ <<u, k>>[2] = k
    BY DEF Slot
  <2>. QED  BY <1>3, <2>1, CacheClear, StepHands
<1>4. ClearInv /\ [Next]_vars =>
        [\A k \in Keys : EncryptionAgreed(k) =>
          /\ \A u \in Users : cache'[<<u, k>>] # None => cache'[<<u, k>>].value.form # "cipher"
          /\ \A p \in Procs : defs[k] # None /\ InHand(p)'[k] \notin {None, InHand(p)[k]}
                             => InHand(p)'[k].value.form # "cipher"]_vars
  BY <1>3 DEF NothingSealed
<1>. QED  BY <1>1, <1>2, <1>4, PTL DEF Spec, ClearToCallers
=============================================================================
