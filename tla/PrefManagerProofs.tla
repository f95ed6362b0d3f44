-------------------------- MODULE PrefManagerProofs --------------------------
(***************************************************************************)
(* Theorems about PrefManager for every set of users, keys, payloads,      *)
(* definitions and goroutines, every backend and every failure mode: the   *)
(* types, and that the cache is in step with the storage.                  *)
(***************************************************************************)
EXTENDS PrefManager, TLAPS

USE DEF Slot

(***************************************************************************)
(* The operators on values and preferences: what they return, and that none *)
(* of them changes which payload a value stands for.                       *)
(***************************************************************************)

\* A payload as its caller passed it is a value.
LEMMA NativeType == ASSUME NEW x \in Ids PROVE Native(x) \in Value /\ Native(x).id = x
  BY DEF Native, Value, Forms

\* JSON keeps a payload, and None is no value.
LEMMA RejsonType ==
  ASSUME NEW v \in Value
  PROVE  Rejson(v) \in Value /\ Rejson(v).id = v.id /\ v.id \in Ids /\ v # None
  BY NoneAssumption DEF Rejson, Value, Forms

\* Encryption fails or keeps the payload.
LEMMA EncryptType ==
  ASSUME NEW x \in Ids, NEW d, EncryptValue(x, d) # None
  PROVE  EncryptValue(x, d) \in Value /\ EncryptValue(x, d).id = x
  BY NativeType DEF EncryptValue, Value, Forms

\* A decoded plaintext is a value, of the same payload.
LEMMA DecodedType ==
  ASSUME NEW x \in Ids, NEW t
  PROVE  Decoded(x, t) \in Value /\ Decoded(x, t).id = x
  BY NativeType, RejsonType DEF Decoded, Value, Forms

\* Decryption fails or keeps the payload.
LEMMA DecryptType ==
  ASSUME NEW v \in Value, NEW d, DecryptValue(v, d) # None
  PROVE  DecryptValue(v, d) \in Value /\ DecryptValue(v, d).id = v.id
  BY DecodedType, RejsonType DEF DecryptValue

\* A registered definition has a default, a supported type and a category.
LEMMA RegisteredType ==
  ASSUME NEW d \in Registered
  PROVE  /\ d.dflt \in Ids /\ d.type \in Types /\ d.cat \in Categories \cup {Empty}
         /\ d.key \in Keys /\ d # None
  BY DefinitionAssumption, NoneAssumption DEF Registered, DefinitionShape

\* A value under a registered definition makes a preference.
LEMMA PrefOfType ==
  ASSUME NEW d \in Registered, NEW v \in Value
  PROVE  PrefOf(v, d) \in Pref /\ PrefOf(v, d).value.id = v.id
  BY RegisteredType, NativeType DEF PrefOf, Pref

\* The default of a definition is a preference.
LEMMA DefaultPrefType ==
  ASSUME NEW d \in Registered
  PROVE  DefaultPref(d) \in Pref /\ DefaultPref(d).value.id = d.dflt
  BY RegisteredType, NativeType, PrefOfType DEF DefaultPref

\* None is no preference.
LEMMA PrefNotNone == ASSUME NEW pref \in Pref PROVE pref # None /\ pref.value \in Value
  BY NoneAssumption DEF Pref

\* A preference survives JSON with its payload.
LEMMA RejsonPrefType ==
  ASSUME NEW pref \in Pref
  PROVE  RejsonPref(pref) \in Pref /\ RejsonPref(pref).value.id = pref.value.id
  BY RejsonType DEF RejsonPref, Pref

\* A storage write leaves the slot with the payload written.
LEMMA UpsertedType ==
  ASSUME NEW old \in Pref \cup {None}, NEW pref \in Pref
  PROVE  Upserted(old, pref) \in Pref /\ Upserted(old, pref).value.id = pref.value.id
  BY RejsonPrefType, RejsonType DEF Upserted, Pref

(***************************************************************************)
(* Calls: what a call in progress carries, by the step it has reached.     *)
(***************************************************************************)

\* Each kind of call carries slots, definitions, payloads and preferences.
LEMMA CallFields ==
  ASSUME NEW c \in Calls
  PROVE  /\ c.at \in {"get.cache", "get.storage"} => c.slot \in Slot /\ c.def \in Registered
         /\ c.at \in {"get.fill", "set.cache"} => c.slot \in Slot /\ c.pref \in Pref
         /\ c.at = "set.storage" => c.slot \in Slot /\ c.def \in Registered /\ c.x \in Ids
                                    /\ EncryptValue(c.x, c.def) # None
         /\ c.at \in {"del.storage", "del.cache"} => c.slot \in Slot
         /\ c.at = "all.storage" => /\ c.user \in Users
                                    /\ c.defs \in [Keys -> Registered \cup {None}]
         /\ c.at = "bycat.defs" => c.todo \in SUBSET Keys /\ c.prefs \in PrefMap
                                   /\ \A k \in c.todo : c.prefs[k] \in Pref
  BY DEF Calls, PrefMap, Idle

\* A call that goes on leaves the calls and the results well formed.
LEMMA ProceedType ==
  ASSUME TypeOK, NEW p \in Procs, NEW c \in Calls, Proceed(p, c)
  PROVE  call' \in [Procs -> Calls] /\ res' \in [Procs -> Result]
<1>1. NoResult \in Result
  BY DEF NoResult, Result, NoPrefs, PrefMap, Errors
<1>. QED  BY <1>1 DEF TypeOK, Proceed

\* So does a call that returns.
LEMMA ReturnType ==
  ASSUME TypeOK, NEW p \in Procs, NEW op \in OpNames, NEW err \in Errors,
         NEW prefs \in PrefMap, Return(p, op, err, prefs)
  PROVE  call' \in [Procs -> Calls] /\ res' \in [Procs -> Result]
<1>1. Idle \in Calls
  BY DEF Calls
<1>2. [op |-> op, err |-> err, prefs |-> prefs] \in Result
  BY DEF Result
<1>. QED  BY <1>1, <1>2 DEF TypeOK, Return

\* A call that fails returns no preference.
LEMMA FailType ==
  ASSUME TypeOK, NEW p \in Procs, NEW op \in OpNames, NEW err \in Errors, Fail(p, op, err)
  PROVE  call' \in [Procs -> Calls] /\ res' \in [Procs -> Result]
<1>1. NoPrefs \in PrefMap
  BY DEF NoPrefs, PrefMap
<1>. QED  BY <1>1, ReturnType DEF Fail

\* A call that returns the preference of one key.
LEMMA ReturnOneType ==
  ASSUME TypeOK, NEW p \in Procs, NEW op \in OpNames, NEW err \in Errors,
         NEW k \in Keys, NEW pref \in Pref, Return(p, op, err, Only(k, pref))
  PROVE  call' \in [Procs -> Calls] /\ res' \in [Procs -> Result]
<1>1. Only(k, pref) \in PrefMap
  BY DEF Only, NoPrefs, PrefMap
<1>. QED  BY <1>1, ReturnType

\* Get, Set and Delete refuse with an error.
LEMMA RefuseType ==
  ASSUME TypeOK, NEW p \in Procs, NEW op \in OpNames, NEW u, NEW k, Refuse(p, op, u, k)
  PROVE  call' \in [Procs -> Calls] /\ res' \in [Procs -> Result]
  BY FailType DEF Refuse, Errors

\* A known user and key make a slot whose key has a registered definition.
LEMMA KnownType ==
  ASSUME TypeOK, NEW u \in Users \cup {Empty}, NEW k \in Keys \cup {Empty}, Known(u, k)
  PROVE  <<u, k>> \in Slot /\ defs[k] \in Registered
  BY DEF TypeOK, Known

\* A decrypted preference is a preference.
LEMMA DecryptedType ==
  ASSUME NEW pref \in Pref, NEW d, Decrypted(pref, d) # None
  PROVE  Decrypted(pref, d) \in Pref /\ Decrypted(pref, d).value.id = pref.value.id
  BY PrefNotNone, DecryptType DEF Decrypted, Pref

\* A preference refreshed from a registered definition is a preference.
LEMMA RefreshedType ==
  ASSUME NEW pref \in Pref, NEW d \in Registered, Refreshed(pref, d) # None
  PROVE  Refreshed(pref, d) \in Pref /\ Refreshed(pref, d).value.id = pref.value.id
  BY PrefNotNone, DecryptType, PrefOfType DEF Refreshed

\* setToCache leaves preferences in the cache.
LEMMA CacheTypes ==
  ASSUME TypeOK, NEW s \in Slot, NEW pref \in Pref, CacheTakes(s, pref) \/ CacheSkips(pref)
  PROVE  cache' \in [Slot -> Pref \cup {None}]
  BY RejsonPrefType DEF TypeOK, CacheTakes, CacheSkips

(***************************************************************************)
(* Type correctness, one lemma per operation.                              *)
(***************************************************************************)

\* The steps of Get preserve TypeOK.
LEMMA GetTypes ==
  ASSUME TypeOK, NEW p \in Procs,
         \/ \E u \in Users \cup {Empty}, k \in Keys \cup {Empty} : GetStart(p, u, k)
         \/ GetCache(p) \/ GetStorage(p) \/ GetFill(p)
  PROVE  TypeOK'
<1>1. ASSUME NEW u \in Users \cup {Empty}, NEW k \in Keys \cup {Empty}, GetStart(p, u, k)
      PROVE  TypeOK'
  <2>1. CASE Refuse(p, "get", u, k)
    BY <1>1, <2>1, RefuseType DEF GetStart, TypeOK, OpNames
  <2>2. CASE Known(u, k) /\ ~Refuse(p, "get", u, k)
    <3>. DEFINE c == [at |-> IF HasCache THEN "get.cache" ELSE "get.storage",
                      slot |-> <<u, k>>, def |-> defs[k]]
    <3>1. c \in Calls
      BY <2>2, KnownType DEF Calls
    <3>2. Proceed(p, c)
      BY <1>1, <2>2 DEF GetStart
    <3>. QED  BY <1>1, <3>1, <3>2, ProceedType DEF GetStart, TypeOK
  <2>. QED  BY <1>1, <2>1, <2>2 DEF GetStart
<1>2. ASSUME GetCache(p) PROVE TypeOK'
  <2>. DEFINE s == call[p].slot
              d == call[p].def
  <2>1. s \in Slot /\ d \in Registered /\ s[2] \in Keys
    BY <1>2, CallFields DEF GetCache, TypeOK
  <2>2. CASE cache[s] # None /\ Return(p, "get", "nil", Only(s[2], cache[s]))
    <3>1. cache[s] \in Pref
      BY <2>1, <2>2 DEF TypeOK
    <3>. QED  BY <1>2, <2>1, <2>2, <3>1, ReturnOneType DEF GetCache, TypeOK, OpNames, Errors
  <2>3. CASE Proceed(p, [at |-> "get.storage", slot |-> s, def |-> d])
    <3>1. [at |-> "get.storage", slot |-> s, def |-> d] \in Calls
      BY <2>1 DEF Calls
    <3>. QED  BY <1>2, <2>3, <3>1, ProceedType DEF GetCache, TypeOK
  <2>4. CASE Return(p, "get", "ErrCache", Only(s[2], DefaultPref(d)))
    <3>1. DefaultPref(d) \in Pref
      BY <2>1, DefaultPrefType
    <3>. QED  BY <1>2, <2>1, <2>4, <3>1, ReturnOneType DEF GetCache, TypeOK, OpNames, Errors
  <2>. QED  BY <1>2, <2>2, <2>3, <2>4 DEF GetCache
<1>3. ASSUME GetStorage(p) PROVE TypeOK'
  <2>. DEFINE s == call[p].slot
              d == call[p].def
              pref == Decrypted(store[s], d)
  <2>1. s \in Slot /\ d \in Registered /\ s[2] \in Keys
    BY <1>3, CallFields DEF GetStorage, TypeOK
  <2>2. CASE Return(p, "get", "nil", Only(s[2], DefaultPref(d)))
    <3>1. DefaultPref(d) \in Pref
      BY <2>1, DefaultPrefType
    <3>. QED  BY <1>3, <2>1, <2>2, <3>1, ReturnOneType DEF GetStorage, TypeOK, OpNames, Errors
  <2>3. CASE Fail(p, "get", "ErrStorage") \/ Fail(p, "get", "ErrEncryptionFailed")
    BY <1>3, <2>3, FailType DEF GetStorage, TypeOK, OpNames, Errors
  <2>4. CASE store[s] # None /\ pref # None
    <3>1. store[s] \in Pref
      BY <2>1, <2>4 DEF TypeOK
    <3>2. pref \in Pref
      BY <2>4, <3>1, DecryptedType
    <3>3. CASE Proceed(p, [at |-> "get.fill", slot |-> s, pref |-> pref])
      <4>1. [at |-> "get.fill", slot |-> s, pref |-> pref] \in Calls
        BY <2>1, <3>2 DEF Calls
      <4>. QED  BY <1>3, <3>3, <4>1, ProceedType DEF GetStorage, TypeOK
    <3>4. CASE Return(p, "get", "nil", Only(s[2], pref))
      BY <1>3, <2>1, <3>2, <3>4, ReturnOneType DEF GetStorage, TypeOK, OpNames, Errors
    <3>. QED  BY <1>3, <2>2, <2>3, <2>4, <3>3, <3>4 DEF GetStorage
  <2>. QED  BY <1>3, <2>2, <2>3, <2>4 DEF GetStorage
<1>4. ASSUME GetFill(p) PROVE TypeOK'
  <2>1. /\ call[p].slot \in Slot /\ call[p].slot[2] \in Keys /\ call[p].pref \in Pref
    BY <1>4, CallFields DEF GetFill, TypeOK
  <2>2. call' \in [Procs -> Calls] /\ res' \in [Procs -> Result]
    BY <1>4, <2>1, ReturnOneType DEF GetFill, OpNames, Errors
  <2>3. cache' \in [Slot -> Pref \cup {None}]
    BY <1>4, <2>1, CacheTypes DEF GetFill
  <2>. QED  BY <1>4, <2>2, <2>3 DEF GetFill, TypeOK
<1>. QED  BY <1>1, <1>2, <1>3, <1>4

\* The steps of Set preserve TypeOK.
LEMMA SetTypes ==
  ASSUME TypeOK, NEW p \in Procs,
         \/ \E u \in Users \cup {Empty}, k \in Keys \cup {Empty}, x \in Ids : SetStart(p, u, k, x)
         \/ SetStorage(p) \/ SetCache(p)
  PROVE  TypeOK'
<1>1. ASSUME NEW u \in Users \cup {Empty}, NEW k \in Keys \cup {Empty}, NEW x \in Ids,
             SetStart(p, u, k, x)
      PROVE  TypeOK'
  <2>1. CASE \/ Refuse(p, "set", u, k) \/ Fail(p, "set", "ErrInvalidValue")
             \/ Fail(p, "set", "ErrEncryptionFailed")
    BY <1>1, <2>1, RefuseType, FailType DEF SetStart, TypeOK, OpNames, Errors
  <2>2. CASE /\ Known(u, k) /\ EncryptValue(x, defs[k]) # None
             /\ Proceed(p, [at |-> "set.storage", slot |-> <<u, k>>, def |-> defs[k], x |-> x])
    <3>1. [at |-> "set.storage", slot |-> <<u, k>>, def |-> defs[k], x |-> x] \in Calls
      BY <2>2, KnownType DEF Calls
    <3>. QED  BY <1>1, <2>2, <3>1, ProceedType DEF SetStart, TypeOK
  <2>. QED  BY <1>1, <2>1, <2>2 DEF SetStart
<1>2. ASSUME SetStorage(p) PROVE TypeOK'
  <2>. DEFINE s == call[p].slot
              d == call[p].def
              x == call[p].x
              pref == PrefOf(EncryptValue(x, d), d)
  <2>1. s \in Slot /\ d \in Registered /\ x \in Ids
    BY <1>2, CallFields DEF SetStorage, TypeOK
  <2>2. pref \in Pref
    BY <1>2, <2>1, CallFields, EncryptType, PrefOfType DEF SetStorage, TypeOK
  <2>3. PrefOf(Native(x), d) \in Pref
    BY <2>1, NativeType, PrefOfType
  <2>4. CASE Stores(s, pref, x)
    <3>1. store' \in [Slot -> Pref \cup {None}] /\ past' \in [Slot -> SUBSET Ids]
      BY <2>1, <2>2, <2>4, UpsertedType DEF Stores, TypeOK
    <3>2. CASE Proceed(p, [at |-> "set.cache", slot |-> s, pref |-> PrefOf(Native(x), d)])
      <4>1. [at |-> "set.cache", slot |-> s, pref |-> PrefOf(Native(x), d)] \in Calls
        BY <2>1, <2>3 DEF Calls
      <4>. QED  BY <1>2, <2>1, <3>1, <3>2, <4>1, ProceedType DEF SetStorage, TypeOK
    <3>3. CASE \/ Fail(p, "set", "nil") \/ Fail(p, "set", "ErrStorage")
               \/ Fail(p, "set", "ErrSerialization")
      BY <1>2, <2>1, <3>1, <3>3, FailType DEF SetStorage, TypeOK, OpNames, Errors
    <3>. QED  BY <1>2, <3>2, <3>3 DEF SetStorage
  <2>5. CASE ~Stores(s, pref, x)
    BY <1>2, <2>5, FailType DEF SetStorage, TypeOK, OpNames, Errors
  <2>. QED  BY <2>4, <2>5
<1>3. ASSUME SetCache(p) PROVE TypeOK'
  <2>1. call[p].slot \in Slot /\ call[p].pref \in Pref
    BY <1>3, CallFields DEF SetCache, TypeOK
  <2>2. call' \in [Procs -> Calls] /\ res' \in [Procs -> Result]
    BY <1>3, FailType DEF SetCache, Fail, OpNames, Errors
  <2>3. cache' \in [Slot -> Pref \cup {None}]
    BY <1>3, <2>1, CacheTypes DEF SetCache
  <2>. QED  BY <1>3, <2>1, <2>2, <2>3 DEF SetCache, TypeOK
<1>. QED  BY <1>1, <1>2, <1>3

\* The steps of Delete preserve TypeOK.
LEMMA DeleteTypes ==
  ASSUME TypeOK, NEW p \in Procs,
         \/ \E u \in Users \cup {Empty}, k \in Keys \cup {Empty} : DelStart(p, u, k)
         \/ DelStorage(p) \/ DelCache(p)
  PROVE  TypeOK'
<1>1. ASSUME NEW u \in Users \cup {Empty}, NEW k \in Keys \cup {Empty}, DelStart(p, u, k)
      PROVE  TypeOK'
  <2>1. CASE Refuse(p, "delete", u, k)
    BY <1>1, <2>1, RefuseType DEF DelStart, TypeOK, OpNames
  <2>2. CASE Known(u, k) /\ Proceed(p, [at |-> "del.storage", slot |-> <<u, k>>])
    <3>1. [at |-> "del.storage", slot |-> <<u, k>>] \in Calls
      BY <2>2, KnownType DEF Calls
    <3>. QED  BY <1>1, <2>2, <3>1, ProceedType DEF DelStart, TypeOK
  <2>. QED  BY <1>1, <2>1, <2>2 DEF DelStart
<1>2. ASSUME DelStorage(p) PROVE TypeOK'
  <2>. DEFINE s == call[p].slot
  <2>1. s \in Slot
    BY <1>2, CallFields DEF DelStorage, TypeOK
  <2>2. store' \in [Slot -> Pref \cup {None}] /\ dirty' \subseteq Slot
    BY <1>2, <2>1 DEF DelStorage, TypeOK
  <2>3. CASE Proceed(p, [at |-> "del.cache", slot |-> s])
    <3>1. [at |-> "del.cache", slot |-> s] \in Calls
      BY <2>1 DEF Calls
    <3>. QED  BY <1>2, <2>2, <2>3, <3>1, ProceedType DEF DelStorage, TypeOK
  <2>4. CASE Fail(p, "delete", "nil") \/ Fail(p, "delete", "ErrStorage")
    BY <1>2, <2>2, <2>4, FailType DEF DelStorage, TypeOK, OpNames, Errors
  <2>. QED  BY <1>2, <2>3, <2>4 DEF DelStorage
<1>3. ASSUME DelCache(p) PROVE TypeOK'
  <2>1. call[p].slot \in Slot
    BY <1>3, CallFields DEF DelCache, TypeOK
  <2>2. call' \in [Procs -> Calls] /\ res' \in [Procs -> Result]
    BY <1>3, FailType DEF DelCache, OpNames, Errors
  <2>. QED  BY <1>3, <2>1, <2>2 DEF DelCache, Healed, TypeOK
<1>. QED  BY <1>1, <1>2, <1>3

\* The steps of GetAll and of its warming goroutine preserve TypeOK.
LEMMA GetAllTypes ==
  ASSUME TypeOK, NEW p \in Procs,
         \/ \E u \in Users \cup {Empty} : AllStart(p, u)
         \/ AllStorage(p)
         \/ \E s \in Slot : WarmStep(p, s)
         \/ \E s \in Slot, x \in Ids : CallerWrites(p, s, x)
  PROVE  TypeOK'
<1>1. ASSUME NEW u \in Users \cup {Empty}, AllStart(p, u) PROVE TypeOK'
  <2>1. CASE Fail(p, "getall", "ErrInvalidInput") \/ Fail(p, "getall", "nil")
    BY <1>1, <2>1, FailType DEF AllStart, TypeOK, OpNames, Errors
  <2>2. CASE u # Empty /\ Proceed(p, [at |-> "all.storage", user |-> u, defs |-> defs])
    <3>1. [at |-> "all.storage", user |-> u, defs |-> defs] \in Calls
      BY <2>2 DEF Calls, TypeOK
    <3>. QED  BY <1>1, <2>2, <3>1, ProceedType DEF AllStart, TypeOK
  <2>. QED  BY <1>1, <2>1, <2>2 DEF AllStart
<1>2. ASSUME AllStorage(p) PROVE TypeOK'
  <2>. DEFINE u == call[p].user
              ds == call[p].defs
              found == {k \in Keys : ds[k] # None /\ store[<<u, k>>] # None}
              bad == {k \in found : Refreshed(store[<<u, k>>], ds[k]) = None}
              all == [k \in Keys |-> IF ds[k] = None THEN None
                                     ELSE IF k \in found THEN Refreshed(store[<<u, k>>], ds[k])
                                     ELSE DefaultPref(ds[k])]
  <2>1. u \in Users /\ ds \in [Keys -> Registered \cup {None}]
    BY <1>2, CallFields DEF AllStorage, TypeOK
  <2>2. CASE /\ Fail(p, "getall", "ErrStorage") \/ Fail(p, "getall", "ErrEncryptionFailed")
             /\ UNCHANGED warm
    BY <1>2, <2>2, FailType DEF AllStorage, TypeOK, OpNames, Errors
  <2>3. CASE /\ bad = {}
             /\ Return(p, "getall", "nil", all)
             /\ warm' = IF HasCache THEN [warm EXCEPT ![p] = ToWarm(u, all)] ELSE warm
    <3>1. ASSUME NEW k \in Keys PROVE all[k] \in Pref \cup {None}
      <4>1. CASE ds[k] # None /\ k \in found
        <5>1. store[<<u, k>>] \in Pref /\ ds[k] \in Registered
          BY <2>1, <4>1 DEF TypeOK
        <5>2. Refreshed(store[<<u, k>>], ds[k]) # None
          BY <2>3, <4>1
        <5>. QED  BY <4>1, <5>1, <5>2, RefreshedType
      <4>2. CASE ds[k] # None /\ k \notin found
        BY <2>1, <4>2, DefaultPrefType
      <4>. QED  BY <4>1, <4>2
    <3>. HIDE DEF all
    <3>2. all \in PrefMap
      BY <3>1 DEF all, PrefMap
    <3>3. call' \in [Procs -> Calls] /\ res' \in [Procs -> Result]
      BY <2>3, <3>2, ReturnType DEF OpNames, Errors
    <3>4. ToWarm(u, all) \in [Slot -> Pref \cup {None}]
      BY <3>2 DEF ToWarm, PrefMap
    <3>5. warm' \in [Procs -> [Slot -> Pref \cup {None}]]
      BY <2>3, <3>4 DEF TypeOK
    <3>. QED  BY <1>2, <3>3, <3>5 DEF AllStorage, TypeOK
  <2>. QED  BY <1>2, <2>2, <2>3 DEF AllStorage
<1>3. ASSUME NEW s \in Slot, WarmStep(p, s) PROVE TypeOK'
  <2>1. warm[p][s] \in Pref
    BY <1>3 DEF WarmStep, TypeOK
  <2>2. cache' \in [Slot -> Pref \cup {None}]
    BY <1>3, <2>1, CacheTypes DEF WarmStep
  <2>3. warm' \in [Procs -> [Slot -> Pref \cup {None}]]
    BY <1>3 DEF WarmStep, TypeOK
  <2>. QED  BY <1>3, <2>2, <2>3 DEF WarmStep, TypeOK
<1>4. ASSUME NEW s \in Slot, NEW x \in Ids, CallerWrites(p, s, x) PROVE TypeOK'
  <2>. DEFINE pref == warm[p][s]
              written == [pref EXCEPT !.value = Native(x)]
  <2>0. pref \in Pref
    BY <1>4 DEF CallerWrites, TypeOK
  <2>. HIDE DEF pref
  <2>1. written \in Pref
    BY <2>0, NativeType DEF Pref
  <2>. HIDE DEF written
  <2>2. warm' \in [Procs -> [Slot -> Pref \cup {None}]]
    <3>1. warm' = [warm EXCEPT ![p] = [warm[p] EXCEPT ![s] = written]]
      BY <1>4 DEF CallerWrites, written, pref, TypeOK
    <3>. QED  BY <2>1, <3>1 DEF TypeOK
  <2>. QED  BY <1>4, <2>2 DEF CallerWrites, TypeOK
<1>. QED  BY <1>1, <1>2, <1>3, <1>4

\* The steps of GetByCategory preserve TypeOK.
LEMMA ByCategoryTypes ==
  ASSUME TypeOK, NEW p \in Procs,
         \/ \E u \in Users \cup {Empty}, cat \in Categories \cup {Empty} :
               ByCategoryStart(p, u, cat)
         \/ \E k \in Keys : ByCategoryDef(p, k)
  PROVE  TypeOK'
<1>1. ASSUME NEW u \in Users \cup {Empty}, NEW cat \in Categories \cup {Empty},
             ByCategoryStart(p, u, cat)
      PROVE  TypeOK'
  <2>. DEFINE hits == {k \in Keys : store[<<u, k>>] # None /\ store[<<u, k>>].cat = cat}
              prefs == [k \in Keys |-> IF k \in hits THEN store[<<u, k>>] ELSE None]
              c == [at |-> "bycat.defs", todo |-> hits, prefs |-> prefs]
  <2>1. CASE \/ Fail(p, "bycategory", "ErrInvalidInput")
             \/ Fail(p, "bycategory", "ErrStorage") \/ Fail(p, "bycategory", "nil")
    BY <1>1, <2>1, FailType DEF ByCategoryStart, TypeOK, OpNames, Errors
  <2>2. CASE u # Empty /\ Proceed(p, c)
    <3>1. prefs \in PrefMap
      BY <2>2 DEF TypeOK, PrefMap
    <3>2. c \in Calls
      BY <3>1 DEF Calls
    <3>. QED  BY <1>1, <2>2, <3>2, ProceedType DEF ByCategoryStart, TypeOK
  <2>. QED  BY <1>1, <2>1, <2>2 DEF ByCategoryStart
<1>2. ASSUME NEW k \in Keys, ByCategoryDef(p, k) PROVE TypeOK'
  <2>. DEFINE pref == IF defs[k] = None THEN call[p].prefs[k]
                      ELSE Refreshed(call[p].prefs[k], defs[k])
              prefs == [call[p].prefs EXCEPT ![k] = pref]
              c == [at |-> "bycat.defs", todo |-> call[p].todo \ {k}, prefs |-> prefs]
  <2>1. /\ call[p].prefs \in PrefMap /\ call[p].prefs[k] \in Pref
        /\ call[p].todo \in SUBSET Keys /\ \A l \in call[p].todo : call[p].prefs[l] \in Pref
    BY <1>2, CallFields DEF ByCategoryDef, TypeOK
  <2>2. CASE Fail(p, "bycategory", "ErrEncryptionFailed")
    BY <1>2, <2>2, FailType DEF ByCategoryDef, TypeOK, OpNames, Errors
  <2>3. CASE pref # None /\ (Return(p, "bycategory", "nil", prefs) \/ Proceed(p, c))
    <3>1. pref \in Pref
      BY <2>1, <2>3, RefreshedType DEF TypeOK
    <3>. HIDE DEF pref
    <3>2. prefs \in PrefMap
      BY <2>1, <3>1 DEF PrefMap
    <3>3. c \in Calls
      BY <2>1, <3>2, PrefNotNone DEF Calls, PrefMap
    <3>4. call' \in [Procs -> Calls] /\ res' \in [Procs -> Result]
      BY <2>3, <3>2, <3>3, ReturnType, ProceedType DEF OpNames, Errors
    <3>. QED  BY <1>2, <3>4 DEF ByCategoryDef, TypeOK
  <2>. QED  BY <1>2, <2>2, <2>3 DEF ByCategoryDef
<1>. QED  BY <1>1, <1>2

\* Registration, expiry and a restart preserve TypeOK.
LEMMA RestTypes ==
  ASSUME TypeOK,
         \/ \E p \in Procs, d \in Definitions : DefinePreference(p, d)
         \/ \E s \in Slot : Expire(s)
         \/ Crash
  PROVE  TypeOK'
<1>1. ASSUME NEW p \in Procs, NEW d \in Definitions, DefinePreference(p, d) PROVE TypeOK'
  <2>1. call' \in [Procs -> Calls] /\ res' \in [Procs -> Result]
    BY <1>1, FailType DEF DefinePreference, OpNames, Errors
  <2>2. CASE UNCHANGED <<defs, offered, dirty>>
    BY <1>1, <2>1, <2>2 DEF DefinePreference, TypeOK
  <2>3. CASE /\ d \in Registered
             /\ defs' = [defs EXCEPT ![d.key] = d]
             /\ offered' = [offered EXCEPT ![d.key] = @ \cup {d}]
             /\ dirty' = IF defs[d.key] \in {None, d} THEN dirty ELSE dirty \cup SlotsOf(d.key)
    <3>1. d.key \in Keys
      BY <2>3, RegisteredType
    <3>. QED  BY <1>1, <2>1, <2>3, <3>1 DEF DefinePreference, TypeOK, SlotsOf
  <2>. QED  BY <1>1, <2>2, <2>3 DEF DefinePreference
<1>2. ASSUME NEW s \in Slot, Expire(s) PROVE TypeOK'
  BY <1>2 DEF Expire, Healed, TypeOK
<1>3. ASSUME Crash PROVE TypeOK'
  <2>1. Idle \in Calls /\ NoResult \in Result /\ NoWarm \in [Slot -> Pref \cup {None}]
    BY DEF Calls, NoResult, Result, NoPrefs, PrefMap, Errors, NoWarm
  <2>. QED  BY <1>3, <2>1, DefinitionAssumption DEF Crash, TypeOK
<1>. QED  BY <1>1, <1>2, <1>3

\* The initial state is well formed.
LEMMA InitTypes == Init => TypeOK
<1>1. Idle \in Calls /\ NoResult \in Result /\ NoWarm \in [Slot -> Pref \cup {None}]
  BY DEF Calls, NoResult, Result, NoPrefs, PrefMap, Errors, NoWarm
<1>. QED  BY <1>1, DefinitionAssumption DEF Init, TypeOK

\* Every step preserves TypeOK.
LEMMA StepTypes == TypeOK /\ [Next]_vars => TypeOK'
<1>1. CASE UNCHANGED vars
  BY <1>1 DEF TypeOK, vars
<1>2. ASSUME TypeOK, Next PROVE TypeOK'
  BY <1>2, GetTypes, SetTypes, DeleteTypes, GetAllTypes, ByCategoryTypes, RestTypes
  DEF Next, Start, Continue
<1>. QED  BY <1>1, <1>2

\* Type correctness: a Manager call only ever works with slots, registered
\* definitions and whole preferences, whatever it interleaves with; a Set that
\* has reached the storage has a value to store.
THEOREM TypeCorrect == Spec => []TypeOK
  BY InitTypes, StepTypes, PTL DEF Spec
-----------------------------------------------------------------------------
(***************************************************************************)
(* The cache is in step with the storage, except for disturbed slots: a    *)
(* proof of CoherentUnlessDisturbed.  The invariant adds what a copy on    *)
(* its way to the cache holds.  A copy of an undisturbed slot is current,  *)
(* because whatever makes it outdated (a storage write, a redefinition)    *)
(* marks the slot while the copy is carried, and nothing heals the slot    *)
(* before the copy has arrived.                                            *)
(***************************************************************************)

HIDE DEF Slot

\* The copies under way to the cache for slot s.
CopiesCurrent(s) ==
    \A p \in Procs :
        /\ call[p].at \in {"get.fill", "set.cache"} /\ call[p].slot = s
              => Current(call[p].pref, s)
        /\ warm[p][s] # None => Current(warm[p][s], s)
        /\ call[p].at = "all.storage" /\ call[p].user = s[1]
              => call[p].defs[s[2]] \in {None, defs[s[2]]}

\* The inductive invariant.
Coherence ==
    \A s \in Slot \ dirty : CopiesCurrent(s) /\ (~Settling(s) => Agrees(s))

\* With no copy under way, all copies are current.
LEMMA NotCarried ==
  ASSUME NEW s \in Slot, ~Carried(s)
  PROVE  CopiesCurrent(s)
  BY DEF Carried, Carries, CopiesCurrent

\* The initial state is coherent.
LEMMA InitCoherent == Init => Coherence
  BY DEF Init, Coherence, CopiesCurrent, Settling, Agrees, Idle, NoWarm

\* A step that changes one goroutine's call only, and leaves that call without a
\* copy, keeps every slot coherent that was not settling through this call.
LEMMA CallStep ==
  ASSUME TypeOK, Coherence, NEW p \in Procs, NEW c \in Calls,
         UNCHANGED <<defs, store, warm, dirty, cache>>,
         call' = [call EXCEPT ![p] = c],
         call[p].at \notin {"set.cache", "del.cache"},
         \/ c.at \notin {"get.fill", "set.cache", "all.storage"}
         \/ c.at = "all.storage" /\ c.defs = defs
         \/ c.at = "get.fill" /\ Current(c.pref, c.slot)
  PROVE  Coherence'
<1>. SUFFICES ASSUME NEW s \in Slot \ dirty'
              PROVE  CopiesCurrent(s)' /\ (~Settling(s)' => Agrees(s)')
  BY DEF Coherence
<1>1. CopiesCurrent(s) /\ (~Settling(s) => Agrees(s))
  BY DEF Coherence
<1>2. ASSUME NEW pref PROVE Current(pref, s)' <=> Current(pref, s)
  BY DEF Current
<1>3. CopiesCurrent(s)'
  <2>. SUFFICES ASSUME NEW q \in Procs
                PROVE  /\ call'[q].at \in {"get.fill", "set.cache"} /\ call'[q].slot = s
                             => Current(call'[q].pref, s)
                       /\ warm'[q][s] # None => Current(warm'[q][s], s)
                       /\ call'[q].at = "all.storage" /\ call'[q].user = s[1]
                             => call'[q].defs[s[2]] \in {None, defs[s[2]]}
    BY <1>2 DEF CopiesCurrent, Current
  <2>1. CASE q = p
    BY <2>1, <1>1 DEF TypeOK, CopiesCurrent
  <2>2. CASE q # p
    BY <2>2, <1>1 DEF TypeOK, CopiesCurrent
  <2>. QED  BY <2>1, <2>2
<1>4. ~Settling(s)' => ~Settling(s)
  BY DEF TypeOK, Settling
<1>5. Agrees(s)' <=> Agrees(s)
  BY DEF Agrees, Current
<1>. QED  BY <1>1, <1>3, <1>4, <1>5

\* A call that returns leaves no copy behind.
LEMMA ReturnStep ==
  ASSUME TypeOK, Coherence, NEW p \in Procs,
         UNCHANGED <<defs, store, warm, dirty, cache>>,
         call' = [call EXCEPT ![p] = Idle],
         call[p].at \notin {"set.cache", "del.cache"}
  PROVE  Coherence'
<1>1. Idle \in Calls /\ Idle.at = "idle"
  BY DEF Calls, Idle
<1>. QED  BY <1>1, CallStep

\* The steps that only read, or begin a call, keep the cache coherent.
LEMMA ReadSteps ==
  ASSUME TypeOK, Coherence, NEW p \in Procs,
         \/ \E u \in Users \cup {Empty}, k \in Keys \cup {Empty} :
               GetStart(p, u, k) \/ DelStart(p, u, k) \/ \E x \in Ids : SetStart(p, u, k, x)
         \/ \E u \in Users \cup {Empty} :
               \/ AllStart(p, u)
               \/ \E cat \in Categories \cup {Empty} : ByCategoryStart(p, u, cat)
         \/ GetCache(p) \/ GetStorage(p)
         \/ \E k \in Keys : ByCategoryDef(p, k)
  PROVE  Coherence'
<1>1. TypeOK'
  BY GetTypes, SetTypes, DeleteTypes, GetAllTypes, ByCategoryTypes
<1>2. call'[p] \in Calls
  BY <1>1 DEF TypeOK
<1>3. UNCHANGED <<defs, store, warm, dirty, cache>>
  BY DEF GetStart, DelStart, SetStart, AllStart, ByCategoryStart, GetCache, GetStorage, ByCategoryDef
<1>4. call' = [call EXCEPT ![p] = call'[p]]
  BY DEF GetStart, DelStart, SetStart, AllStart, ByCategoryStart, GetCache, GetStorage,
         ByCategoryDef, Refuse, Proceed, Return, Fail, TypeOK
<1>5. call[p].at \notin {"set.cache", "del.cache"}
  <2>1. \/ call[p] = Idle
        \/ call[p].at \in {"get.cache", "get.storage", "bycat.defs"}
    BY DEF GetStart, DelStart, SetStart, AllStart, ByCategoryStart, GetCache, GetStorage,
           ByCategoryDef, Begins
  <2>. QED  BY <2>1 DEF Idle
<1>6. \/ call'[p].at \notin {"get.fill", "set.cache", "all.storage"}
      \/ call'[p].at = "all.storage" /\ call'[p].defs = defs
      \/ call'[p].at = "get.fill" /\ Current(call'[p].pref, call'[p].slot)
  <2>1. CASE GetStorage(p)
    <3>. DEFINE s == call[p].slot
                pref == Decrypted(store[s], call[p].def)
    <3>1. CASE store[s] # None /\ pref # None
               /\ Proceed(p, [at |-> "get.fill", slot |-> s, pref |-> pref])
      <4>1. store[s] \in Pref
        BY <2>1, <3>1, CallFields DEF GetStorage, TypeOK
      <4>2. pref.value.id = store[s].value.id
        BY <3>1, <4>1, DecryptedType
      <4>. QED  BY <3>1, <4>2 DEF Proceed, TypeOK, Current
    <3>2. CASE call' = [call EXCEPT ![p] = Idle]
      BY <3>2 DEF TypeOK, Idle
    <3>. QED  BY <2>1, <3>1, <3>2 DEF GetStorage, Return, Fail
  <2>2. CASE \E u \in Users \cup {Empty} : AllStart(p, u)
    BY <2>2 DEF AllStart, Proceed, Return, Fail, TypeOK, Idle
  <2>3. CASE \/ \E u \in Users \cup {Empty}, k \in Keys \cup {Empty} :
                  GetStart(p, u, k) \/ DelStart(p, u, k) \/ \E x \in Ids : SetStart(p, u, k, x)
             \/ \E u \in Users \cup {Empty}, cat \in Categories \cup {Empty} :
                  ByCategoryStart(p, u, cat)
             \/ GetCache(p) \/ \E k \in Keys : ByCategoryDef(p, k)
    <3>. DEFINE Harmless == call'[p].at \notin {"get.fill", "set.cache", "all.storage"}
    <3>1. Idle.at = "idle"
      BY DEF Idle
    <3>2. ASSUME NEW op, NEW err, NEW prefs, Return(p, op, err, prefs) PROVE Harmless
      BY <3>1, <3>2 DEF Return, TypeOK
    <3>3. ASSUME NEW c, Proceed(p, c), c.at \notin {"get.fill", "set.cache", "all.storage"}
          PROVE  Harmless
      BY <3>3 DEF Proceed, TypeOK
    <3>4. ASSUME NEW op, NEW err, Fail(p, op, err) PROVE Harmless
      BY <3>2, <3>4 DEF Fail
    <3>. HIDE DEF Harmless
    <3>5. ASSUME NEW u, NEW k, GetStart(p, u, k) PROVE Harmless
      BY <3>3, <3>4, <3>5 DEF GetStart, Refuse
    <3>6. ASSUME NEW u, NEW k, DelStart(p, u, k) PROVE Harmless
      BY <3>3, <3>4, <3>6 DEF DelStart, Refuse
    <3>7. ASSUME NEW u, NEW k, NEW x, SetStart(p, u, k, x) PROVE Harmless
      BY <3>3, <3>4, <3>7 DEF SetStart, Refuse
    <3>8. ASSUME NEW u, NEW cat, ByCategoryStart(p, u, cat) PROVE Harmless
      BY <3>3, <3>4, <3>8 DEF ByCategoryStart
    <3>9. ASSUME GetCache(p) PROVE Harmless
      BY <3>2, <3>3, <3>9 DEF GetCache
    <3>10. ASSUME NEW k, ByCategoryDef(p, k) PROVE Harmless
      BY <3>2, <3>3, <3>4, <3>10 DEF ByCategoryDef
    <3>. QED  BY <2>3, <3>5, <3>6, <3>7, <3>8, <3>9, <3>10 DEF Harmless
  <2>. QED  BY <2>1, <2>2, <2>3
<1>. QED  BY <1>2, <1>3, <1>4, <1>5, <1>6, CallStep

\* Copies stay current when neither the slot nor its definition changes and no
\* new copy of it is made.
LEMMA CopiesStep ==
  ASSUME NEW s \in Slot, CopiesCurrent(s),
         store'[s] = store[s], defs'[s[2]] = defs[s[2]],
         \A q \in Procs :
            /\ warm'[q][s] \in {warm[q][s], None}
            /\ \/ call'[q] = call[q]
               \/ call'[q].at \notin {"get.fill", "set.cache", "all.storage"}
               \/ call'[q].at = "set.cache" /\ call'[q].slot # s
  PROVE  CopiesCurrent(s)'
  BY DEF CopiesCurrent, Current

\* An entry agrees if it did before, is gone, or is a current copy.
LEMMA EntryStep ==
  ASSUME NEW s \in Slot, store'[s] = store[s], defs'[s[2]] = defs[s[2]],
         \/ cache'[s] = cache[s] /\ Agrees(s)
         \/ cache'[s] = None
         \/ \E pref \in Pref : Current(pref, s) /\ cache'[s] = RejsonPref(pref)
  PROVE  Agrees(s)'
<1>1. ASSUME NEW pref \in Pref, Current(pref, s), cache'[s] = RejsonPref(pref)
      PROVE  Agrees(s)'
  BY <1>1, RejsonPrefType DEF Agrees, Current
<1>2. CASE (cache'[s] = cache[s] /\ Agrees(s)) \/ cache'[s] = None
  BY <1>2 DEF Agrees, Current
<1>. QED  BY <1>1, <1>2

\* What setToCache does to a slot: a current copy arrives, or nothing changes.
LEMMA CacheStep ==
  ASSUME TypeOK, NEW s \in Slot, NEW t \in Slot, NEW pref \in Pref,
         CacheTakes(t, pref) \/ CacheSkips(pref)
  PROVE  \/ cache'[s] = cache[s]
         \/ s = t /\ cache'[s] = RejsonPref(pref)
  BY DEF CacheTakes, CacheSkips, TypeOK

\* Get's write to the cache keeps it coherent.
LEMMA FillStep ==
  ASSUME TypeOK, Coherence, NEW p \in Procs, GetFill(p)
  PROVE  Coherence'
<1>. DEFINE t == call[p].slot
            pref == call[p].pref
<1>1. t \in Slot /\ pref \in Pref
  BY CallFields DEF GetFill, TypeOK
<1>2. call' = [call EXCEPT ![p] = Idle] /\ UNCHANGED <<defs, store, warm, dirty>>
  BY DEF GetFill, Return
<1>. SUFFICES ASSUME NEW s \in Slot \ dirty'
              PROVE  CopiesCurrent(s)' /\ (~Settling(s)' => Agrees(s)')
  BY DEF Coherence
<1>3. CopiesCurrent(s) /\ (~Settling(s) => Agrees(s))
  BY <1>2 DEF Coherence
<1>4. CopiesCurrent(s)'
  BY <1>2, <1>3, CopiesStep DEF TypeOK, Idle
<1>5. ~Settling(s)' => ~Settling(s)
  BY <1>2 DEF Settling, TypeOK, GetFill
<1>6. cache'[s] = cache[s] \/ (s = t /\ cache'[s] = RejsonPref(pref))
  BY <1>1, CacheStep DEF GetFill
<1>7. s = t => Current(pref, s)
  BY <1>3 DEF CopiesCurrent, GetFill
<1>. QED  BY <1>1, <1>2, <1>3, <1>4, <1>5, <1>6, <1>7, EntryStep

\* Set's write to the cache settles its slot, or leaves it disturbed.
LEMMA SetCacheStep ==
  ASSUME TypeOK, Coherence, NEW p \in Procs, SetCache(p)
  PROVE  Coherence'
<1>. DEFINE t == call[p].slot
            pref == call[p].pref
<1>1. t \in Slot /\ pref \in Pref
  BY CallFields DEF SetCache, TypeOK
<1>2. /\ call' = [call EXCEPT ![p] = Idle] /\ UNCHANGED <<defs, store, warm>>
      /\ dirty \subseteq dirty'
  BY DEF SetCache, Return
<1>. SUFFICES ASSUME NEW s \in Slot \ dirty'
              PROVE  CopiesCurrent(s)' /\ (~Settling(s)' => Agrees(s)')
  BY DEF Coherence
<1>3. CopiesCurrent(s) /\ (~Settling(s) => Agrees(s))
  BY <1>2 DEF Coherence
<1>4. CopiesCurrent(s)'
  BY <1>2, <1>3, CopiesStep DEF TypeOK, Idle
<1>5. CASE s = t
  <2>1. cache'[s] = RejsonPref(pref)
    BY <1>1, <1>5 DEF SetCache, CacheTakes, TypeOK
  <2>2. Current(pref, s)
    BY <1>3, <1>5 DEF CopiesCurrent, SetCache
  <2>. QED  BY <1>1, <1>2, <1>4, <2>1, <2>2, EntryStep
<1>6. CASE s # t
  <2>1. ~Settling(s)' => ~Settling(s)
    BY <1>2, <1>6 DEF Settling, TypeOK
  <2>2. cache'[s] = cache[s]
    BY <1>1, <1>6, CacheStep DEF SetCache
  <2>. QED  BY <1>2, <1>3, <1>4, <2>1, <2>2, EntryStep
<1>. QED  BY <1>5, <1>6

\* A call that moved or returned without touching store, cache, definitions or
\* warming copies of slot s, and carries no copy of it now.
LEMMA QuietStep ==
  ASSUME TypeOK, NEW p \in Procs, NEW s \in Slot, NEW c,
         CopiesCurrent(s), ~Settling(s) => Agrees(s),
         store'[s] = store[s], cache'[s] = cache[s], UNCHANGED <<defs, warm>>,
         call' = [call EXCEPT ![p] = c],
         call[p].at \notin {"set.cache", "del.cache"} \/ call[p].slot # s,
         \/ c.at \notin {"get.fill", "set.cache", "all.storage"}
         \/ c.at = "set.cache" /\ c.slot # s
  PROVE  CopiesCurrent(s)' /\ (~Settling(s)' => Agrees(s)')
<1>1. CopiesCurrent(s)'
  BY CopiesStep DEF TypeOK
<1>2. ~Settling(s)' => ~Settling(s)
  BY DEF Settling, TypeOK
<1>. QED  BY <1>1, <1>2, EntryStep

\* Set's write to the storage: from now on the slot is settling or disturbed.
LEMMA SetStorageStep ==
  ASSUME TypeOK, Coherence, HasCache, NEW p \in Procs, SetStorage(p)
  PROVE  Coherence'
<1>. DEFINE t == call[p].slot
            d == call[p].def
            x == call[p].x
            pref == PrefOf(EncryptValue(x, d), d)
            copy == PrefOf(Native(x), d)
            c == [at |-> "set.cache", slot |-> t, pref |-> copy]
<1>1. /\ t \in Slot /\ d \in Registered /\ x \in Ids
      /\ pref \in Pref /\ pref.value.id = x /\ copy.value.id = x
  BY CallFields, EncryptType, PrefOfType, NativeType DEF SetStorage, TypeOK
<1>. HIDE DEF pref, copy
<1>2. UNCHANGED <<defs, cache, warm>> /\ dirty \subseteq dirty' /\ call[p].at = "set.storage"
  BY DEF SetStorage
<1>3. \/ Stores(t, pref, x) /\ Proceed(p, c) /\ (Carried(t) => t \in dirty')
      \/ Stores(t, pref, x) /\ Fail(p, "set", "ErrStorage") /\ t \in dirty'
      \/ UNCHANGED store /\ (Fail(p, "set", "ErrStorage") \/ Fail(p, "set", "ErrSerialization"))
  BY <1>1 DEF SetStorage, pref, copy
<1>. SUFFICES ASSUME NEW s \in Slot \ dirty'
              PROVE  CopiesCurrent(s)' /\ (~Settling(s)' => Agrees(s)')
  BY DEF Coherence
<1>4. CopiesCurrent(s) /\ (~Settling(s) => Agrees(s))
  BY <1>2 DEF Coherence
<1>5. CASE s = t /\ Proceed(p, c)
  <2>1. Stores(t, pref, x) /\ ~Carried(s)
    BY <1>3, <1>5 DEF Fail, Return, Proceed, TypeOK, Idle
  <2>2. store'[s] \in Pref /\ store'[s].value.id = x
    BY <1>1, <1>5, <2>1, UpsertedType DEF Stores, TypeOK
  <2>3. call'[p] = c /\ \A q \in Procs \ {p} : call'[q] = call[q]
    BY <1>5 DEF Proceed, TypeOK
  <2>4. Settling(s)'
    BY <1>5, <2>3 DEF Settling
  <2>5. Current(call[p].pref, s)'
    BY <1>1, <2>2, <2>3, PrefNotNone DEF Current
  <2>6. CopiesCurrent(s)'
    BY <1>2, <2>1, <2>3, <2>5 DEF CopiesCurrent, Carried, Carries
  <2>. QED  BY <2>4, <2>6
<1>6. CASE s # t \/ UNCHANGED store
  <2>1. store'[s] = store[s]
    BY <1>1, <1>3, <1>6 DEF Stores, TypeOK
  <2>2. CASE call' = [call EXCEPT ![p] = Idle]
    BY <1>2, <1>4, <2>1, <2>2, QuietStep DEF Idle
  <2>3. CASE call' = [call EXCEPT ![p] = c] /\ s # t
    BY <1>2, <1>4, <2>1, <2>3, QuietStep
  <2>. QED  BY <1>3, <1>5, <1>6, <2>2, <2>3 DEF Proceed, Fail, Return
<1>. QED  BY <1>3, <1>5, <1>6

\* Delete's write to the storage, likewise.
LEMMA DelStorageStep ==
  ASSUME TypeOK, Coherence, HasCache, NEW p \in Procs, DelStorage(p)
  PROVE  Coherence'
<1>. DEFINE t == call[p].slot
            c == [at |-> "del.cache", slot |-> t]
            removed == [store EXCEPT ![t] = None]
<1>1. t \in Slot
  BY CallFields DEF DelStorage, TypeOK
<1>2. UNCHANGED <<defs, cache, warm>> /\ dirty \subseteq dirty' /\ call[p].at = "del.storage"
  BY DEF DelStorage
<1>3. \/ store' = removed /\ Proceed(p, c) /\ (Carried(t) => t \in dirty')
      \/ store' = removed /\ Fail(p, "delete", "ErrStorage") /\ t \in dirty'
      \/ UNCHANGED store /\ Fail(p, "delete", "ErrStorage")
  BY DEF DelStorage
<1>. SUFFICES ASSUME NEW s \in Slot \ dirty'
              PROVE  CopiesCurrent(s)' /\ (~Settling(s)' => Agrees(s)')
  BY DEF Coherence
<1>4. CopiesCurrent(s) /\ (~Settling(s) => Agrees(s))
  BY <1>2 DEF Coherence
<1>5. CASE s = t /\ Proceed(p, c)
  <2>1. ~Carried(s)
    BY <1>3, <1>5 DEF Proceed, Fail, Return, TypeOK, Idle
  <2>2. call'[p] = c /\ \A q \in Procs \ {p} : call'[q] = call[q]
    BY <1>5 DEF Proceed, TypeOK
  <2>3. Settling(s)'
    BY <1>5, <2>2 DEF Settling
  <2>4. CopiesCurrent(s)'
    BY <1>2, <2>1, <2>2 DEF CopiesCurrent, Carried, Carries
  <2>. QED  BY <2>3, <2>4
<1>6. CASE s # t \/ UNCHANGED store
  <2>1. store'[s] = store[s]
    BY <1>1, <1>3, <1>6 DEF TypeOK
  <2>2. \/ call' = [call EXCEPT ![p] = Idle]
        \/ call' = [call EXCEPT ![p] = c]
    BY <1>3 DEF Proceed, Fail, Return
  <2>. QED  BY <1>2, <1>4, <2>1, <2>2, QuietStep DEF Idle
<1>. QED  BY <1>3, <1>5, <1>6

\* Delete's cache call settles its slot, and heals it if no copy is under way.
LEMMA DelCacheStep ==
  ASSUME TypeOK, Coherence, NEW p \in Procs, DelCache(p)
  PROVE  Coherence'
<1>. DEFINE t == call[p].slot
<1>1. t \in Slot
  BY CallFields DEF DelCache, TypeOK
<1>2. call' = [call EXCEPT ![p] = Idle] /\ UNCHANGED <<defs, store, warm>>
  BY DEF DelCache, Fail, Return
<1>. SUFFICES ASSUME NEW s \in Slot \ dirty'
              PROVE  CopiesCurrent(s)' /\ (~Settling(s)' => Agrees(s)')
  BY DEF Coherence
<1>3. CASE s = t
  <2>1. cache'[s] = None
    BY <1>1, <1>3 DEF DelCache, TypeOK
  <2>2. s \notin dirty \/ ~Carried(s)
    BY <1>3 DEF DelCache, Healed
  <2>3. CopiesCurrent(s)
    BY <2>2, NotCarried DEF Coherence
  <2>. QED  BY <1>2, <2>1, <2>3, CopiesStep, EntryStep DEF TypeOK, Idle
<1>4. CASE s # t
  <2>1. s \notin dirty /\ cache'[s] = cache[s]
    BY <1>4 DEF DelCache, Healed, TypeOK
  <2>. QED  BY <1>2, <1>4, <2>1, QuietStep DEF Coherence, Idle
<1>. QED  BY <1>3, <1>4

\* Expiry, likewise.
LEMMA ExpireStep ==
  ASSUME TypeOK, Coherence, NEW t \in Slot, Expire(t)
  PROVE  Coherence'
<1>1. UNCHANGED <<defs, store, warm, call>>
  BY DEF Expire
<1>. SUFFICES ASSUME NEW s \in Slot \ dirty'
              PROVE  CopiesCurrent(s)' /\ (~Settling(s)' => Agrees(s)')
  BY DEF Coherence
<1>2. CopiesCurrent(s)
  BY NotCarried DEF Expire, Healed, Coherence
<1>3. CopiesCurrent(s)'
  BY <1>1, <1>2, CopiesStep
<1>4. CASE s = t
  <2>1. cache'[s] = None
    BY <1>4 DEF Expire, TypeOK
  <2>. QED  BY <1>1, <1>3, <2>1, EntryStep
<1>5. CASE s # t
  <2>1. s \notin dirty /\ cache'[s] = cache[s]
    BY <1>5 DEF Expire, Healed, TypeOK
  <2>2. Settling(s)' <=> Settling(s)
    BY <1>1 DEF Settling
  <2>. QED  BY <1>1, <1>3, <2>1, <2>2, EntryStep DEF Coherence
<1>. QED  BY <1>4, <1>5

\* GetAll's copies are current: they were read in this step, under definitions
\* that nobody has replaced since, or their slot is disturbed.
LEMMA AllStorageStep ==
  ASSUME TypeOK, Coherence, NEW p \in Procs, AllStorage(p)
  PROVE  Coherence'
<1>. DEFINE u == call[p].user
            ds == call[p].defs
            found == {k \in Keys : ds[k] # None /\ store[<<u, k>>] # None}
            bad == {k \in found : Refreshed(store[<<u, k>>], ds[k]) = None}
            all == [k \in Keys |-> IF ds[k] = None THEN None
                                   ELSE IF k \in found THEN Refreshed(store[<<u, k>>], ds[k])
                                   ELSE DefaultPref(ds[k])]
<1>1. u \in Users /\ ds \in [Keys -> Registered \cup {None}] /\ call[p].at = "all.storage"
  BY CallFields DEF AllStorage, TypeOK
<1>2. call' = [call EXCEPT ![p] = Idle] /\ UNCHANGED <<defs, store, cache, dirty>>
  BY DEF AllStorage, Fail, Return
<1>3. \/ UNCHANGED warm
      \/ bad = {} /\ warm' = [warm EXCEPT ![p] = ToWarm(u, all)]
  BY DEF AllStorage
<1>. SUFFICES ASSUME NEW s \in Slot \ dirty'
              PROVE  CopiesCurrent(s)' /\ (~Settling(s)' => Agrees(s)')
  BY DEF Coherence
<1>4. CopiesCurrent(s) /\ (~Settling(s) => Agrees(s))
  BY <1>2 DEF Coherence
<1>5. CASE UNCHANGED warm
  BY <1>1, <1>2, <1>4, <1>5, QuietStep DEF Idle
<1>6. CASE bad = {} /\ warm' = [warm EXCEPT ![p] = ToWarm(u, all)]
  <2>. DEFINE k == s[2]
  <2>1. k \in Keys /\ s = <<s[1], k>>
    BY DEF Slot
  <2>2. ASSUME s[1] = u, all[k] # None PROVE Current(all[k], s)
    <3>1. ds[k] \in Registered /\ ds[k] = defs[k]
      BY <1>1, <1>4, <2>1, <2>2, RegisteredType DEF CopiesCurrent
    <3>2. CASE store[s] # None
      <4>1. store[s] \in Pref /\ k \in found /\ s = <<u, k>>
        BY <2>1, <2>2, <3>1, <3>2, RegisteredType DEF TypeOK
      <4>2. Refreshed(store[s], ds[k]) # None
        BY <1>6, <4>1
      <4>3. all[k] = Refreshed(store[s], ds[k])
        BY <2>1, <3>1, <4>1, RegisteredType
      <4>. QED  BY <3>1, <3>2, <4>1, <4>2, <4>3, RefreshedType DEF Current
    <3>3. CASE store[s] = None
      <4>1. all[k] = DefaultPref(ds[k])
        BY <2>1, <2>2, <3>1, <3>3, RegisteredType
      <4>. QED  BY <3>1, <3>3, <4>1, DefaultPrefType, RegisteredType DEF Current
    <3>. QED  BY <3>2, <3>3
  <2>. HIDE DEF all
  <2>3. ASSUME NEW q \in Procs, warm'[q][s] # None PROVE Current(warm'[q][s], s)
    <3>1. CASE q = p
      <4>1. warm'[q] = ToWarm(u, all)
        BY <1>6, <3>1 DEF TypeOK
      <4>. QED  BY <2>2, <2>3, <4>1 DEF ToWarm
    <3>2. CASE q # p
      <4>1. warm'[q] = warm[q]
        BY <1>6, <3>2 DEF TypeOK
      <4>. QED  BY <1>4, <2>3, <4>1 DEF CopiesCurrent
    <3>. QED  BY <3>1, <3>2
  <2>4. CopiesCurrent(s)'
    BY <1>2, <1>4, <2>3 DEF CopiesCurrent, Current, TypeOK, Idle
  <2>5. ~Settling(s)' => ~Settling(s)
    BY <1>1, <1>2 DEF Settling, TypeOK
  <2>. QED  BY <1>2, <1>4, <2>4, <2>5, EntryStep
<1>. QED  BY <1>3, <1>5, <1>6

\* The warming goroutine delivers current copies.
LEMMA WarmingStep ==
  ASSUME TypeOK, Coherence, NEW p \in Procs, NEW t \in Slot, WarmStep(p, t)
  PROVE  Coherence'
<1>. DEFINE pref == warm[p][t]
<1>1. pref \in Pref
  BY DEF WarmStep, TypeOK
<1>2. UNCHANGED <<defs, store, call, dirty>>
  BY DEF WarmStep
<1>. SUFFICES ASSUME NEW s \in Slot \ dirty'
              PROVE  CopiesCurrent(s)' /\ (~Settling(s)' => Agrees(s)')
  BY DEF Coherence
<1>3. CopiesCurrent(s) /\ (~Settling(s) => Agrees(s))
  BY <1>2 DEF Coherence
<1>4. \A q \in Procs : warm'[q][s] \in {warm[q][s], None}
  BY DEF WarmStep, TypeOK
<1>5. CopiesCurrent(s)'
  BY <1>2, <1>3, <1>4, CopiesStep
<1>6. Settling(s)' <=> Settling(s)
  BY <1>2 DEF Settling
<1>7. cache'[s] = cache[s] \/ (s = t /\ cache'[s] = RejsonPref(pref))
  BY <1>1, CacheStep DEF WarmStep
<1>8. s = t => Current(pref, s)
  BY <1>3 DEF CopiesCurrent, WarmStep
<1>. QED  BY <1>1, <1>2, <1>3, <1>5, <1>6, <1>7, <1>8, EntryStep

\* A caller that changes what is being cached disturbs that slot only.
LEMMA CallerWritesStep ==
  ASSUME TypeOK, Coherence, NEW p \in Procs, NEW t \in Slot, NEW x \in Ids,
         CallerWrites(p, t, x)
  PROVE  Coherence'
<1>1. UNCHANGED <<defs, store, cache, call>> /\ dirty' = dirty \cup {t}
  BY DEF CallerWrites
<1>. SUFFICES ASSUME NEW s \in Slot \ dirty'
              PROVE  CopiesCurrent(s)' /\ (~Settling(s)' => Agrees(s)')
  BY DEF Coherence
<1>2. s \notin dirty /\ s # t
  BY <1>1
<1>3. \A q \in Procs : warm'[q][s] = warm[q][s]
  BY <1>2 DEF CallerWrites, TypeOK
<1>4. Settling(s)' <=> Settling(s)
  BY <1>1 DEF Settling
<1>. QED  BY <1>1, <1>2, <1>3, <1>4, CopiesStep, EntryStep DEF Coherence

\* A redefinition disturbs every slot of its key; a first definition disturbs
\* none, as nothing was cached under a definition that did not exist.
LEMMA DefineStep ==
  ASSUME TypeOK, Coherence, NEW p \in Procs, NEW d \in Definitions, DefinePreference(p, d)
  PROVE  Coherence'
<1>1. /\ call' = [call EXCEPT ![p] = Idle] /\ call[p] = Idle
      /\ UNCHANGED <<store, cache, warm>>
  BY DEF DefinePreference, Fail, Return, Begins
<1>2. CASE UNCHANGED <<defs, dirty>>
  <2>1. UNCHANGED <<defs, store, warm, dirty, cache>>
    BY <1>1, <1>2
  <2>2. call[p].at = "idle"
    BY <1>1 DEF Idle
  <2>. QED  BY <1>1, <2>1, <2>2, ReturnStep
<1>3. CASE /\ d \in Registered
           /\ defs' = [defs EXCEPT ![d.key] = d]
           /\ dirty' = IF defs[d.key] \in {None, d} THEN dirty ELSE dirty \cup SlotsOf(d.key)
  <2>. SUFFICES ASSUME NEW s \in Slot \ dirty'
                PROVE  CopiesCurrent(s)' /\ (~Settling(s)' => Agrees(s)')
    BY DEF Coherence
  <2>1. CopiesCurrent(s) /\ (~Settling(s) => Agrees(s))
    BY <1>3 DEF Coherence
  <2>2. \/ defs'[s[2]] = defs[s[2]]
        \/ defs[s[2]] = None
    BY <1>3, RegisteredType DEF TypeOK, SlotsOf
  <2>3. ASSUME NEW pref, Current(pref, s) PROVE Current(pref, s)'
    BY <1>1, <2>2, <2>3 DEF Current
  <2>4. \A q \in Procs : call'[q] = call[q]
    BY <1>1 DEF TypeOK
  <2>5. CopiesCurrent(s)'
    BY <1>1, <2>1, <2>2, <2>3, <2>4 DEF CopiesCurrent
  <2>6. Agrees(s) => Agrees(s)'
    BY <1>1, <2>3 DEF Agrees
  <2>7. Settling(s)' <=> Settling(s)
    BY <2>4 DEF Settling
  <2>. QED  BY <2>1, <2>5, <2>6, <2>7
<1>4. UNCHANGED <<defs, dirty>>
      \/ /\ d \in Registered
         /\ defs' = [defs EXCEPT ![d.key] = d]
         /\ dirty' = IF defs[d.key] \in {None, d} THEN dirty ELSE dirty \cup SlotsOf(d.key)
  BY DEF DefinePreference
<1>. QED  BY <1>2, <1>3, <1>4

\* After a restart no copy is under way; what survives in a durable cache agrees
\* with what survives in the storage, unless the slot was settling or its key's
\* definition was not the one registered at startup.
LEMMA CrashStep ==
  ASSUME TypeOK, Coherence, Crash
  PROVE  Coherence'
<1>. SUFFICES ASSUME NEW s \in Slot \ dirty'
              PROVE  CopiesCurrent(s)' /\ (~Settling(s)' => Agrees(s)')
  BY DEF Coherence
<1>1. CopiesCurrent(s)'
  BY DEF Crash, CopiesCurrent, Idle, NoWarm
<1>2. CASE CacheDurable
  <2>1. /\ s \notin dirty /\ ~Settling(s) /\ Backend # "memory"
        /\ defs[s[2]] = InitialDefs[s[2]]
    BY <1>2 DEF Crash
  <2>2. store' = store /\ cache' = cache /\ defs'[s[2]] = defs[s[2]]
    BY <1>2, <2>1, ModeAssumption DEF Crash
  <2>. QED  BY <1>1, <2>1, <2>2, EntryStep DEF Coherence
<1>3. CASE ~CacheDurable
  BY <1>1, <1>3 DEF Crash, Agrees
<1>. QED  BY <1>2, <1>3

\* Every step keeps the cache coherent.
LEMMA StepCoherent == HasCache /\ TypeOK /\ Coherence /\ [Next]_vars => Coherence'
<1>1. CASE UNCHANGED vars
  BY <1>1 DEF vars, Coherence, CopiesCurrent, Settling, Agrees, Current
<1>2. ASSUME HasCache, TypeOK, Coherence, Next PROVE Coherence'
  BY <1>2, ReadSteps, FillStep, SetCacheStep, SetStorageStep, DelStorageStep, DelCacheStep,
     ExpireStep, AllStorageStep, WarmingStep, CallerWritesStep, DefineStep, CrashStep
  DEF Next, Start, Continue
<1>. QED  BY <1>1, <1>2

\* A Manager with a cache keeps it in step with the storage, except for slots
\* that were disturbed: for every set of users, keys and goroutines, every
\* backend, with cache and storage failures, redefinitions and restarts.
THEOREM CacheCoherent == ASSUME HasCache PROVE Spec => []CoherentUnlessDisturbed
<1>1. Init => TypeOK /\ Coherence
  BY InitTypes, InitCoherent
<1>2. TypeOK /\ Coherence /\ [Next]_vars => (TypeOK /\ Coherence)'
  BY StepTypes, StepCoherent
<1>3. Coherence => CoherentUnlessDisturbed
  BY DEF Coherence, CoherentUnlessDisturbed
<1>. QED  BY <1>1, <1>2, <1>3, PTL DEF Spec
=============================================================================
