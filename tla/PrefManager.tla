----------------------------- MODULE PrefManager -----------------------------
(***************************************************************************)
(* The userprefs Manager (manager.go): a typed, optionally encrypted       *)
(* per-user preference store in front of a Storage and an optional Cache.  *)
(*                                                                         *)
(* A Manager call is a sequence of atomic steps: a definition lookup under *)
(* the Manager's RWMutex, a cache call, a storage call, a cache call.      *)
(* Nothing is locked between them, so the calls of several goroutines, and *)
(* the goroutine GetAll starts to warm the cache, interleave freely.       *)
(***************************************************************************)
EXTENDS Naturals, FiniteSets

CONSTANTS
    Users, Keys, Categories,
    Empty,          \* the empty string, as a user, a key or a category
    Ids,            \* payloads: the Go values an application stores
    Kind,           \* [Ids -> Kinds]: the dynamic Go type of a payload
    Unencodable,    \* payloads json.Marshal rejects: NaN, a channel
    Blank,          \* payloads the encryption leaves in clear: nil and ""
    Parses,         \* <<x, t>>: x's plaintext unmarshals as type t
    Definitions,    \* the definitions applications register
    InitialDefs,    \* what the application registers when it starts
    Procs,          \* goroutines that call the Manager
    None,
    HasCache, HasEncryption,
    Backend,        \* "memory", or "sql" for SQLite and PostgreSQL
    CacheFaults,    \* the cache calls that may fail
    StorageFaults,  \* "error": not applied; "indefinite": applied, yet reported failed
    CacheDurable,   \* the cache outlives the process (Redis)
    Ops             \* the operations clients and the environment perform

Kinds == {"string", "bool", "int", "float", "nil", "other"}
Types == {"string", "bool", "int", "float", "json"}
Errors == {"nil", "ErrInvalidInput", "ErrPreferenceNotDefined", "ErrInvalidValue",
           "ErrInvalidKey", "ErrInvalidType", "ErrEncryptionRequired",
           "ErrEncryptionFailed", "ErrSerialization", "ErrCache", "ErrStorage"}

\* A Go value as it is held somewhere: with the type the caller passed it with,
\* as a generic value decoded from text (int 7 has become float64 7), or as a
\* ciphertext string.
Forms == {"native", "json", "cipher"}
Value == [id : Ids, form : Forms]
Pref == [value : Value, dflt : Value, type : Types, cat : Categories \cup {Empty}]
Slot == Users \X Keys

\* admits: what AllowedValues and ValidateFunc together let through.
DefinitionShape == [key : Keys \cup {Empty}, type : Types \cup {"unsupported"}, dflt : Ids,
                    cat : Categories \cup {Empty}, encrypted : BOOLEAN, admits : SUBSET Ids]
Registered == {d \in Definitions : /\ d.key # Empty
                                   /\ d.type \in Types
                                   /\ d.encrypted => HasEncryption}

ASSUME KindAssumption == Kind \in [Ids -> Kinds]
ASSUME DataAssumption == /\ Unencodable \subseteq {x \in Ids : Kind[x] \in {"float", "other"}}
                         /\ Blank \subseteq {x \in Ids : Kind[x] \in {"nil", "string"}}
                         /\ Parses \subseteq Ids \X Types
\* json.Unmarshal takes back what json.Marshal wrote, and a string is its own plaintext.
ASSUME CodecAssumption ==
    \A x \in Ids \ Unencodable :
       IF Kind[x] = "string" THEN <<x, "string">> \in Parses
       ELSE x \notin Blank => {x} \X ({Kind[x], "json"} \cap Types) \subseteq Parses
ASSUME DefinitionAssumption ==
    /\ Definitions \subseteq DefinitionShape
    /\ InitialDefs \in [Keys -> Registered \cup {None}]
    /\ \A k \in Keys : InitialDefs[k] # None => InitialDefs[k].key = k
ASSUME NoneAssumption == /\ None \notin Ids \cup Definitions \cup Pref \cup Value
                         /\ Empty \notin Users \cup Keys \cup Categories
ASSUME ModeAssumption ==
    /\ {HasCache, HasEncryption, CacheDurable} \subseteq BOOLEAN
    /\ Backend \in {"memory", "sql"}
    /\ CacheFaults \subseteq {"get", "set", "delete"}
    \* MemoryStorage never fails
    /\ StorageFaults \subseteq (IF Backend = "sql" THEN {"error", "indefinite"} ELSE {})

VARIABLES
    defs,       \* Config.definitions
    store,      \* what the Storage holds for each slot
    cache,      \* what the Cache holds for each slot
    call,       \* where each goroutine's Manager call stands
    warm,       \* what the warming goroutine of each caller's last GetAll has left to write
    res,        \* the result of each goroutine's last call
    past,       \* history: every payload a slot's storage ever took
    offered,    \* history: every definition a key ever had
    dirty       \* history: slots whose cache entry something may have left behind

vars == <<defs, store, cache, call, warm, res, past, offered, dirty>>

-----------------------------------------------------------------------------
(* Values: JSON and encryption.                                            *)

Native(x) == [id |-> x, form |-> "native"]

IsString(v) == v.form = "cipher" \/ Kind[v.id] = "string"

Marshals(v) == v.form = "cipher" \/ v.id \notin Unencodable

\* json.Marshal, then json.Unmarshal into an interface{}.
Rejson(v) == IF v.form = "native" /\ Kind[v.id] \in {"int", "other"}
             THEN [v EXCEPT !.form = "json"] ELSE v

\* Mutant of Accepts: AllowedValues and ValidateFunc are not consulted.
AcceptsUnvalidated(d, x) ==
    IF d.type = "json" THEN x \notin Unencodable ELSE Kind[x] = d.type

\* validateValue and ValidateFunc
Accepts(d, x) == /\ IF d.type = "json" THEN x \notin Unencodable ELSE Kind[x] = d.type
                 /\ x \in d.admits

\* Mutant of EncryptValue: it returns the value unencrypted.
EncryptsNothing(x, d) == Native(x)

\* encryptValue: non-strings are marshalled first; nil and "" stay as they are.
EncryptValue(x, d) ==
    IF ~d.encrypted \/ x \in Blank THEN Native(x)
    ELSE IF x \in Unencodable THEN None ELSE [id |-> x, form |-> "cipher"]

\* The plaintext of x decoded as a value of type t.
Decoded(x, t) ==
    IF Kind[x] = t THEN Native(x)
    ELSE IF t = "json" /\ Kind[x] # "string" THEN Rejson(Native(x))
    ELSE [id |-> x, form |-> "json"]

\* decryptValue: what is no string is taken for old unencrypted data; a string
\* must decrypt, and its plaintext must unmarshal as the definition's type.
DecryptValue(v, d) ==
    IF ~d.encrypted \/ ~IsString(v) THEN v
    ELSE IF /\ v.form = "cipher" \/ v.id \in Blank
            /\ <<v.id, d.type>> \in Parses
         THEN Decoded(v.id, d.type) ELSE None

PrefOf(v, d) == [value |-> v, dflt |-> Native(d.dflt), type |-> d.type, cat |-> d.cat]
DefaultPref(d) == PrefOf(Native(d.dflt), d)
PrefMarshals(pref) == Marshals(pref.value) /\ Marshals(pref.dflt)
RejsonPref(pref) == [pref EXCEPT !.value = Rejson(@), !.dflt = Rejson(@)]

\* Mutant of Upserted: ON CONFLICT DO NOTHING.
InsertedOnce(old, pref) == IF old = None THEN pref ELSE old

\* Storage.Set: the in-memory map takes the preference whole; the SQL upsert
\* stores JSON and leaves an existing row's type and category alone.
Upserted(old, pref) ==
    IF Backend = "memory" THEN pref
    ELSE IF old = None THEN RejsonPref(pref)
    ELSE [old EXCEPT !.value = Rejson(pref.value), !.dflt = Rejson(pref.dflt)]
StorageMarshals(pref) == Backend = "sql" => PrefMarshals(pref)

-----------------------------------------------------------------------------
(* Calls and their results.                                                *)

NoPrefs == [k \in Keys |-> None]
NoWarm == [s \in Slot |-> None]
Idle == [at |-> "idle"]
NoResult == [op |-> "none", err |-> "nil", prefs |-> NoPrefs]

PrefMap == [Keys -> Pref \cup {None}]
OpNames == {"get", "set", "delete", "getall", "bycategory", "define"}
Result == [op : OpNames \cup {"none"}, err : Errors, prefs : PrefMap]

Calls ==
    {Idle}
    \cup [at : {"get.cache", "get.storage"}, slot : Slot, def : Registered]
    \cup [at : {"get.fill", "set.cache"}, slot : Slot, pref : Pref]
    \cup {c \in [at : {"set.storage"}, slot : Slot, def : Registered, x : Ids] :
                EncryptValue(c.x, c.def) # None}
    \cup [at : {"del.storage", "del.cache"}, slot : Slot]
    \cup [at : {"all.storage"}, user : Users, defs : [Keys -> Registered \cup {None}]]
    \cup {c \in [at : {"bycat.defs"}, todo : SUBSET Keys, prefs : PrefMap] :
                \A k \in c.todo : c.prefs[k] # None}

Proceed(p, c) == /\ call' = [call EXCEPT ![p] = c]
                 /\ res' = [res EXCEPT ![p] = NoResult]

Return(p, op, err, prefs) ==
    /\ call' = [call EXCEPT ![p] = Idle]
    /\ res' = [res EXCEPT ![p] = [op |-> op, err |-> err, prefs |-> prefs]]

Fail(p, op, err) == Return(p, op, err, NoPrefs)
Only(k, pref) == [NoPrefs EXCEPT ![k] = pref]

Begins(p, op) == op \in Ops /\ call[p] = Idle
\* Mutant of Known: the key need not be defined.
KnownInput(u, k) == Empty \notin {u, k}

Known(u, k) == Empty \notin {u, k} /\ defs[k] # None

\* The checks Get, Set and Delete begin with.
Refuse(p, op, u, k) ==
    \/ Empty \in {u, k} /\ Fail(p, op, "ErrInvalidInput")
    \/ Empty \notin {u, k} /\ defs[k] = None /\ Fail(p, op, "ErrPreferenceNotDefined")

\* A copy on its way to the cache: it goes stale if the storage changes now.
\* A GetAll whose definitions are outdated is about to make such a copy.
Carries(p, s) ==
    \/ call[p].at \in {"get.fill", "set.cache"} /\ call[p].slot = s
    \/ warm[p][s] # None
    \/ /\ call[p].at = "all.storage" /\ call[p].user = s[1]
       /\ call[p].defs[s[2]] \notin {None, defs[s[2]]}
Carried(s) == \E p \in Procs : Carries(p, s)

\* Between a storage write and the cache call that follows it.
Settling(s) == \E p \in Procs : /\ call[p].at \in {"set.cache", "del.cache"}
                                /\ call[p].slot = s

-----------------------------------------------------------------------------
(* Get: cache, then storage, then a write of what was found to the cache.  *)

GetStart(p, u, k) ==
    /\ Begins(p, "get")
    /\ \/ Refuse(p, "get", u, k)
       \/ /\ Known(u, k)
          /\ Proceed(p, [at |-> IF HasCache THEN "get.cache" ELSE "get.storage",
                         slot |-> <<u, k>>, def |-> defs[k]])
    /\ UNCHANGED <<defs, store, cache, warm, past, offered, dirty>>

\* A hit is returned as it is, a cache error yields the default and the error.
GetCache(p) ==
    /\ call[p].at = "get.cache"
    /\ LET s == call[p].slot IN
       \/ cache[s] # None /\ Return(p, "get", "nil", Only(s[2], cache[s]))
       \/ cache[s] = None /\ Proceed(p, [at |-> "get.storage", slot |-> s, def |-> call[p].def])
       \/ /\ "get" \in CacheFaults
          /\ Return(p, "get", "ErrCache", Only(s[2], DefaultPref(call[p].def)))
    /\ UNCHANGED <<defs, store, cache, warm, past, offered, dirty>>

\* Mutant of Decrypted: it returns what is stored.
NotDecrypted(pref, d) == pref

\* The stored preference, decrypted; None when decryption fails.
Decrypted(pref, d) == LET v == DecryptValue(pref.value, d) IN
                      IF v = None THEN None ELSE [pref EXCEPT !.value = v]

GetStorage(p) ==
    /\ call[p].at = "get.storage"
    /\ LET s == call[p].slot
           d == call[p].def
           pref == Decrypted(store[s], d)
       IN \/ store[s] = None /\ Return(p, "get", "nil", Only(s[2], DefaultPref(d)))
          \/ StorageFaults # {} /\ Fail(p, "get", "ErrStorage")
          \/ store[s] # None /\ pref = None /\ Fail(p, "get", "ErrEncryptionFailed")
          \/ /\ store[s] # None /\ pref # None
             /\ IF HasCache THEN Proceed(p, [at |-> "get.fill", slot |-> s, pref |-> pref])
                            ELSE Return(p, "get", "nil", Only(s[2], pref))
    /\ UNCHANGED <<defs, store, cache, warm, past, offered, dirty>>

\* Mutant of CacheTakes: an entry that exists is not replaced.
CacheTakesIfAbsent(s, pref) ==
    /\ PrefMarshals(pref)
    /\ cache' = [cache EXCEPT ![s] = IF @ = None THEN RejsonPref(pref) ELSE @]

\* setToCache: a preference that does not marshal, and a failing cache, are
\* only logged.
CacheTakes(s, pref) == /\ PrefMarshals(pref)
                       /\ cache' = [cache EXCEPT ![s] = RejsonPref(pref)]
CacheSkips(pref) == /\ "set" \in CacheFaults \/ ~PrefMarshals(pref)
                    /\ UNCHANGED cache

GetFill(p) ==
    /\ call[p].at = "get.fill"
    /\ CacheTakes(call[p].slot, call[p].pref) \/ CacheSkips(call[p].pref)
    /\ Return(p, "get", "nil", Only(call[p].slot[2], call[p].pref))
    /\ UNCHANGED <<defs, store, warm, past, offered, dirty>>

-----------------------------------------------------------------------------
(* Set: validate and encrypt, write the storage, write the cache.          *)

SetStart(p, u, k, x) ==
    /\ Begins(p, "set")
    /\ \/ Refuse(p, "set", u, k)
       \/ /\ Known(u, k)
          /\ LET d == defs[k] IN
             \/ ~Accepts(d, x) /\ Fail(p, "set", "ErrInvalidValue")
             \/ /\ Accepts(d, x) /\ EncryptValue(x, d) = None
                /\ Fail(p, "set", "ErrEncryptionFailed")
             \/ /\ Accepts(d, x) /\ EncryptValue(x, d) # None
                /\ Proceed(p, [at |-> "set.storage", slot |-> <<u, k>>, def |-> d, x |-> x])
    /\ UNCHANGED <<defs, store, cache, warm, past, offered, dirty>>

\* Mutant of Stores: the write is lost, yet reported successful.
StoreLost(s, pref, x) == UNCHANGED <<store, past>>

\* The storage takes the preference of slot s.
Stores(s, pref, x) ==
    /\ StorageMarshals(pref)
    /\ store' = [store EXCEPT ![s] = Upserted(@, pref)]
    /\ past' = [past EXCEPT ![s] = @ \cup {x}]

SetStorage(p) ==
    /\ call[p].at = "set.storage"
    /\ LET s == call[p].slot
           d == call[p].def
           x == call[p].x
           pref == PrefOf(EncryptValue(x, d), d)
       IN \/ /\ Stores(s, pref, x)
             /\ IF HasCache
                THEN Proceed(p, [at |-> "set.cache", slot |-> s, pref |-> PrefOf(Native(x), d)])
                ELSE Fail(p, "set", "nil")
             /\ dirty' = IF Carried(s) THEN dirty \cup {s} ELSE dirty
          \/ /\ "indefinite" \in StorageFaults
             /\ Stores(s, pref, x)
             /\ Fail(p, "set", "ErrStorage")
             /\ dirty' = dirty \cup {s}
          \/ /\ "error" \in StorageFaults /\ StorageMarshals(pref)
             /\ Fail(p, "set", "ErrStorage")
             /\ UNCHANGED <<store, past, dirty>>
          \/ /\ ~StorageMarshals(pref)
             /\ Fail(p, "set", "ErrSerialization")
             /\ UNCHANGED <<store, past, dirty>>
    /\ UNCHANGED <<defs, cache, warm, offered>>

SetCache(p) ==
    /\ call[p].at = "set.cache"
    /\ LET s == call[p].slot IN
       \/ CacheTakes(s, call[p].pref) /\ UNCHANGED dirty
       \/ CacheSkips(call[p].pref) /\ dirty' = dirty \cup {s}
    /\ Return(p, "set", "nil", NoPrefs)
    /\ UNCHANGED <<defs, store, warm, past, offered>>

-----------------------------------------------------------------------------
(* Delete: the storage, then the cache.                                    *)

DelStart(p, u, k) ==
    /\ Begins(p, "delete")
    /\ \/ Refuse(p, "delete", u, k)
       \/ Known(u, k) /\ Proceed(p, [at |-> "del.storage", slot |-> <<u, k>>])
    /\ UNCHANGED <<defs, store, cache, warm, past, offered, dirty>>

\* ErrNotFound from the storage counts as success.
DelStorage(p) ==
    /\ call[p].at = "del.storage"
    /\ LET s == call[p].slot
           removed == [store EXCEPT ![s] = None]
       IN \/ /\ store' = removed
             /\ IF HasCache THEN Proceed(p, [at |-> "del.cache", slot |-> s])
                            ELSE Fail(p, "delete", "nil")
             /\ dirty' = IF Carried(s) THEN dirty \cup {s} ELSE dirty
          \/ /\ "indefinite" \in StorageFaults
             /\ store' = removed
             /\ Fail(p, "delete", "ErrStorage")
             /\ dirty' = dirty \cup {s}
          \/ /\ "error" \in StorageFaults
             /\ Fail(p, "delete", "ErrStorage")
             /\ UNCHANGED <<store, dirty>>
    /\ UNCHANGED <<defs, cache, warm, past, offered>>

\* The entry is gone: whatever was left behind is left behind no more, unless a
\* copy is still on its way.
Healed(s) == IF Carried(s) THEN dirty ELSE dirty \ {s}

DelCache(p) ==
    /\ call[p].at = "del.cache"
    /\ LET s == call[p].slot IN
       \/ /\ cache' = [cache EXCEPT ![s] = None]
          /\ dirty' = Healed(s)
       \/ /\ "delete" \in CacheFaults
          /\ dirty' = dirty \cup {s}
          /\ UNCHANGED cache
    /\ Fail(p, "delete", "nil")
    /\ UNCHANGED <<defs, store, warm, past, offered>>

-----------------------------------------------------------------------------
(* GetAll: a snapshot of the definitions, one storage read, and a          *)
(* goroutine that writes every preference it returned to the cache.        *)

AllStart(p, u) ==
    /\ Begins(p, "getall")
    /\ warm[p] = NoWarm \* bound: one warming goroutine per caller
    /\ \/ u = Empty /\ Fail(p, "getall", "ErrInvalidInput")
       \/ u # Empty /\ defs = NoPrefs /\ Fail(p, "getall", "nil")
       \/ /\ u # Empty /\ defs # NoPrefs
          /\ Proceed(p, [at |-> "all.storage", user |-> u, defs |-> defs])
    /\ UNCHANGED <<defs, store, cache, warm, past, offered, dirty>>

\* A stored preference as GetAll and GetByCategory return it: decrypted, with
\* the definition's default, type and category.
Refreshed(pref, d) == LET v == DecryptValue(pref.value, d) IN
                      IF v = None THEN None ELSE PrefOf(v, d)

\* What GetAll returns to user u, as entries of the cache.
ToWarm(u, all) == [s \in Slot |-> IF s[1] = u THEN all[s[2]] ELSE None]

AllStorage(p) ==
    /\ call[p].at = "all.storage"
    /\ LET u == call[p].user
           ds == call[p].defs
           found == {k \in Keys : ds[k] # None /\ store[<<u, k>>] # None}
           bad == {k \in found : Refreshed(store[<<u, k>>], ds[k]) = None}
           all == [k \in Keys |-> IF ds[k] = None THEN None
                                  ELSE IF k \in found THEN Refreshed(store[<<u, k>>], ds[k])
                                  ELSE DefaultPref(ds[k])]
       IN \/ /\ StorageFaults # {}
             /\ Fail(p, "getall", "ErrStorage") /\ UNCHANGED warm
          \/ /\ bad # {}
             /\ Fail(p, "getall", "ErrEncryptionFailed") /\ UNCHANGED warm
          \/ /\ bad = {}
             /\ Return(p, "getall", "nil", all)
             /\ warm' = IF HasCache THEN [warm EXCEPT ![p] = ToWarm(u, all)] ELSE warm
    /\ UNCHANGED <<defs, store, cache, past, offered, dirty>>

\* The warming goroutine writes its preferences in no particular order.
WarmStep(p, s) ==
    /\ warm[p][s] # None
    /\ CacheTakes(s, warm[p][s]) \/ CacheSkips(warm[p][s])
    /\ warm' = [warm EXCEPT ![p][s] = None]
    /\ UNCHANGED <<defs, store, call, res, past, offered, dirty>>

\* The warming goroutine shares its preferences with the map GetAll returned:
\* a caller that changes one changes what will be cached.
CallerWrites(p, s, x) ==
    /\ "mutate" \in Ops
    /\ warm[p][s] # None
    /\ warm' = [warm EXCEPT ![p][s] = [@ EXCEPT !.value = Native(x)]]
    /\ dirty' = dirty \cup {s}
    /\ UNCHANGED <<defs, store, cache, call, res, past, offered>>

-----------------------------------------------------------------------------
(* GetByCategory: one storage read, then a definition lookup per result.   *)

ByCategoryStart(p, u, cat) ==
    /\ Begins(p, "bycategory")
    /\ LET hits == {k \in Keys : store[<<u, k>>] # None /\ store[<<u, k>>].cat = cat}
           prefs == [k \in Keys |-> IF k \in hits THEN store[<<u, k>>] ELSE None]
       IN \/ Empty \in {u, cat} /\ Fail(p, "bycategory", "ErrInvalidInput")
          \/ Empty \notin {u, cat} /\ StorageFaults # {} /\ Fail(p, "bycategory", "ErrStorage")
          \/ Empty \notin {u, cat} /\ hits = {} /\ Fail(p, "bycategory", "nil")
          \/ /\ Empty \notin {u, cat} /\ hits # {}
             /\ Proceed(p, [at |-> "bycat.defs", todo |-> hits, prefs |-> prefs])
    /\ UNCHANGED <<defs, store, cache, warm, past, offered, dirty>>

ByCategoryDef(p, k) ==
    /\ call[p].at = "bycat.defs" /\ k \in call[p].todo
    /\ LET pref == IF defs[k] = None THEN call[p].prefs[k]
                   ELSE Refreshed(call[p].prefs[k], defs[k])
           prefs == [call[p].prefs EXCEPT ![k] = pref]
           todo == call[p].todo \ {k}
       IN \/ pref = None /\ Fail(p, "bycategory", "ErrEncryptionFailed")
          \/ pref # None /\ todo = {} /\ Return(p, "bycategory", "nil", prefs)
          \/ /\ pref # None /\ todo # {}
             /\ Proceed(p, [at |-> "bycat.defs", todo |-> todo, prefs |-> prefs])
    /\ UNCHANGED <<defs, store, cache, warm, past, offered, dirty>>

-----------------------------------------------------------------------------
(* Definitions, expiry, restart.                                           *)

SlotsOf(k) == {s \in Slot : s[2] = k}

DefinePreference(p, d) ==
    /\ Begins(p, "define")
    /\ \/ /\ d.key = Empty /\ Fail(p, "define", "ErrInvalidKey")
          /\ UNCHANGED <<defs, offered, dirty>>
       \/ /\ d.key # Empty /\ d.type \notin Types /\ Fail(p, "define", "ErrInvalidType")
          /\ UNCHANGED <<defs, offered, dirty>>
       \/ /\ d.key # Empty /\ d.type \in Types /\ d.encrypted /\ ~HasEncryption
          /\ Fail(p, "define", "ErrEncryptionRequired")
          /\ UNCHANGED <<defs, offered, dirty>>
       \/ /\ d \in Registered
          /\ defs' = [defs EXCEPT ![d.key] = d]
          /\ offered' = [offered EXCEPT ![d.key] = @ \cup {d}]
          /\ dirty' = IF defs[d.key] \in {None, d} THEN dirty ELSE dirty \cup SlotsOf(d.key)
          /\ Fail(p, "define", "nil")
    /\ UNCHANGED <<store, cache, warm, past>>

\* Mutant of Expire: entries are cached without a TTL.
NeverExpires(s) == FALSE /\ UNCHANGED vars

\* The 24 hours of setToCache's TTL are over.
Expire(s) ==
    /\ cache[s] # None
    /\ cache' = [cache EXCEPT ![s] = None]
    /\ dirty' = Healed(s)
    /\ UNCHANGED <<defs, store, call, warm, res, past, offered>>

\* The process dies and the application starts again: calls, goroutines and
\* whatever lived in memory are gone, rows and Redis entries are not.
Crash ==
    /\ "crash" \in Ops
    /\ defs' = InitialDefs
    /\ call' = [p \in Procs |-> Idle]
    /\ res' = [p \in Procs |-> NoResult]
    /\ warm' = [p \in Procs |-> NoWarm]
    /\ store' = IF Backend = "sql" THEN store ELSE [s \in Slot |-> None]
    /\ cache' = IF CacheDurable THEN cache ELSE [s \in Slot |-> None]
    /\ dirty' = IF CacheDurable
                THEN dirty \cup {s \in Slot : \/ Settling(s)
                                              \/ Backend = "memory"
                                              \/ defs[s[2]] # InitialDefs[s[2]]}
                ELSE {}
    /\ UNCHANGED <<past, offered>>

-----------------------------------------------------------------------------
Init ==
    /\ defs = InitialDefs
    /\ store = [s \in Slot |-> None]
    /\ cache = [s \in Slot |-> None]
    /\ call = [p \in Procs |-> Idle]
    /\ warm = [p \in Procs |-> NoWarm]
    /\ res = [p \in Procs |-> NoResult]
    /\ past = [s \in Slot |-> {}]
    /\ offered = [k \in Keys |-> {InitialDefs[k]} \ {None}]
    /\ dirty = {}

\* What a goroutine does by itself once its call has begun.
Continue(p) ==
    \/ GetCache(p) \/ GetStorage(p) \/ GetFill(p)
    \/ SetStorage(p) \/ SetCache(p)
    \/ DelStorage(p) \/ DelCache(p)
    \/ AllStorage(p)
    \/ \E k \in Keys : ByCategoryDef(p, k)

Start(p) ==
    \/ \E u \in Users \cup {Empty}, k \in Keys \cup {Empty} :
          \/ GetStart(p, u, k)
          \/ DelStart(p, u, k)
          \/ \E x \in Ids : SetStart(p, u, k, x)
    \/ \E u \in Users \cup {Empty} :
          \/ AllStart(p, u)
          \/ \E cat \in Categories \cup {Empty} : ByCategoryStart(p, u, cat)
    \/ \E d \in Definitions : DefinePreference(p, d)

Next ==
    \/ \E p \in Procs : Start(p) \/ Continue(p)
    \/ \E p \in Procs, s \in Slot : WarmStep(p, s)
    \/ \E p \in Procs, s \in Slot, x \in Ids : CallerWrites(p, s, x)
    \/ \E s \in Slot : Expire(s)
    \/ Crash

Spec == Init /\ [][Next]_vars

(* Liveness. A goroutine that has begun a call goes on with it, the warming *)
(* goroutine goes on warming, and an entry nobody rewrites expires.         *)

Rewrite(s) ==
    \E p \in Procs :
        \/ /\ GetFill(p) \/ SetCache(p)
           /\ call[p].slot = s
           /\ CacheTakes(s, call[p].pref)
        \/ WarmStep(p, s) /\ CacheTakes(s, warm[p][s])

Fairness ==
    /\ \A p \in Procs : WF_vars(Continue(p))
    /\ \A p \in Procs, s \in Slot : WF_vars(WarmStep(p, s))
    /\ \A s \in Slot : WF_vars(Expire(s) \/ Rewrite(s))

FairSpec == Spec /\ Fairness

-----------------------------------------------------------------------------
(* Properties.                                                             *)

\* Every variable keeps its shape, and a call in progress only ever works with
\* slots, definitions and preferences that exist.
TypeOK ==
    /\ defs \in [Keys -> Registered \cup {None}]
    /\ store \in [Slot -> Pref \cup {None}]
    /\ cache \in [Slot -> Pref \cup {None}]
    /\ call \in [Procs -> Calls]
    /\ warm \in [Procs -> [Slot -> Pref \cup {None}]]
    /\ res \in [Procs -> Result]
    /\ past \in [Slot -> SUBSET Ids]
    /\ offered \in [Keys -> SUBSET Registered]
    /\ dirty \subseteq Slot

\* What Get would return from pref is what it would return from the storage.
Current(pref, s) ==
    IF store[s] # None THEN pref.value.id = store[s].value.id
    ELSE defs[s[2]] # None /\ pref.value.id = defs[s[2]].dflt

Agrees(s) == cache[s] # None => Current(cache[s], s)

\* Get, Set, Delete and GetAll keep the cache in step with the storage, except
\* between the two writes of a Set or Delete, and except for slots that were
\* disturbed: the storage changed while another goroutine held a copy for the
\* cache, a cache write or delete failed, a write failed after it was applied,
\* the key was redefined, a caller changed what is being cached, or the process
\* died between the two writes. Once the entry of such a slot is deleted or
\* expires with no copy on its way, it is in step again.
CoherentUnlessDisturbed ==
    \A s \in Slot : s \notin dirty /\ ~Settling(s) => Agrees(s)

\* The cache never serves a payload that neither some accepted Set stored in
\* that slot nor some definition of its key had as its default.
NothingUnstored ==
    \A s \in Slot : cache[s] # None =>
        cache[s].value.id \in past[s] \cup {d.dflt : d \in offered[s[2]]}

\* A key that was only ever defined as encrypted never has a value in clear in
\* the storage, but for nil and the empty string (types.go: "the Manager will
\* encrypt the value before storing it").
SealedAtRest ==
    \A s \in Slot :
        (store[s] # None /\ \A d \in offered[s[2]] : d.encrypted)
            => store[s].value.form = "cipher" \/ store[s].value.id \in Blank

\* Whatever Set accepted, Get can read, if the key's definition never changed and
\* what it admits is text of its type: encryptValue and decryptValue are inverse on
\* whatever passes the type check, AllowedValues and ValidateFunc.
StoredReadable ==
    \A s \in Slot : store[s] # None /\ defs[s[2]] # None /\ offered[s[2]] = {defs[s[2]]}
                        => DecryptValue(store[s].value, defs[s[2]]) # None

\* The preferences a goroutine has been given, or that its GetByCategory has looked up.
InHand(p) == IF call[p].at = "bycat.defs"
             THEN [k \in Keys |-> IF k \in call[p].todo THEN None ELSE call[p].prefs[k]]
             ELSE res[p].prefs

EncryptionAgreed(k) == \A d, e \in offered[k] : d.encrypted = e.encrypted

\* No ciphertext is cached or returned, as long as the key's definitions have agreed
\* on encryption: values are decrypted on every way out. GetByCategory alone returns
\* a key that is not defined when it looks it up (after a restart, not yet), and as it
\* is stored.
ClearToCallers ==
    [][\A k \in Keys : EncryptionAgreed(k) =>
          /\ \A u \in Users : cache'[<<u, k>>] # None => cache'[<<u, k>>].value.form # "cipher"
          /\ \A p \in Procs : defs[k] # None /\ InHand(p)'[k] \notin {None, InHand(p)[k]}
                             => InHand(p)'[k].value.form # "cipher"]_vars

\* Once storage and definitions stop changing, the cache ends up in step with
\* the storage and stays so, whatever races and failures left behind before:
\* the 24 hours TTL of setToCache sees to it.
Converges ==
    <>[][UNCHANGED <<store, defs>>]_vars => <>[](\A s \in Slot : Agrees(s))
=============================================================================
