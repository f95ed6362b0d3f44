--------------------- MODULE PrefManagerRefinementProofs ---------------------
(***************************************************************************)
(* The Manager implements PrefService: each step of a Manager call is a    *)
(* step of the service, or one that its callers cannot see.                *)
(***************************************************************************)
EXTENDS PrefManagerHistory, PrefManagerRefinement

(***************************************************************************)
(* What the proof needs to know of the Manager beside its history.         *)
(***************************************************************************)

\* Only a Manager with a cache reads or fills one, and a GetAll has in its
\* definitions the keys the application registers when it starts.
Sound(c) ==
    /\ c.at \in {"get.cache", "get.fill"} => HasCache
    /\ c.at = "all.storage" => \A k \in Keys : InitialDefs[k] # None => c.defs[k] # None

\* A definition is offered under its own key, what is registered at the start stays
\* registered, and who is in a call has no result yet.
Attended ==
    /\ \A k \in Keys : \A d \in offered[k] : d.key = k
    /\ \A k \in Keys : InitialDefs[k] # None => defs[k] # None
    /\ \A p \in Procs : Sound(call[p]) /\ (call[p] # Idle => res[p] = NoResult)

\* A step of a goroutine ends its call or goes on with it.
LEMMA EndsOrGoesOn ==
  ASSUME NEW p \in Procs, Start(p) \/ Continue(p)
  PROVE  \/ \E c : Proceed(p, c)
         \/ \E op, err, prefs : Return(p, op, err, prefs)
<1>1. CASE Start(p)
  <2>1. ASSUME NEW u, NEW k, NEW x, GetStart(p, u, k) \/ DelStart(p, u, k) \/ SetStart(p, u, k, x)
        PROVE  (\E c : Proceed(p, c)) \/ \E op, err, prefs : Return(p, op, err, prefs)
    BY <2>1 DEF GetStart, DelStart, SetStart, Refuse, Fail
  <2>2. ASSUME NEW u, NEW cat, AllStart(p, u) \/ ByCategoryStart(p, u, cat)
        PROVE  (\E c : Proceed(p, c)) \/ \E op, err, prefs : Return(p, op, err, prefs)
    BY <2>2 DEF AllStart, ByCategoryStart, Fail
  <2>3. ASSUME NEW d, DefinePreference(p, d)
        PROVE  \E op, err, prefs : Return(p, op, err, prefs)
    BY <2>3 DEF DefinePreference, Fail
  <2>. QED  BY <1>1, <2>1, <2>2, <2>3 DEF Start
<1>2. CASE Continue(p)
  <2>1. CASE GetCache(p) \/ GetStorage(p) \/ GetFill(p)
    BY <2>1 DEF GetCache, GetStorage, GetFill, Fail
  <2>2. CASE SetStorage(p) \/ SetCache(p) \/ DelStorage(p) \/ DelCache(p)
    BY <2>2 DEF SetStorage, SetCache, DelStorage, DelCache, Fail
  <2>3. CASE AllStorage(p) \/ \E k \in Keys : ByCategoryDef(p, k)
    BY <2>3 DEF AllStorage, ByCategoryDef, Fail
  <2>. QED  BY <1>2, <2>1, <2>2, <2>3 DEF Continue
<1>. QED  BY <1>1, <1>2

\* Wherever a step of a goroutine takes its call, the call is sound.
LEMMA StepSound ==
  ASSUME TypeOK, Attended, NEW p \in Procs, Start(p) \/ Continue(p)
  PROVE  Sound(call'[p])
<1>1. ASSUME NEW op, NEW err, NEW prefs, Return(p, op, err, prefs) PROVE Sound(call'[p])
  BY <1>1 DEF Return, Idle, Sound, TypeOK
<1>2. ASSUME NEW op, NEW err, Fail(p, op, err) PROVE Sound(call'[p])
  BY <1>1, <1>2 DEF Fail
<1>3. ASSUME NEW c, Proceed(p, c), Sound(c) PROVE Sound(call'[p])
  BY <1>3 DEF Proceed, TypeOK
<1>4. ASSUME NEW c, c.at \notin {"get.cache", "get.fill", "all.storage"} PROVE Sound(c)
  BY <1>4 DEF Sound
<1>5. CASE Start(p)
  <2>1. ASSUME NEW u, NEW k, NEW x, SetStart(p, u, k, x) \/ DelStart(p, u, k)
        PROVE  Sound(call'[p])
    BY <1>2, <1>3, <1>4, <2>1 DEF SetStart, DelStart, Refuse
  <2>2. ASSUME NEW u, NEW k, GetStart(p, u, k) PROVE Sound(call'[p])
    <3>. DEFINE c == [at |-> IF HasCache THEN "get.cache" ELSE "get.storage",
                      slot |-> <<u, k>>, def |-> defs[k]]
    <3>1. Sound(c)
      BY DEF Sound
    <3>2. Proceed(p, c) \/ \E err : Fail(p, "get", err)
      BY <2>2 DEF GetStart, Refuse
    <3>. HIDE DEF c
    <3>. QED  BY <1>2, <1>3, <3>1, <3>2
  <2>3. ASSUME NEW u, AllStart(p, u) PROVE Sound(call'[p])
    <3>. DEFINE c == [at |-> "all.storage", user |-> u, defs |-> defs]
    <3>1. Sound(c)
      BY DEF Sound, Attended
    <3>2. Proceed(p, c) \/ \E err : Fail(p, "getall", err)
      BY <2>3 DEF AllStart
    <3>. HIDE DEF c
    <3>. QED  BY <1>2, <1>3, <3>1, <3>2
  <2>4. ASSUME NEW u, NEW cat, ByCategoryStart(p, u, cat) PROVE Sound(call'[p])
    BY <1>2, <1>3, <1>4, <2>4 DEF ByCategoryStart
  <2>5. ASSUME NEW d, DefinePreference(p, d) PROVE Sound(call'[p])
    BY <1>2, <2>5 DEF DefinePreference
  <2>. QED  BY <1>5, <2>1, <2>2, <2>3, <2>4, <2>5 DEF Start
<1>6. CASE Continue(p)
  <2>1. CASE GetCache(p) \/ GetFill(p)
    BY <1>1, <1>3, <1>4, <2>1 DEF GetCache, GetFill
  <2>2. CASE GetStorage(p)
    <3>1. ASSUME NEW c, HasCache, c.at = "get.fill" PROVE Sound(c)
      BY <3>1 DEF Sound
    <3>. QED  BY <1>1, <1>2, <1>3, <2>2, <3>1 DEF GetStorage
  <2>3. CASE SetStorage(p) \/ SetCache(p) \/ DelStorage(p) \/ DelCache(p)
    BY <1>1, <1>2, <1>3, <1>4, <2>3 DEF SetStorage, SetCache, DelStorage, DelCache
  <2>4. CASE AllStorage(p) \/ \E k \in Keys : ByCategoryDef(p, k)
    BY <1>1, <1>2, <1>3, <1>4, <2>4 DEF AllStorage, ByCategoryDef
  <2>. QED  BY <1>6, <2>1, <2>2, <2>3, <2>4 DEF Continue
<1>. QED  BY <1>5, <1>6

\* Only DefinePreference and a crash change the registry: one adds a definition under its
\* key, the other brings the initial ones back.
LEMMA RegistryChanges ==
  ASSUME TypeOK, [Next]_vars
  PROVE  \/ UNCHANGED <<defs, offered>>
         \/ defs' = InitialDefs /\ UNCHANGED offered
         \/ \E d \in Registered : /\ defs' = [defs EXCEPT ![d.key] = d]
                                  /\ offered' = [offered EXCEPT ![d.key] = @ \cup {d}]
<1>1. ASSUME NEW p \in Procs, NEW u, NEW k, NEW x, NEW cat,
             \/ GetStart(p, u, k) \/ DelStart(p, u, k) \/ SetStart(p, u, k, x)
             \/ AllStart(p, u) \/ ByCategoryStart(p, u, cat)
      PROVE  UNCHANGED <<defs, offered>>
  BY <1>1 DEF GetStart, DelStart, SetStart, AllStart, ByCategoryStart
<1>2. ASSUME NEW p \in Procs, Continue(p) PROVE UNCHANGED <<defs, offered>>
  BY <1>2 DEF Continue, GetCache, GetStorage, GetFill, SetStorage, SetCache, DelStorage, DelCache,
         AllStorage, ByCategoryDef
<1>3. ASSUME NEW p \in Procs, NEW d \in Definitions, DefinePreference(p, d)
      PROVE  \/ UNCHANGED <<defs, offered>>
             \/ \E e \in Registered : /\ defs' = [defs EXCEPT ![e.key] = e]
                                      /\ offered' = [offered EXCEPT ![e.key] = @ \cup {e}]
  BY <1>3 DEF DefinePreference
<1>4. ASSUME NEW p \in Procs, Start(p)
      PROVE  \/ UNCHANGED <<defs, offered>>
             \/ \E e \in Registered : /\ defs' = [defs EXCEPT ![e.key] = e]
                                      /\ offered' = [offered EXCEPT ![e.key] = @ \cup {e}]
  BY <1>1, <1>3, <1>4 DEF Start
<1>5. CASE \/ \E p \in Procs, s \in Slot : WarmStep(p, s)
           \/ \E p \in Procs, s \in Slot, x \in Ids : CallerWrites(p, s, x)
           \/ \E s \in Slot : Expire(s)
           \/ UNCHANGED vars
  BY <1>5 DEF WarmStep, CallerWrites, Expire, vars
<1>6. CASE Crash
  BY <1>6 DEF Crash
<1>. QED  BY <1>2, <1>4, <1>5, <1>6 DEF Next

LEMMA InitAttended == Init => Attended
  BY DefinitionAssumption DEF Init, Attended, Sound, Idle

LEMMA StepAttended == TypeOK /\ Attended /\ [Next]_vars => Attended'
<1>. SUFFICES ASSUME TypeOK, Attended, [Next]_vars PROVE Attended'
  OBVIOUS
<1>1. ASSUME NEW d \in Registered, defs' = [defs EXCEPT ![d.key] = d],
             offered' = [offered EXCEPT ![d.key] = @ \cup {d}], NEW k \in Keys
      PROVE  /\ \A e \in offered'[k] : e.key = k
             /\ InitialDefs[k] # None => defs'[k] # None
  BY <1>1, RegisteredType DEF TypeOK, Attended
<1>2. ASSUME NEW k \in Keys
      PROVE  /\ \A d \in offered'[k] : d.key = k
             /\ InitialDefs[k] # None => defs'[k] # None
  BY <1>1, RegistryChanges DEF Attended
<1>3. ASSUME NEW p \in Procs, Start(p) \/ Continue(p)
      PROVE  call'[p] # Idle => res'[p] = NoResult
  BY <1>3, EndsOrGoesOn DEF Proceed, Return, TypeOK
<1>4. ASSUME NEW p \in Procs PROVE Sound(call'[p]) /\ (call'[p] # Idle => res'[p] = NoResult)
  <2>1. CASE Crash
    BY <2>1 DEF Crash, Sound, Idle
  <2>. QED  BY <1>3, <2>1, StepSound, OwnSteps DEF Attended
<1>5. \A p \in Procs : Sound(call[p])' <=> Sound(call'[p])
  BY DEF Sound
<1>. QED  BY <1>2, <1>4, <1>5 DEF Attended

\* The invariant behind the refinement.
Recounted == TypeOK /\ DefsOffered /\ Attended /\ \A s \in Slot : Traced(s)

LEMMA InitRecounted == Init => Recounted
  BY InitTypes, InitOffered, InitAttended DEF Init, Recounted, Traced, Idle, NoWarm

LEMMA StepRecounted == "mutate" \notin Ops /\ Recounted /\ [Next]_vars => Recounted'
<1>1. (\A s \in Slot : Traced(s))' <=> \A s \in Slot : Traced(s)'
  OBVIOUS
<1>. QED  BY <1>1, StepTypes, StepOffered, StepAttended, StepTraced DEF Recounted

(***************************************************************************)
(* The steps of the service.                                               *)
(***************************************************************************)

\* What the service holds, waits for and has replied.
Content == [s \in Slot |-> IdOf(store[s])]
Pend == [p \in Procs |-> RequestOf(call[p])]
Replies == [p \in Procs |-> [op |-> res[p].op, ok |-> res[p].err = "nil",
                             vals |-> IdsOf(res[p].prefs)]]
DefaultIds == [k \in Keys |-> {d.dflt : d \in {e \in Definitions : e.key = k}}]
Always == {k \in Keys : InitialDefs[k] # None}

\* A preference is its payload to the service.
LEMMA IdOfIs ==
  /\ IdOf(None) = None
  /\ \A pref \in Pref : IdOf(pref) = pref.value.id /\ IdOf(pref) \in Ids /\ IdOf(pref) # None
<1>1. ASSUME NEW pref \in Pref PROVE IdOf(pref) = pref.value.id /\ IdOf(pref) \in Ids
  BY <1>1, PrefNotNone DEF IdOf, Value
<1>. QED  BY <1>1, NoneAssumption DEF IdOf

LEMMA NothingIs == IdsOf(NoPrefs) = Service!Nothing
  BY IdOfIs DEF IdsOf, NoPrefs, Service!Nothing

LEMMA OnlyIs ==
  ASSUME NEW k \in Keys, NEW pref \in Pref
  PROVE  IdsOf(Only(k, pref)) = [Service!Nothing EXCEPT ![k] = pref.value.id]
  BY IdOfIs DEF IdsOf, Only, NoPrefs, Service!Nothing

\* The defaults of the definitions a key has had are those of the service.
LEMMA DefaultIs ==
  ASSUME Recounted, NEW k \in Keys, NEW d \in offered[k]
  PROVE  d.dflt \in DefaultIds[k] /\ d \in Registered
<1>1. d \in Registered /\ d.key = k
  BY DEF Recounted, Attended, TypeOK
<1>. QED  BY <1>1 DEF DefaultIds, Registered

LEMMA GenuineIs ==
  ASSUME Recounted, NEW s \in Slot
  PROVE  Genuine(s) \subseteq past[s] \cup DefaultIds[s[2]]
<1>1. s[2] \in Keys
  BY DEF Slot
<1>. QED  BY <1>1, DefaultIs DEF Genuine

\* A call that returns is answered, with the payloads of what it returns.
LEMMA Answers ==
  ASSUME TypeOK, NEW p \in Procs, NEW op, NEW err, NEW prefs, Return(p, op, err, prefs),
         NEW ok \in BOOLEAN, ok <=> err = "nil"
  PROVE  Service!Answer(p, op, ok, IdsOf(prefs))
<1>1. /\ call' = [call EXCEPT ![p] = Idle]
      /\ res' = [res EXCEPT ![p] = [op |-> op, err |-> err, prefs |-> prefs]]
      /\ call \in [Procs -> Calls] /\ res \in [Procs -> Result]
  BY DEF Return, TypeOK
<1>2. RequestOf(Idle) = Service!Idle
  BY DEF RequestOf, Idle, Service!Idle
<1>3. Pend' = [Pend EXCEPT ![p] = Service!Idle]
  BY <1>1, <1>2 DEF Pend
<1>4. ok = (err = "nil")
  OBVIOUS
<1>5. Replies' = [Replies EXCEPT ![p] = [op |-> op, ok |-> err = "nil", vals |-> IdsOf(prefs)]]
  BY <1>1 DEF Replies
<1>6. Replies' = [Replies EXCEPT ![p] = [op |-> op, ok |-> ok, vals |-> IdsOf(prefs)]]
  BY <1>4, <1>5, Zenon
<1>. QED  BY <1>3, <1>6 DEF Pend, Replies, Service!Answer

LEMMA Failures ==
  ASSUME TypeOK, NEW p \in Procs, NEW op, NEW err, Fail(p, op, err),
         NEW ok \in BOOLEAN, ok <=> err = "nil"
  PROVE  Service!Answer(p, op, ok, Service!Nothing)
<1>1. Service!Answer(p, op, ok, IdsOf(NoPrefs))
  BY Answers DEF Fail
<1>. QED  BY <1>1, NothingIs DEF Service!Answer

\* A call that begins is requested; one that goes on waits, and nothing is replied.
LEMMA Waits ==
  ASSUME TypeOK, NEW p \in Procs, NEW c, Proceed(p, c)
  PROVE  /\ Pend' = [Pend EXCEPT ![p] = RequestOf(c)]
         /\ Replies' = [Replies EXCEPT ![p] = Service!NoReply]
<1>1. /\ call' = [call EXCEPT ![p] = c] /\ res' = [res EXCEPT ![p] = NoResult]
      /\ call \in [Procs -> Calls] /\ res \in [Procs -> Result]
  BY DEF Proceed, TypeOK
<1>2. Service!NoReply = [op |-> "none", ok |-> "nil" = "nil", vals |-> IdsOf(NoPrefs)]
  BY NothingIs DEF Service!NoReply
<1>. QED  BY <1>1, <1>2 DEF Pend, Replies, NoResult

LEMMA GoesOn ==
  ASSUME TypeOK, Attended, NEW p \in Procs, call[p] # Idle, NEW c, Proceed(p, c)
  PROVE  Pend' = [Pend EXCEPT ![p] = RequestOf(c)] /\ Replies' = Replies
<1>1. res' = res
  BY DEF Proceed, Attended, TypeOK
<1>. QED  BY <1>1, Waits DEF Replies

\* A step that leaves storage, calls and results alone cannot be seen.
LEMMA Unseen ==
  ASSUME UNCHANGED <<store, past, call, res>>
  PROVE  UNCHANGED Service!svars
  BY DEF Service!svars

\* A call in progress stands for a request, an idle goroutine for none.
LEMMA RequestOfIs ==
  ASSUME NEW c \in Calls
  PROVE  /\ RequestOf(Idle) = Service!Idle
         /\ c.at \in {"get.cache", "get.storage", "get.fill"}
               => RequestOf(c) = [op |-> "get", slot |-> c.slot]
         /\ c.at = "set.storage" => RequestOf(c) = [op |-> "set", slot |-> c.slot, x |-> c.x]
         /\ c.at = "set.cache" => RequestOf(c) = [op |-> "done", what |-> "set"]
         /\ c.at = "del.storage" => RequestOf(c) = [op |-> "delete", slot |-> c.slot]
         /\ c.at = "del.cache" => RequestOf(c) = [op |-> "done", what |-> "delete"]
         /\ c.at = "all.storage" => RequestOf(c) = [op |-> "getall", user |-> c.user]
         /\ c.at = "bycat.defs" => RequestOf(c) = [op |-> "bycategory", vals |-> IdsOf(c.prefs)]
  BY DEF RequestOf, Idle, Service!Idle

\* A failure, and the answer to a call that has not begun.
LEMMA Refusals ==
  ASSUME TypeOK, NEW p \in Procs, NEW op \in OpNames, NEW err, err # "nil",
         Fail(p, op, err), UNCHANGED <<store, past>>,
         Pend[p].op \in {"idle", op}
  PROVE  Service!Refused(p)
<1>1. Service!Answer(p, op, FALSE, Service!Nothing)
  BY Failures
<1>. QED  BY <1>1 DEF Service!Refused, OpNames, Pend
LEMMA IdlePend ==
  ASSUME NEW p \in Procs, call[p] = Idle
  PROVE  Pend[p] = Service!Idle /\ Pend[p].op = "idle"
  BY DEF Pend, RequestOf, Idle, Service!Idle

\* A call that begins is a request of the service.
LEMMA Requested ==
  ASSUME TypeOK, NEW p \in Procs, call[p] = Idle, NEW c, Proceed(p, c),
         UNCHANGED <<store, past>>, NEW r \in Service!Requests, RequestOf(c) = r
  PROVE  Service!Request(p, r)
<1>1. Pend[p] = Service!Idle
  BY IdlePend
<1>. QED  BY <1>1, Waits DEF Service!Request, Pend, Replies

\* Without an effect on the storage, the service's contents stay.
LEMMA Refuses ==
  ASSUME TypeOK, NEW p \in Procs, call[p] = Idle, NEW op \in OpNames, NEW u, NEW k,
         Refuse(p, op, u, k), UNCHANGED <<store, past>>
  PROVE  Service!Refused(p)
  BY IdlePend, Refusals DEF Refuse

LEMMA GetStarts ==
  ASSUME Recounted, NEW p \in Procs, NEW u \in Users \cup {Empty}, NEW k \in Keys \cup {Empty},
         GetStart(p, u, k)
  PROVE  Service!Refused(p) \/ \E r \in Service!Requests : Service!Request(p, r)
<1>1. TypeOK /\ call[p] = Idle /\ UNCHANGED <<store, past>>
  BY DEF Recounted, GetStart, Begins
<1>2. CASE Refuse(p, "get", u, k)
  BY <1>1, <1>2, Refuses DEF OpNames
<1>3. CASE Known(u, k)
  <2>. DEFINE c == [at |-> IF HasCache THEN "get.cache" ELSE "get.storage",
                    slot |-> <<u, k>>, def |-> defs[k]]
              r == [op |-> "get", slot |-> <<u, k>>]
  <2>1. RequestOf(c) = r
    BY DEF RequestOf
  <2>2. r \in Service!Requests
    BY <1>3, KnownType, <1>1 DEF Service!Requests, Service!Slot, Slot
  <2>3. Refuse(p, "get", u, k) \/ Proceed(p, c)
    BY DEF GetStart
  <2>. HIDE DEF c, r
  <2>. QED  BY <1>1, <1>2, <2>1, <2>2, <2>3, Requested
<1>. QED  BY <1>2, <1>3 DEF GetStart

\* A Get that answers with a present payload, or with an old one if there is a cache.
LEMMA GetAnswers ==
  ASSUME Recounted, NEW p \in Procs, NEW s \in Slot, NEW pref \in Pref,
         Pend[p] = [op |-> "get", slot |-> s],
         Return(p, "get", "nil", Only(s[2], pref)), UNCHANGED <<store, past>>,
         \/ /\ store[s] = None
            /\ pref.value.id \in DefaultIds[s[2]]
         \/ /\ store[s] # None
            /\ pref.value.id = store[s].value.id
         \/ /\ HasCache
            /\ pref.value.id \in past[s] \cup DefaultIds[s[2]]
  PROVE  Service!Get(p)
<1>. DEFINE x == pref.value.id
            may == Service!Readings(s) \cup (IF HasCache THEN past[s] \cup DefaultIds[s[2]] ELSE {})
<1>1. s[2] \in Keys /\ store[s] \in Pref \cup {None}
  BY DEF Slot, Recounted, TypeOK
<1>2. Service!Answer(p, "get", TRUE, [Service!Nothing EXCEPT ![s[2]] = x])
  <2>1. Service!Answer(p, "get", TRUE, IdsOf(Only(s[2], pref)))
    BY Answers DEF Recounted
  <2>. QED  BY <1>1, <2>1, OnlyIs DEF Service!Answer
<1>3. x \in may
  BY <1>1, IdOfIs DEF Service!Readings, DefaultIds
<1>. HIDE DEF x
<1>4. Pend[p].op = "get" /\ Pend[p].slot = s
  OBVIOUS
<1>5. Content' = Content /\ past' = past
  BY DEF Content
<1>6. Service!Answer(p, "get", TRUE, [Service!Nothing EXCEPT ![Pend[p].slot[2]] = x])
  BY <1>2, <1>4 DEF Service!Answer
<1>7. x \in Service!Readings(Pend[p].slot)
          \cup (IF HasCache THEN past[Pend[p].slot] \cup DefaultIds[Pend[p].slot[2]] ELSE {})
  BY <1>3, <1>4 DEF Service!Readings
<1>. QED  BY <1>4, <1>5, <1>6, <1>7 DEF Service!Get, Pend, Content, DefaultIds

LEMMA GetDefaults ==
  ASSUME Recounted, NEW p \in Procs, NEW s \in Slot, NEW pref \in Pref, NEW err, err # "nil",
         Pend[p] = [op |-> "get", slot |-> s], HasCache,
         Return(p, "get", err, Only(s[2], pref)), UNCHANGED <<store, past>>,
         pref.value.id \in DefaultIds[s[2]]
  PROVE  Service!GetDefault(p)
<1>. DEFINE x == pref.value.id
<1>1. s[2] \in Keys
  BY DEF Slot
<1>2. Service!Answer(p, "get", FALSE, [Service!Nothing EXCEPT ![s[2]] = x])
  <2>1. Service!Answer(p, "get", FALSE, IdsOf(Only(s[2], pref)))
    BY Answers DEF Recounted
  <2>. QED  BY <1>1, <2>1, OnlyIs DEF Service!Answer
<1>. HIDE DEF x
<1>3. Pend[p].op = "get" /\ Pend[p].slot = s /\ x \in DefaultIds[Pend[p].slot[2]]
  BY DEF x
<1>4. Content' = Content /\ past' = past
  BY DEF Content
<1>5. Service!Answer(p, "get", FALSE, [Service!Nothing EXCEPT ![Pend[p].slot[2]] = x])
  BY <1>2, <1>3 DEF Service!Answer
<1>. QED  BY <1>3, <1>4, <1>5 DEF Service!GetDefault, Pend, Content, DefaultIds

\* A call that goes on under the same request cannot be seen.
LEMMA StillWaits ==
  ASSUME Recounted, NEW p \in Procs, call[p] # Idle, NEW c, Proceed(p, c),
         RequestOf(c) = Pend[p], UNCHANGED <<store, past>>
  PROVE  UNCHANGED Service!svars
<1>1. Pend' = Pend
  BY GoesOn DEF Recounted, Pend
<1>2. Replies' = Replies
  BY GoesOn DEF Recounted
<1>. QED  BY <1>1, <1>2 DEF Pend, Replies, Service!svars

LEMMA GetContinues ==
  ASSUME Recounted, NEW p \in Procs, GetCache(p) \/ GetStorage(p) \/ GetFill(p)
  PROVE  \/ Service!Get(p) \/ Service!GetDefault(p) \/ Service!Refused(p)
         \/ UNCHANGED Service!svars
<1>. DEFINE s == call[p].slot
<1>0. /\ call[p] \in Calls /\ call[p].at \in {"get.cache", "get.storage", "get.fill"}
      /\ UNCHANGED <<store, past>> /\ TypeOK
  BY DEF GetCache, GetStorage, GetFill, Recounted, TypeOK
<1>1. /\ s \in Slot /\ s[2] \in Keys /\ call[p] # Idle
      /\ call[p].at \in {"get.cache", "get.storage"} => call[p].def \in offered[s[2]]
      /\ Sound(call[p]) /\ Traced(s)
  BY <1>0, CallFields DEF Slot, Idle, Recounted, DefsOffered, Attended
<1>2. Pend[p] = [op |-> "get", slot |-> s]
  BY <1>0, RequestOfIs DEF Pend
<1>3. PICK t : t = s
  OBVIOUS
<1>. HIDE DEF s
<1>4. ASSUME NEW d \in offered[t[2]], d = call[p].def
      PROVE  /\ DefaultPref(d) \in Pref /\ DefaultPref(d).value.id = d.dflt
             /\ d.dflt \in DefaultIds[t[2]]
  BY <1>1, <1>3, <1>4, DefaultIs, DefaultPrefType
<1>5. CASE GetCache(p)
  <2>1. PICK d : d = call[p].def
    OBVIOUS
  <2>2. HasCache /\ d \in offered[t[2]]
    BY <1>1, <1>3, <1>5, <2>1 DEF Sound, GetCache
  <2>3. PICK pref : pref = cache[t]
    OBVIOUS
  <2>4. \/ pref # None /\ Return(p, "get", "nil", Only(t[2], pref))
        \/ Proceed(p, [at |-> "get.storage", slot |-> t, def |-> d])
        \/ Return(p, "get", "ErrCache", Only(t[2], DefaultPref(d)))
    BY <1>3, <1>5, <2>1, <2>3 DEF GetCache, s
  <2>5. pref # None => pref \in Pref /\ pref.value.id \in past[t] \cup DefaultIds[t[2]]
    BY <1>1, <1>3, <2>3, GenuineIs DEF Traced, Recounted, TypeOK
  <2>6. ASSUME pref # None, Return(p, "get", "nil", Only(t[2], pref)) PROVE Service!Get(p)
    BY <1>0, <1>1, <1>2, <1>3, <2>2, <2>5, <2>6, GetAnswers
  <2>7. ASSUME Return(p, "get", "ErrCache", Only(t[2], DefaultPref(d))) PROVE Service!GetDefault(p)
    BY <1>0, <1>1, <1>2, <1>3, <1>4, <2>1, <2>2, <2>7, GetDefaults
  <2>8. ASSUME NEW c, c = [at |-> "get.storage", slot |-> t, def |-> d], Proceed(p, c)
        PROVE  UNCHANGED Service!svars
    <3>1. RequestOf(c) = [op |-> "get", slot |-> t]
      BY <2>8 DEF RequestOf
    <3>. QED  BY <1>0, <1>1, <1>2, <1>3, <2>8, <3>1, StillWaits
  <2>. QED  BY <2>4, <2>6, <2>7, <2>8
<1>6. CASE GetStorage(p)
  <2>1. PICK d : d = call[p].def
    OBVIOUS
  <2>2. d \in offered[t[2]]
    BY <1>1, <1>3, <1>6, <2>1 DEF GetStorage
  <2>3. PICK pref : pref = Decrypted(store[t], d)
    OBVIOUS
  <2>4. \/ store[t] = None /\ Return(p, "get", "nil", Only(t[2], DefaultPref(d)))
        \/ \E err : err # "nil" /\ Fail(p, "get", err)
        \/ /\ store[t] # None /\ pref # None
           /\ \/ Proceed(p, [at |-> "get.fill", slot |-> t, pref |-> pref])
              \/ Return(p, "get", "nil", Only(t[2], pref))
    BY <1>3, <1>6, <2>1, <2>3 DEF GetStorage, s
  <2>5. ASSUME store[t] # None, pref # None
        PROVE  pref \in Pref /\ pref.value.id = store[t].value.id
    <3>1. store[t] \in Pref
      BY <1>1, <1>3, <2>5 DEF Recounted, TypeOK
    <3>. QED  BY <2>3, <2>5, <3>1, DecryptedType
  <2>6. ASSUME store[t] = None, Return(p, "get", "nil", Only(t[2], DefaultPref(d)))
        PROVE  Service!Get(p)
    BY <1>0, <1>1, <1>2, <1>3, <1>4, <2>1, <2>2, <2>6, GetAnswers
  <2>7. ASSUME store[t] # None, pref # None, Return(p, "get", "nil", Only(t[2], pref))
        PROVE  Service!Get(p)
    BY <1>0, <1>1, <1>2, <1>3, <2>5, <2>7, GetAnswers
  <2>8. ASSUME NEW c, c = [at |-> "get.fill", slot |-> t, pref |-> pref], Proceed(p, c)
        PROVE  UNCHANGED Service!svars
    <3>1. RequestOf(c) = [op |-> "get", slot |-> t]
      BY <2>8 DEF RequestOf
    <3>. QED  BY <1>0, <1>1, <1>2, <1>3, <2>8, <3>1, StillWaits
  <2>9. ASSUME NEW err, err # "nil", Fail(p, "get", err) PROVE Service!Refused(p)
    BY <1>0, <1>2, <2>9, Refusals DEF OpNames
  <2>. QED  BY <2>4, <2>6, <2>7, <2>8, <2>9
<1>7. CASE GetFill(p)
  <2>1. PICK pref : pref = call[p].pref
    OBVIOUS
  <2>2. Return(p, "get", "nil", Only(t[2], pref)) /\ HasCache
    BY <1>1, <1>3, <1>7, <2>1 DEF GetFill, Sound, s
  <2>3. pref \in Pref /\ pref.value.id \in past[t] \cup DefaultIds[t[2]]
    <3>1. call[p].at = "get.fill" /\ call[p].slot = t
      BY <1>3, <1>7 DEF GetFill, s
    <3>2. pref \in Pref
      BY <1>0, <2>1, <3>1, CallFields
    <3>. QED  BY <1>1, <1>3, <2>1, <3>1, <3>2, GenuineIs DEF Traced
  <2>. QED  BY <1>0, <1>1, <1>2, <1>3, <2>2, <2>3, GetAnswers
<1>. QED  BY <1>5, <1>6, <1>7
LEMMA SetStarts ==
  ASSUME Recounted, NEW p \in Procs, NEW u \in Users \cup {Empty}, NEW k \in Keys \cup {Empty},
         NEW x \in Ids, SetStart(p, u, k, x)
  PROVE  Service!Refused(p) \/ \E r \in Service!Requests : Service!Request(p, r)
<1>1. TypeOK /\ call[p] = Idle /\ UNCHANGED <<store, past>> /\ Pend[p].op = "idle"
  BY IdlePend DEF Recounted, SetStart, Begins
<1>2. CASE Refuse(p, "set", u, k)
  BY <1>1, <1>2, Refuses DEF OpNames
<1>3. CASE Known(u, k) /\ \E err : err # "nil" /\ Fail(p, "set", err)
  BY <1>1, <1>3, Refusals DEF OpNames
<1>4. ASSUME Known(u, k), NEW c, Proceed(p, c),
             c = [at |-> "set.storage", slot |-> <<u, k>>, def |-> defs[k], x |-> x]
      PROVE  \E r \in Service!Requests : Service!Request(p, r)
  <2>. DEFINE r == [op |-> "set", slot |-> <<u, k>>, x |-> x]
  <2>1. RequestOf(c) = r
    BY <1>4 DEF RequestOf
  <2>2. r \in Service!Requests
    BY <1>1, <1>4, KnownType DEF Service!Requests, Service!Slot, Slot
  <2>. HIDE DEF r
  <2>. QED  BY <1>1, <1>4, <2>1, <2>2, Requested
<1>. QED  BY <1>2, <1>3, <1>4 DEF SetStart

LEMMA DelStarts ==
  ASSUME Recounted, NEW p \in Procs, NEW u \in Users \cup {Empty}, NEW k \in Keys \cup {Empty},
         DelStart(p, u, k)
  PROVE  Service!Refused(p) \/ \E r \in Service!Requests : Service!Request(p, r)
<1>1. TypeOK /\ call[p] = Idle /\ UNCHANGED <<store, past>>
  BY DEF Recounted, DelStart, Begins
<1>2. CASE Refuse(p, "delete", u, k)
  BY <1>1, <1>2, Refuses DEF OpNames
<1>3. ASSUME Known(u, k), NEW c, Proceed(p, c), c = [at |-> "del.storage", slot |-> <<u, k>>]
      PROVE  \E r \in Service!Requests : Service!Request(p, r)
  <2>. DEFINE r == [op |-> "delete", slot |-> <<u, k>>]
  <2>1. RequestOf(c) = r
    BY <1>3 DEF RequestOf
  <2>2. r \in Service!Requests
    BY <1>1, <1>3, KnownType DEF Service!Requests, Service!Slot, Slot
  <2>. HIDE DEF r
  <2>. QED  BY <1>1, <1>3, <2>1, <2>2, Requested
<1>. QED  BY <1>2, <1>3 DEF DelStart

\* What the service sees of a write: answered at once, or not yet.
Answered(p, op) ==
    \/ \E err : Fail(p, op, err)
    \/ \E c : Proceed(p, c) /\ RequestOf(c) = [op |-> "done", what |-> op]

LEMMA WriteAnswers ==
  ASSUME TypeOK, Attended, NEW p \in Procs, call[p] # Idle, NEW op, Answered(p, op), Pend[p].op = op
  PROVE  \/ \E ok \in BOOLEAN : Service!Answer(p, Pend[p].op, ok, Service!Nothing)
         \/ /\ Pend' = [Pend EXCEPT ![p] = [op |-> "done", what |-> Pend[p].op]]
            /\ Replies' = Replies
<1>1. ASSUME NEW err, Fail(p, op, err)
      PROVE  \E ok \in BOOLEAN : Service!Answer(p, Pend[p].op, ok, Service!Nothing)
  <2>1. PICK ok \in BOOLEAN : ok <=> err = "nil"
    OBVIOUS
  <2>2. Service!Answer(p, op, ok, Service!Nothing)
    BY <1>1, <2>1, Failures
  <2>. QED  BY <2>2
<1>2. ASSUME NEW c, Proceed(p, c), RequestOf(c) = [op |-> "done", what |-> op]
      PROVE  /\ Pend' = [Pend EXCEPT ![p] = [op |-> "done", what |-> Pend[p].op]]
             /\ Replies' = Replies
  BY <1>2, GoesOn
<1>. QED  BY <1>1, <1>2 DEF Answered

LEMMA SetWrites ==
  ASSUME Recounted, NEW p \in Procs, NEW s \in Slot, NEW x \in Ids, NEW pref \in Pref,
         call[p] # Idle, Pend[p] = [op |-> "set", slot |-> s, x |-> x], Answered(p, "set"),
         store' = [store EXCEPT ![s] = pref], pref.value.id = x,
         past' = [past EXCEPT ![s] = @ \cup {x}]
  PROVE  Service!Write(p)
<1>1. Pend[p].op = "set" /\ Pend[p].slot = s /\ Pend[p].x = x
  OBVIOUS
<1>2. store \in [Slot -> Pref \cup {None}] /\ IdOf(pref) = x
  BY IdOfIs DEF Recounted, TypeOK
<1>3. Content' = [Content EXCEPT ![s] = x]
  BY <1>2 DEF Content
<1>4. /\ Content' = [Content EXCEPT ![Pend[p].slot] =
                        IF Pend[p].op = "set" THEN Pend[p].x ELSE None]
      /\ past' = IF Pend[p].op = "set"
                 THEN [past EXCEPT ![Pend[p].slot] = @ \cup {Pend[p].x}] ELSE past
      /\ Pend[p].op \in {"set", "delete"}
  BY <1>1, <1>3
<1>5. \/ \E ok \in BOOLEAN : Service!Answer(p, Pend[p].op, ok, Service!Nothing)
      \/ /\ Pend' = [Pend EXCEPT ![p] = [op |-> "done", what |-> Pend[p].op]]
         /\ Replies' = Replies
  BY <1>1, WriteAnswers DEF Recounted
<1>. QED  BY <1>4, <1>5 DEF Service!Write, Pend, Replies, Content

LEMMA DeleteWrites ==
  ASSUME Recounted, NEW p \in Procs, NEW s \in Slot,
         call[p] # Idle, Pend[p] = [op |-> "delete", slot |-> s], Answered(p, "delete"),
         store' = [store EXCEPT ![s] = None], past' = past
  PROVE  Service!Write(p)
<1>1. Pend[p].op = "delete" /\ Pend[p].slot = s
  OBVIOUS
<1>2. Content' = [Content EXCEPT ![s] = None]
  BY IdOfIs DEF Content, Recounted, TypeOK
<1>3. /\ Content' = [Content EXCEPT ![Pend[p].slot] =
                        IF Pend[p].op = "set" THEN Pend[p].x ELSE None]
      /\ past' = IF Pend[p].op = "set"
                 THEN [past EXCEPT ![Pend[p].slot] = @ \cup {Pend[p].x}] ELSE past
      /\ Pend[p].op \in {"set", "delete"}
  BY <1>1, <1>2
<1>4. \/ \E ok \in BOOLEAN : Service!Answer(p, Pend[p].op, ok, Service!Nothing)
      \/ /\ Pend' = [Pend EXCEPT ![p] = [op |-> "done", what |-> Pend[p].op]]
         /\ Replies' = Replies
  BY <1>1, WriteAnswers DEF Recounted
<1>. QED  BY <1>3, <1>4 DEF Service!Write, Pend, Replies, Content

LEMMA SetStorages ==
  ASSUME Recounted, NEW p \in Procs, SetStorage(p)
  PROVE  Service!Write(p) \/ Service!Refused(p)
<1>0. /\ call[p] \in Calls /\ call[p].at = "set.storage" /\ call[p] # Idle
      /\ TypeOK
  BY DEF SetStorage, Recounted, TypeOK, Idle
<1>1. PICK s, d, x : s = call[p].slot /\ d = call[p].def /\ x = call[p].x
  OBVIOUS
<1>2. s \in Slot /\ d \in Registered /\ x \in Ids /\ EncryptValue(x, d) # None
  BY <1>0, <1>1, CallFields
<1>3. Pend[p] = [op |-> "set", slot |-> s, x |-> x]
  BY <1>0, <1>1, RequestOfIs DEF Pend
<1>4. PICK pref : pref = PrefOf(EncryptValue(x, d), d)
  OBVIOUS
<1>5. pref \in Pref /\ pref.value.id = x
  BY <1>2, <1>4, EncryptType, PrefOfType
<1>6. PICK copy : copy = PrefOf(Native(x), d)
  OBVIOUS
<1>7. \/ /\ Stores(s, pref, x)
         /\ \/ Proceed(p, [at |-> "set.cache", slot |-> s, pref |-> copy])
            \/ \E err : Fail(p, "set", err)
      \/ /\ \E err : err # "nil" /\ Fail(p, "set", err)
         /\ UNCHANGED <<store, past>>
  BY <1>1, <1>4, <1>6 DEF SetStorage
<1>8. ASSUME NEW err, err # "nil", Fail(p, "set", err), UNCHANGED <<store, past>>
      PROVE  Service!Refused(p)
  BY <1>0, <1>3, <1>8, Refusals DEF OpNames
<1>9. RequestOf([at |-> "set.cache", slot |-> s, pref |-> copy]) = [op |-> "done", what |-> "set"]
  BY DEF RequestOf
<1>10. ASSUME Stores(s, pref, x), Answered(p, "set") PROVE Service!Write(p)
  <2>1. PICK new : new = Upserted(store[s], pref)
    OBVIOUS
  <2>2. new \in Pref /\ new.value.id = x
    BY <1>2, <1>5, <2>1, UpsertedType DEF Recounted, TypeOK
  <2>3. store' = [store EXCEPT ![s] = new] /\ past' = [past EXCEPT ![s] = @ \cup {x}]
    BY <1>10, <2>1 DEF Stores
  <2>. QED  BY <1>0, <1>2, <1>3, <1>10, <2>2, <2>3, SetWrites
<1>. QED  BY <1>7, <1>8, <1>9, <1>10 DEF Answered

LEMMA DelStorages ==
  ASSUME Recounted, NEW p \in Procs, DelStorage(p)
  PROVE  Service!Write(p) \/ Service!Refused(p)
<1>0. /\ call[p] \in Calls /\ call[p].at = "del.storage" /\ call[p] # Idle
      /\ TypeOK /\ UNCHANGED past
  BY DEF DelStorage, Recounted, TypeOK, Idle
<1>1. PICK s : s = call[p].slot
  OBVIOUS
<1>2. s \in Slot /\ Pend[p] = [op |-> "delete", slot |-> s]
  BY <1>0, <1>1, CallFields, RequestOfIs DEF Pend
<1>3. \/ /\ store' = [store EXCEPT ![s] = None]
         /\ \/ Proceed(p, [at |-> "del.cache", slot |-> s])
            \/ \E err : Fail(p, "delete", err)
      \/ /\ \E err : err # "nil" /\ Fail(p, "delete", err)
         /\ UNCHANGED store
  BY <1>1 DEF DelStorage
<1>4. ASSUME NEW err, err # "nil", Fail(p, "delete", err), UNCHANGED store
      PROVE  Service!Refused(p)
  BY <1>0, <1>2, <1>4, Refusals DEF OpNames
<1>5. RequestOf([at |-> "del.cache", slot |-> s]) = [op |-> "done", what |-> "delete"]
  BY DEF RequestOf
<1>6. ASSUME store' = [store EXCEPT ![s] = None], Answered(p, "delete") PROVE Service!Write(p)
  BY <1>0, <1>2, <1>6, DeleteWrites
<1>. QED  BY <1>3, <1>4, <1>5, <1>6 DEF Answered

\* After the cache call that follows a write, its answer.
LEMMA CacheWrites ==
  ASSUME Recounted, NEW p \in Procs, SetCache(p) \/ DelCache(p)
  PROVE  Service!Done(p)
<1>1. PICK op \in {"set", "delete"} : /\ call[p].at = IF op = "set" THEN "set.cache" ELSE "del.cache"
                                      /\ Fail(p, op, "nil")
  BY DEF SetCache, DelCache, Fail
<1>2. TypeOK /\ call[p] \in Calls /\ UNCHANGED <<store, past>>
  BY DEF SetCache, DelCache, Recounted, TypeOK
<1>3. Pend[p] = [op |-> "done", what |-> op]
  BY <1>1, <1>2, RequestOfIs DEF Pend
<1>4. Pend[p].op = "done" /\ Pend[p].what = op
  BY <1>3
<1>5. Service!Answer(p, op, TRUE, Service!Nothing)
  BY <1>1, <1>2, Failures
<1>6. Service!Answer(p, Pend[p].what, TRUE, Service!Nothing)
  BY <1>4, <1>5
<1>7. Content' = Content /\ past' = past
  BY <1>2 DEF Content
<1>. QED  BY <1>4, <1>6, <1>7 DEF Service!Done, Pend, Content
\* A call that ends at once, with nothing to return and no error.
LEMMA Trivially ==
  ASSUME TypeOK, NEW p \in Procs, call[p] = Idle, NEW op \in {"define", "getall", "bycategory"},
         op = "getall" => Always = {}, Fail(p, op, "nil"), UNCHANGED <<store, past>>
  PROVE  Service!Trivial(p)
<1>1. Pend[p] = Service!Idle
  BY IdlePend
<1>2. Service!Answer(p, op, TRUE, Service!Nothing)
  BY Failures
<1>3. Content' = Content /\ past' = past
  BY DEF Content
<1>. QED  BY <1>1, <1>2, <1>3 DEF Service!Trivial, Pend, Content, Always

LEMMA AllStarts ==
  ASSUME Recounted, NEW p \in Procs, NEW u \in Users \cup {Empty}, AllStart(p, u)
  PROVE  \/ Service!Refused(p) \/ Service!Trivial(p)
         \/ \E r \in Service!Requests : Service!Request(p, r)
<1>1. TypeOK /\ call[p] = Idle /\ UNCHANGED <<store, past>> /\ Pend[p].op = "idle"
  BY IdlePend DEF Recounted, AllStart, Begins
<1>2. CASE Fail(p, "getall", "ErrInvalidInput")
  BY <1>1, <1>2, Refusals DEF OpNames
<1>3. CASE defs = NoPrefs /\ Fail(p, "getall", "nil")
  <2>1. Always = {}
    BY <1>3 DEF Always, NoPrefs, Recounted, Attended
  <2>. QED  BY <1>1, <1>3, <2>1, Trivially
<1>4. ASSUME u # Empty, NEW c, Proceed(p, c), c = [at |-> "all.storage", user |-> u, defs |-> defs]
      PROVE  \E r \in Service!Requests : Service!Request(p, r)
  <2>. DEFINE r == [op |-> "getall", user |-> u]
  <2>1. RequestOf(c) = r
    BY <1>4 DEF RequestOf
  <2>2. r \in Service!Requests
    BY <1>4 DEF Service!Requests
  <2>. HIDE DEF r
  <2>. QED  BY <1>1, <1>4, <2>1, <2>2, Requested
<1>. QED  BY <1>2, <1>3, <1>4 DEF AllStart

\* A GetAll answers for every key of its definitions with what is stored, or the default.
LEMMA AllAnswers ==
  ASSUME Recounted, NEW p \in Procs, AllStorage(p)
  PROVE  Service!GetAll(p) \/ Service!Refused(p)
<1>0. /\ call[p] \in Calls /\ call[p].at = "all.storage" /\ TypeOK /\ DefsOffered
      /\ UNCHANGED <<store, past>> /\ Sound(call[p])
  BY DEF AllStorage, Recounted, Attended, TypeOK
<1>1. PICK u : u = call[p].user
  OBVIOUS
<1>2. u \in Users /\ Pend[p] = [op |-> "getall", user |-> u]
  BY <1>0, <1>1, CallFields, RequestOfIs DEF Pend
<1>3. CASE \E err : err # "nil" /\ Fail(p, "getall", err)
  BY <1>0, <1>2, <1>3, Refusals DEF OpNames
<1>4. ASSUME NEW all \in [Keys -> Pref \cup {None}], Return(p, "getall", "nil", all),
             \A k \in Keys : all[k] = None <=> call[p].defs[k] = None,
             \A k \in Keys : all[k] # None =>
                \E d \in offered[k] :
                   \/ store[<<u, k>>] = None /\ all[k] = DefaultPref(d)
                   \/ store[<<u, k>>] # None /\ all[k] = Refreshed(store[<<u, k>>], d)
      PROVE  Service!GetAll(p)
  <2>1. PICK vals : vals = IdsOf(all)
    OBVIOUS
  <2>2. Service!Answer(p, "getall", TRUE, vals)
    BY <1>0, <1>4, <2>1, Answers
  <2>3. vals \in [Keys -> Ids \cup {None}]
    BY <1>4, <2>1, IdOfIs DEF IdsOf
  <2>4. ASSUME NEW k \in Keys, vals[k] = None PROVE k \notin Always
    <3>1. all[k] = None
      BY <1>4, <2>1, <2>4, IdOfIs DEF IdsOf
    <3>. QED  BY <1>0, <1>4, <3>1 DEF Sound, Always
  <2>5. ASSUME NEW k \in Keys, vals[k] # None PROVE vals[k] \in Service!Readings(<<u, k>>)
    <3>1. all[k] \in Pref /\ vals[k] = all[k].value.id /\ all[k] # None
      BY <1>4, <2>1, <2>5, IdOfIs DEF IdsOf
    <3>2. PICK d \in offered[k] :
             \/ store[<<u, k>>] = None /\ all[k] = DefaultPref(d)
             \/ store[<<u, k>>] # None /\ all[k] = Refreshed(store[<<u, k>>], d)
      BY <1>4, <3>1
    <3>3. d \in Registered /\ d.dflt \in DefaultIds[k]
      BY DefaultIs
    <3>4. PICK old : old = store[<<u, k>>]
      OBVIOUS
    <3>5. <<u, k>> \in Slot /\ old \in Pref \cup {None} /\ Content[<<u, k>>] = IdOf(old)
      BY <1>0, <1>2, <3>4 DEF Slot, TypeOK, Content
    <3>6. CASE old = None
      <4>1. vals[k] = d.dflt /\ Content[<<u, k>>] = None
        BY <3>1, <3>2, <3>3, <3>4, <3>5, <3>6, DefaultPrefType, IdOfIs
      <4>. QED  BY <3>3, <4>1 DEF Service!Readings, Content, DefaultIds
    <3>7. CASE old # None
      <4>1. vals[k] = old.value.id /\ Content[<<u, k>>] = old.value.id /\ old.value.id # None
        BY <3>1, <3>2, <3>3, <3>4, <3>5, <3>7, RefreshedType, IdOfIs
      <4>. QED  BY <4>1 DEF Service!Readings, Content
    <3>. QED  BY <3>6, <3>7
  <2>6. Pend[p].op = "getall" /\ Pend[p].user = u
    BY <1>2
  <2>7. \A k \in Keys : IF vals[k] = None THEN k \notin Always
                        ELSE vals[k] \in Service!Readings(<<Pend[p].user, k>>)
    BY <2>4, <2>5, <2>6 DEF Service!Readings
  <2>8. Content' = Content /\ past' = past
    BY <1>0 DEF Content
  <2>. QED  BY <2>2, <2>3, <2>6, <2>7, <2>8 DEF Service!GetAll, Pend, Content, Always
<1>. QED  BY <1>0, <1>1, <1>3, <1>4, AllReturns

LEMMA ByCategoryStarts ==
  ASSUME Recounted, NEW p \in Procs, NEW u \in Users \cup {Empty}, NEW cat,
         ByCategoryStart(p, u, cat)
  PROVE  Service!Refused(p) \/ Service!Trivial(p) \/ Service!Snapshot(p)
<1>1. TypeOK /\ call[p] = Idle /\ UNCHANGED <<store, past>> /\ Pend[p] = Service!Idle
      /\ Pend[p].op = "idle"
  BY IdlePend DEF Recounted, ByCategoryStart, Begins
<1>. DEFINE hits == {k \in Keys : store[<<u, k>>] # None /\ store[<<u, k>>].cat = cat}
            prefs == [k \in Keys |-> IF k \in hits THEN store[<<u, k>>] ELSE None]
<1>2. hits \in SUBSET Keys
  OBVIOUS
<1>3. PICK K \in SUBSET Keys : K = hits
  BY <1>2
<1>4. PICK some : some = [k \in Keys |-> IF k \in K THEN store[<<u, k>>] ELSE None]
  OBVIOUS
<1>5. prefs = some
  BY <1>3, <1>4
<1>. HIDE DEF hits, prefs
<1>6. \/ \E err : err # "nil" /\ Fail(p, "bycategory", err)
      \/ Fail(p, "bycategory", "nil")
      \/ u # Empty /\ Proceed(p, [at |-> "bycat.defs", todo |-> K, prefs |-> some])
  BY <1>3, <1>5 DEF ByCategoryStart, hits, prefs
<1>7. CASE \E err : err # "nil" /\ Fail(p, "bycategory", err)
  BY <1>1, <1>7, Refusals DEF OpNames
<1>8. CASE Fail(p, "bycategory", "nil")
  BY <1>1, <1>8, Trivially
<1>9. ASSUME u # Empty, NEW c, Proceed(p, c),
             c = [at |-> "bycat.defs", todo |-> K, prefs |-> some]
      PROVE  Service!Snapshot(p)
  <2>. DEFINE vals == [k \in Keys |-> IF k \in K THEN Content[<<u, k>>] ELSE None]
  <2>1. IdsOf(some) = vals
    BY <1>4, <1>9, IdOfIs DEF IdsOf, Content, Slot
  <2>. HIDE DEF vals
  <2>2. RequestOf(c) = [op |-> "bycategory", vals |-> vals]
    BY <1>9, <2>1 DEF RequestOf
  <2>3. Pend' = [Pend EXCEPT ![p] = [op |-> "bycategory", vals |-> vals]]
        /\ Replies' = [Replies EXCEPT ![p] = Service!NoReply]
    BY <1>1, <1>9, <2>2, Waits
  <2>4. Content' = Content /\ past' = past
    BY <1>1 DEF Content
  <2>. QED  BY <1>1, <1>9, <2>3, <2>4 DEF Service!Snapshot, Pend, Replies, Content, vals
<1>. QED  BY <1>6, <1>7, <1>8, <1>9

\* A lookup of GetByCategory keeps the payloads; the last one answers.
LEMMA ByCategoryLooks ==
  ASSUME Recounted, NEW p \in Procs, NEW k \in Keys, ByCategoryDef(p, k)
  PROVE  Service!ByCategory(p) \/ Service!Refused(p) \/ UNCHANGED Service!svars
<1>0. /\ call[p] \in Calls /\ call[p].at = "bycat.defs" /\ call[p] # Idle /\ TypeOK
      /\ UNCHANGED <<store, past>> /\ k \in call[p].todo
  BY DEF ByCategoryDef, Recounted, TypeOK, Idle
<1>1. PICK had : had = call[p].prefs
  OBVIOUS
<1>2. had \in PrefMap /\ had[k] \in Pref /\ Pend[p] = [op |-> "bycategory", vals |-> IdsOf(had)]
  BY <1>0, <1>1, CallFields, RequestOfIs DEF Pend
<1>3. PICK pref : pref = IF defs[k] = None THEN had[k] ELSE Refreshed(had[k], defs[k])
  OBVIOUS
<1>4. PICK prefs : prefs = [had EXCEPT ![k] = pref]
  OBVIOUS
<1>5. PICK todo : todo = call[p].todo \ {k}
  OBVIOUS
<1>6. \/ Fail(p, "bycategory", "ErrEncryptionFailed")
      \/ pref # None /\ Return(p, "bycategory", "nil", prefs)
      \/ pref # None /\ Proceed(p, [at |-> "bycat.defs", todo |-> todo, prefs |-> prefs])
  BY <1>1, <1>3, <1>4, <1>5 DEF ByCategoryDef
<1>7. pref # None => IdsOf(prefs) = IdsOf(had)
  <2>1. ASSUME pref # None PROVE pref \in Pref /\ pref.value.id = had[k].value.id
    <3>1. CASE defs[k] # None
      <4>1. PICK d \in Registered : d = defs[k]
        BY <1>0, <3>1 DEF TypeOK
      <4>. QED  BY <1>2, <1>3, <2>1, <3>1, <4>1, RefreshedType
    <3>. QED  BY <1>2, <1>3, <3>1
  <2>2. pref # None => IdOf(pref) = IdOf(had[k])
    BY <1>2, <2>1, IdOfIs
  <2>. QED  BY <1>2, <1>4, <2>2 DEF IdsOf, PrefMap
<1>8. CASE Fail(p, "bycategory", "ErrEncryptionFailed")
  BY <1>0, <1>2, <1>8, Refusals DEF OpNames
<1>9. CASE pref # None /\ Return(p, "bycategory", "nil", prefs)
  <2>1. Pend[p].op = "bycategory" /\ Pend[p].vals = IdsOf(prefs)
    BY <1>2, <1>7, <1>9
  <2>2. Service!Answer(p, "bycategory", TRUE, IdsOf(prefs))
    BY <1>0, <1>9, Answers
  <2>3. Service!Answer(p, "bycategory", TRUE, Pend[p].vals)
    BY <2>1, <2>2 DEF Service!Answer
  <2>4. Content' = Content /\ past' = past
    BY <1>0 DEF Content
  <2>. QED  BY <2>1, <2>3, <2>4 DEF Service!ByCategory, Pend, Content
<1>10. ASSUME pref # None, NEW c, Proceed(p, c),
              c = [at |-> "bycat.defs", todo |-> todo, prefs |-> prefs]
       PROVE  UNCHANGED Service!svars
  <2>1. RequestOf(c) = [op |-> "bycategory", vals |-> IdsOf(prefs)]
    BY <1>10 DEF RequestOf
  <2>. QED  BY <1>0, <1>2, <1>7, <1>10, <2>1, StillWaits
<1>. QED  BY <1>6, <1>8, <1>9, <1>10

LEMMA Defines ==
  ASSUME Recounted, NEW p \in Procs, NEW d \in Definitions, DefinePreference(p, d)
  PROVE  Service!Refused(p) \/ Service!Trivial(p)
<1>1. TypeOK /\ call[p] = Idle /\ UNCHANGED <<store, past>> /\ Pend[p].op = "idle"
  BY IdlePend DEF Recounted, DefinePreference, Begins
<1>2. Fail(p, "define", "nil") \/ \E err : err # "nil" /\ Fail(p, "define", err)
  BY DEF DefinePreference
<1>. QED  BY <1>1, <1>2, Trivially, Refusals DEF OpNames

LEMMA CrashRestarts ==
  ASSUME Recounted, Crash
  PROVE  Service!Restart
<1>1. Content' = IF Backend = "memory" THEN [s \in Slot |-> None] ELSE Content
  BY ModeAssumption, IdOfIs DEF Crash, Content
<1>2. Pend' = [p \in Procs |-> Service!Idle]
  BY DEF Crash, Pend, RequestOf, Idle, Service!Idle
<1>3. Replies' = [p \in Procs |-> Service!NoReply]
  BY NothingIs DEF Crash, Replies, NoResult, Service!NoReply
<1>4. past' = past
  BY DEF Crash
<1>. QED  BY <1>1, <1>2, <1>3, <1>4
          DEF Service!Restart, Pend, Replies, Content, Service!Slot, Slot

LEMMA InitImplements == Init => Service!Init
<1>. SUFFICES ASSUME Init PROVE Service!Init
  OBVIOUS
<1>1. Content = [s \in Slot |-> None]
  BY IdOfIs DEF Init, Content
<1>2. Pend = [p \in Procs |-> Service!Idle]
  BY DEF Init, Pend, RequestOf, Idle, Service!Idle
<1>3. Replies = [p \in Procs |-> Service!NoReply]
  BY NothingIs DEF Init, Replies, NoResult, Service!NoReply
<1>4. past = [s \in Slot |-> {}]
  BY DEF Init
<1>. QED  BY <1>1, <1>2, <1>3, <1>4 DEF Service!Init, Pend, Replies, Content, Service!Slot, Slot

\* Every step is a step of the service, or one its callers cannot see.
LEMMA StepImplements ==
  "mutate" \notin Ops /\ Recounted /\ [Next]_vars => [Service!Next]_Service!svars
<1>. SUFFICES ASSUME "mutate" \notin Ops, Recounted, [Next]_vars
              PROVE  [Service!Next]_Service!svars
  OBVIOUS
<1>1. ASSUME NEW p \in Procs, Start(p) PROVE Service!Next
  <2>1. ASSUME NEW u \in Users \cup {Empty}, NEW k \in Keys \cup {Empty}, NEW x \in Ids,
               GetStart(p, u, k) \/ DelStart(p, u, k) \/ SetStart(p, u, k, x)
        PROVE  Service!Next
    BY <2>1, GetStarts, DelStarts, SetStarts DEF Service!Next
  <2>2. ASSUME NEW u \in Users \cup {Empty}, NEW k \in Keys \cup {Empty},
               GetStart(p, u, k) \/ DelStart(p, u, k)
        PROVE  Service!Next
    BY <2>2, GetStarts, DelStarts DEF Service!Next
  <2>3. ASSUME NEW u \in Users \cup {Empty}, NEW cat, AllStart(p, u) \/ ByCategoryStart(p, u, cat)
        PROVE  Service!Next
    BY <2>3, AllStarts, ByCategoryStarts DEF Service!Next
  <2>4. ASSUME NEW d \in Definitions, DefinePreference(p, d) PROVE Service!Next
    BY <2>4, Defines DEF Service!Next
  <2>. QED  BY <1>1, <2>1, <2>2, <2>3, <2>4 DEF Start
<1>2. ASSUME NEW p \in Procs, Continue(p) PROVE [Service!Next]_Service!svars
  <2>1. CASE GetCache(p) \/ GetStorage(p) \/ GetFill(p)
    BY <2>1, GetContinues DEF Service!Next
  <2>2. CASE SetStorage(p) \/ DelStorage(p) \/ SetCache(p) \/ DelCache(p)
    BY <2>2, SetStorages, DelStorages, CacheWrites DEF Service!Next
  <2>3. CASE AllStorage(p)
    BY <2>3, AllAnswers DEF Service!Next
  <2>4. ASSUME NEW k \in Keys, ByCategoryDef(p, k) PROVE [Service!Next]_Service!svars
    BY <2>4, ByCategoryLooks DEF Service!Next
  <2>. QED  BY <1>2, <2>1, <2>2, <2>3, <2>4 DEF Continue
<1>3. CASE \/ \E p \in Procs, s \in Slot : WarmStep(p, s)
           \/ \E s \in Slot : Expire(s)
           \/ UNCHANGED vars
  BY <1>3, Unseen DEF WarmStep, Expire, vars
<1>4. CASE Crash
  BY <1>4, CrashRestarts DEF Service!Next
<1>5. ~\E p \in Procs, s \in Slot, x \in Ids : CallerWrites(p, s, x)
  BY DEF CallerWrites
<1>. QED  BY <1>1, <1>2, <1>3, <1>4, <1>5 DEF Next

\* As long as no caller writes to the preferences GetAll returned to it, the Manager is the
\* service, for any users, keys, payloads, definitions, goroutines, backend and failures:
\* without a cache every call takes effect at one moment, with one a Get may also answer
\* what its slot held before or a default its key may have, and a failed call either had its
\* whole effect or none.
THEOREM ManagerImplements ==
  ASSUME "mutate" \notin Ops
  PROVE  Spec => ImplementsService
<1>. QED  BY InitRecounted, StepRecounted, InitImplements, StepImplements, PTL
          DEF Spec, ImplementsService, Service!Spec
=============================================================================
