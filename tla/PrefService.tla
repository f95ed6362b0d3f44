----------------------------- MODULE PrefService -----------------------------
(***************************************************************************)
(* What the Manager promises its callers, without saying how: every slot   *)
(* holds one payload or none, a Set or Delete takes effect at one moment   *)
(* of its call, GetAll and GetByCategory read all their slots at one       *)
(* moment, and Get reads either the present payload or, if Stale, some     *)
(* payload the slot has held.                                              *)
(***************************************************************************)
EXTENDS Naturals

CONSTANTS
    Users, Keys, Ids, Procs, None,
    Defaults,   \* [Keys -> SUBSET Ids]: the defaults a key may have
    AlwaysDefined,  \* keys that are defined at all times
    Stale,      \* Get may answer from an outdated copy
    Volatile    \* a restart empties the service

Slot == Users \X Keys
Nothing == [k \in Keys |-> None]
Idle == [op |-> "idle"]
NoReply == [op |-> "none", ok |-> TRUE, vals |-> Nothing]

VARIABLES value,    \* the payload of each slot, None if it was never set or deleted
          held,     \* every payload a slot has had
          pend,     \* the request each caller waits for
          reply     \* the reply to each caller's last request

svars == <<value, held, pend, reply>>

Requests == [op : {"get", "delete"}, slot : Slot]
            \cup [op : {"set"}, slot : Slot, x : Ids]
            \cup [op : {"getall"}, user : Users]

Init ==
    /\ value = [s \in Slot |-> None]
    /\ held = [s \in Slot |-> {}]
    /\ pend = [p \in Procs |-> Idle]
    /\ reply = [p \in Procs |-> NoReply]

Answer(p, op, ok, vals) ==
    /\ pend' = [pend EXCEPT ![p] = Idle]
    /\ reply' = [reply EXCEPT ![p] = [op |-> op, ok |-> ok, vals |-> vals]]

Request(p, r) ==
    /\ pend[p] = Idle
    /\ pend' = [pend EXCEPT ![p] = r]
    /\ reply' = [reply EXCEPT ![p] = NoReply]
    /\ UNCHANGED <<value, held>>

\* A request that is refused, or that failed without an effect.
Refused(p) ==
    /\ \E op \in {"get", "set", "delete", "getall", "bycategory", "define"} :
          /\ pend[p].op \in {"idle", op}
          /\ Answer(p, op, FALSE, Nothing)
    /\ UNCHANGED <<value, held>>

\* A definition was registered, or there was nothing to return.
Trivial(p) ==
    /\ pend[p] = Idle
    /\ \E op \in {"define", "getall", "bycategory"} :
          /\ op = "getall" => AlwaysDefined = {}
          /\ Answer(p, op, TRUE, Nothing)
    /\ UNCHANGED <<value, held>>

Readings(s) == IF value[s] = None THEN Defaults[s[2]] ELSE {value[s]}

Get(p) ==
    /\ pend[p].op = "get"
    /\ LET s == pend[p].slot IN
       \E x \in Readings(s) \cup (IF Stale THEN held[s] \cup Defaults[s[2]] ELSE {}) :
          Answer(p, "get", TRUE, [Nothing EXCEPT ![s[2]] = x])
    /\ UNCHANGED <<value, held>>

\* The cache failed: the default, and the error.
GetDefault(p) ==
    /\ Stale /\ pend[p].op = "get"
    /\ \E x \in Defaults[pend[p].slot[2]] :
          Answer(p, "get", FALSE, [Nothing EXCEPT ![pend[p].slot[2]] = x])
    /\ UNCHANGED <<value, held>>

GetAll(p) ==
    /\ pend[p].op = "getall"
    /\ \E vals \in [Keys -> Ids \cup {None}] :
          /\ \A k \in Keys : IF vals[k] = None THEN k \notin AlwaysDefined
                             ELSE vals[k] \in Readings(<<pend[p].user, k>>)
          /\ Answer(p, "getall", TRUE, vals)
    /\ UNCHANGED <<value, held>>

\* GetByCategory reads its slots at once, and answers later.
Snapshot(p) ==
    /\ pend[p] = Idle
    /\ \E u \in Users, K \in SUBSET Keys :
          LET vals == [k \in Keys |-> IF k \in K THEN value[<<u, k>>] ELSE None]
          IN pend' = [pend EXCEPT ![p] = [op |-> "bycategory", vals |-> vals]]
    /\ reply' = [reply EXCEPT ![p] = NoReply]
    /\ UNCHANGED <<value, held>>

ByCategory(p) ==
    /\ pend[p].op = "bycategory"
    /\ Answer(p, "bycategory", TRUE, pend[p].vals)
    /\ UNCHANGED <<value, held>>

\* A write takes effect, and is answered now, later, or with an error.
Write(p) ==
    /\ pend[p].op \in {"set", "delete"}
    /\ LET s == pend[p].slot IN
       /\ value' = [value EXCEPT ![s] = IF pend[p].op = "set" THEN pend[p].x ELSE None]
       /\ held' = IF pend[p].op = "set" THEN [held EXCEPT ![s] = @ \cup {pend[p].x}] ELSE held
    /\ \/ \E ok \in BOOLEAN : Answer(p, pend[p].op, ok, Nothing)
       \/ /\ pend' = [pend EXCEPT ![p] = [op |-> "done", what |-> pend[p].op]]
          /\ UNCHANGED reply

Done(p) ==
    /\ pend[p].op = "done"
    /\ Answer(p, pend[p].what, TRUE, Nothing)
    /\ UNCHANGED <<value, held>>

Restart ==
    /\ value' = IF Volatile THEN [s \in Slot |-> None] ELSE value
    /\ pend' = [p \in Procs |-> Idle]
    /\ reply' = [p \in Procs |-> NoReply]
    /\ UNCHANGED held

Next ==
    \/ \E p \in Procs :
          \/ \E r \in Requests : Request(p, r)
          \/ Refused(p) \/ Trivial(p)
          \/ Get(p) \/ GetDefault(p) \/ GetAll(p)
          \/ Snapshot(p) \/ ByCategory(p)
          \/ Write(p) \/ Done(p)
    \/ Restart

Spec == Init /\ [][Next]_svars
=============================================================================
