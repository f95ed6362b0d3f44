---------------------------- MODULE StorageService ----------------------------
(***************************************************************************)
(* What a Storage promises the Manager (interfaces.go, Storage): one table *)
(* of preferences; every call takes effect at one moment between its       *)
(* beginning and its return, and a read of many rows sees all of them at   *)
(* one moment.                                                             *)
(*                                                                         *)
(* The implementations differ in what Medium says: an in-memory storage    *)
(* never fails and takes a preference whole; a SQL storage may fail, a     *)
(* failed write may have been applied, it refuses calls once it is closed, *)
(* and a row keeps its category when it is written again.                  *)
(***************************************************************************)
CONSTANTS Users, Keys, Values, Categories, Procs, None,
          Medium    \* "memory" or "sql"

VARIABLES content,  \* the row of each user and key, None if there is none
          usable,   \* the storage was opened and not closed since
          pend,     \* the request each caller waits for
          reply     \* the reply to each caller's last request

svars == <<content, usable, pend, reply>>

Slot == Users \X Keys
Row == [val : Values, cat : Categories]
Idle == [op |-> "idle"]
NoRows == [k \in Keys |-> None]

Requests == [op : {"get", "delete"}, slot : Slot]
            \cup [op : {"set"}, slot : Slot, row : Row]
            \cup [op : {"getall"}, user : Users]
            \cup [op : {"bycategory"}, user : Users, cat : Categories]

Init ==
    /\ content \in [Slot -> Row \cup {None}]
    /\ usable \in BOOLEAN
    /\ pend = [p \in Procs |-> Idle]
    /\ reply = [p \in Procs |-> [err |-> "nil", rows |-> NoRows]]

Answer(p, err, rows) ==
    /\ pend' = [pend EXCEPT ![p] = Idle]
    /\ reply' = [reply EXCEPT ![p] = [err |-> err, rows |-> rows]]

Await(p, r) == /\ pend' = [pend EXCEPT ![p] = r]
               /\ reply' = [reply EXCEPT ![p] = [err |-> "nil", rows |-> NoRows]]

Request(p, r) ==
    /\ pend[p] = Idle
    /\ \/ (usable \/ Medium = "memory") /\ Await(p, r)
       \/ Medium = "sql" /\ Answer(p, "error", NoRows)
    /\ UNCHANGED <<content, usable>>

Get(p) ==
    /\ pend[p].op = "get"
    /\ LET s == pend[p].slot IN
       IF content[s] = None THEN Answer(p, "ErrNotFound", NoRows)
       ELSE Answer(p, "nil", [NoRows EXCEPT ![s[2]] = content[s]])
    /\ UNCHANGED <<content, usable>>

\* A write's effect on the table.
Takes(r) ==
    content' = [content EXCEPT ![r.slot] =
        IF r.op = "delete" THEN None
        ELSE IF Medium = "sql" /\ @ # None THEN [@ EXCEPT !.val = r.row.val]
        ELSE r.row]

Write(p) ==
    /\ pend[p].op \in {"set", "delete"}
    /\ LET r == pend[p] IN
       /\ Takes(r)
       /\ Answer(p,
                 IF r.op = "delete" /\ content[r.slot] = None THEN "ErrNotFound" ELSE "nil",
                 NoRows)
    /\ UNCHANGED usable

\* What a read of many rows is about.
Selects(r, s) == /\ s[1] = r.user
                 /\ content[s] # None
                 /\ r.op = "bycategory" => content[s].cat = r.cat

Snapshot(p) ==
    /\ pend[p].op \in {"getall", "bycategory"}
    /\ LET r == pend[p]
           rows == [k \in Keys |-> IF Selects(r, <<r.user, k>>) THEN content[<<r.user, k>>]
                                   ELSE None]
       IN \/ Await(p, [op |-> "deliver", rows |-> rows])
          \/ Answer(p, "nil", rows)
    /\ UNCHANGED <<content, usable>>

Deliver(p) ==
    /\ pend[p].op = "deliver"
    /\ Answer(p, "nil", pend[p].rows)
    /\ UNCHANGED <<content, usable>>

\* A call fails, and a write that fails may have been applied.
Fail(p) ==
    /\ Medium = "sql" /\ pend[p] # Idle
    /\ LET r == pend[p] IN
       /\ Answer(p, "error", NoRows)
       /\ \/ UNCHANGED content
          \/ r.op \in {"set", "delete"} /\ Takes(r)
    /\ UNCHANGED usable

Open == /\ usable' = TRUE
        /\ UNCHANGED <<content, pend, reply>>

Close(p) == /\ pend[p] = Idle
            /\ usable' = (usable /\ Medium = "memory")
            /\ Answer(p, "nil", NoRows)
            /\ UNCHANGED content

Next ==
    \/ \E p \in Procs :
          \/ \E r \in Requests : Request(p, r)
          \/ Get(p) \/ Write(p) \/ Snapshot(p) \/ Deliver(p) \/ Fail(p) \/ Close(p)
    \/ Open

Spec == Init /\ [][Next]_svars
=============================================================================
