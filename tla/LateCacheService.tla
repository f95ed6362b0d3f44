--------------------------- MODULE LateCacheService ---------------------------
(***************************************************************************)
(* What a Cache behind a network promises the Manager: a call that returns *)
(* without error took effect at some moment between its beginning and its  *)
(* return, and a write whose answer was lost may take effect once more,    *)
(* until it is known to have been lost, even after later writes.           *)
(***************************************************************************)
CONSTANTS Keys, Values, Procs, None

Entry == [val : Values, ttl : BOOLEAN]
Writes == [op : {"set"}, key : Keys, val : Values, ttl : BOOLEAN]
          \cup [op : {"delete"}, key : Keys]
Requests == Writes \cup [op : {"get"}, key : Keys]
Idle == [op |-> "idle"]

VARIABLES content,  \* the entry of each key, None if it has none
          doubtful, \* writes that may still take effect
          closed, pend, reply

svars == <<content, doubtful, closed, pend, reply>>

Effect(r) == content' = [content EXCEPT ![r.key] =
                 CASE r.op = "set" -> [val |-> r.val, ttl |-> r.ttl]
                   [] r.op = "delete" -> None
                   [] OTHER -> @]

Init ==
    /\ content = [k \in Keys |-> None]
    /\ doubtful = {} /\ closed = TRUE
    /\ pend = [p \in Procs |-> Idle]
    /\ reply = [p \in Procs |-> [err |-> "nil", val |-> None]]

Answer(p, err, val) ==
    /\ pend' = [pend EXCEPT ![p] = Idle]
    /\ reply' = [reply EXCEPT ![p] = [err |-> err, val |-> val]]

Await(p, r) == /\ pend' = [pend EXCEPT ![p] = r]
               /\ reply' = [reply EXCEPT ![p] = [err |-> "nil", val |-> None]]

Request(p, r) ==
    /\ pend[p] = Idle
    /\ IF closed THEN Answer(p, "error", None) ELSE Await(p, [op |-> "call", req |-> r])
    /\ UNCHANGED <<content, doubtful, closed>>

\* The call takes effect; found is what a Get will say.
Take(p) ==
    /\ pend[p].op = "call"
    /\ LET r == pend[p].req IN
       /\ Effect(r)
       /\ Await(p, [op |-> "taken", req |-> r,
                    found |-> IF r.op = "get" THEN content[r.key] ELSE None])
    /\ UNCHANGED <<doubtful, closed>>

Done(p) ==
    /\ pend[p].op = "taken"
    /\ LET found == pend[p].found IN
       IF found # None THEN Answer(p, "nil", found.val)
       ELSE Answer(p, IF pend[p].req.op = "get" THEN "ErrNotFound" ELSE "nil", None)
    /\ UNCHANGED <<content, doubtful, closed>>

\* A message is lost: the call is made again or fails, and may take effect later.
Doubt(p) ==
    /\ pend[p] # Idle
    /\ \/ Await(p, [op |-> "call", req |-> pend[p].req])
       \/ Answer(p, "error", None)
    /\ doubtful' \in {doubtful, doubtful \cup ({pend[p].req} \cap Writes)}
    /\ UNCHANGED <<content, closed>>

Late(r) ==
    /\ r \in doubtful
    /\ doubtful' = doubtful \ {r}
    /\ Effect(r) \/ UNCHANGED content
    /\ UNCHANGED <<closed, pend, reply>>

Expire(k) ==
    /\ content[k] # None /\ content[k].ttl
    /\ content' = [content EXCEPT ![k] = None]
    /\ UNCHANGED <<doubtful, closed, pend, reply>>

Open == closed' = FALSE /\ UNCHANGED <<content, doubtful, pend, reply>>

Close(p) == /\ pend[p] = Idle
            /\ closed' = TRUE
            /\ Answer(p, "nil", None)
            /\ UNCHANGED <<content, doubtful>>

Next ==
    \/ \E p \in Procs : \/ \E r \in Requests : Request(p, r)
                        \/ Take(p) \/ Done(p) \/ Doubt(p) \/ Close(p)
    \/ \E r \in Writes : Late(r)
    \/ \E k \in Keys : Expire(k)
    \/ Open

Spec == Init /\ [][Next]_svars
=============================================================================
