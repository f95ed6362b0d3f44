----------------------------- MODULE CacheService -----------------------------
(***************************************************************************)
(* What a Cache promises the Manager (interfaces.go, Cache), without       *)
(* saying how: every key holds one value or none, a call takes effect at   *)
(* one moment, an entry with a TTL may vanish on its own, and a call fails *)
(* only if it is made once the cache is closed.                            *)
(***************************************************************************)
CONSTANTS Keys, Values, Procs, None

Idle == [op |-> "idle"]
NoReply == [op |-> "none", err |-> "nil", val |-> None]
Empty == [k \in Keys |-> None]

VARIABLES content,  \* [val, ttl] for each key, None if it has no live entry
          closed,   \* calls are refused
          pend,     \* the request each caller waits for
          reply     \* the reply to each caller's last request

svars == <<content, closed, pend, reply>>

Requests == [op : {"get", "delete"}, key : Keys]
            \cup [op : {"set"}, key : Keys, val : Values, ttl : BOOLEAN]

Init ==
    /\ content = Empty
    /\ closed = FALSE
    /\ pend = [p \in Procs |-> Idle]
    /\ reply = [p \in Procs |-> NoReply]

Answer(p, op, err, val) ==
    /\ pend' = [pend EXCEPT ![p] = Idle]
    /\ reply' = [reply EXCEPT ![p] = [op |-> op, err |-> err, val |-> val]]

Accept(p, r) == /\ pend' = [pend EXCEPT ![p] = r]
                /\ reply' = [reply EXCEPT ![p] = NoReply]

Request(p, r) ==
    /\ pend[p] = Idle
    /\ IF closed THEN Answer(p, r.op, "ErrCacheClosed", None) ELSE Accept(p, r)
    /\ UNCHANGED <<content, closed>>

Get(p) ==
    /\ pend[p].op = "get"
    /\ LET e == content[pend[p].key] IN
       IF e = None THEN Answer(p, "get", "ErrNotFound", None)
                   ELSE Answer(p, "get", "nil", e.val)
    /\ UNCHANGED <<content, closed>>

Set(p) ==
    /\ pend[p].op = "set"
    /\ content' = [content EXCEPT ![pend[p].key] = [val |-> pend[p].val, ttl |-> pend[p].ttl]]
    /\ Answer(p, "set", "nil", None)
    /\ UNCHANGED closed

Delete(p) ==
    /\ pend[p].op = "delete"
    /\ content' = [content EXCEPT ![pend[p].key] = None]
    /\ Answer(p, "delete", "nil", None)
    /\ UNCHANGED closed

Expire(k) ==
    /\ content[k] # None /\ content[k].ttl
    /\ content' = [content EXCEPT ![k] = None]
    /\ UNCHANGED <<closed, pend, reply>>

\* Close empties the cache, then has calls refused, then returns; a Close that
\* comes later returns when calls are refused.
Close(p) ==
    /\ pend[p] = Idle /\ Accept(p, [op |-> "close"])
    /\ UNCHANGED <<content, closed>>

Clear(p) ==
    /\ pend[p].op = "close" /\ ~closed
    /\ content' = Empty
    /\ UNCHANGED <<closed, pend, reply>>

Closed(p) ==
    /\ pend[p].op = "close"
    /\ closed' = TRUE
    /\ Answer(p, "close", "nil", None)
    /\ UNCHANGED content

Next ==
    \/ \E p \in Procs :
          \/ \E r \in Requests : Request(p, r)
          \/ Get(p) \/ Set(p) \/ Delete(p)
          \/ Close(p) \/ Clear(p) \/ Closed(p)
    \/ \E k \in Keys : Expire(k)

Spec == Init /\ [][Next]_svars
=============================================================================
