----------------------------- MODULE MCRedisCache -----------------------------
(***************************************************************************)
(* An instance of RedisCache for TLC.                                      *)
(***************************************************************************)
EXTENDS RedisCache

\* No retries, and a single connection.
MCOptions == {[field |-> "retries", value |-> -1], [field |-> "pool", value |-> 1]}
=============================================================================
