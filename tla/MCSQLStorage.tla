----------------------------- MODULE MCSQLStorage -----------------------------
(***************************************************************************)
(* Instances of SQLStorage for TLC.                                        *)
(***************************************************************************)
EXTENDS SQLStorage

CONSTANTS u1, k1, k2, v1, bad, c1, p1, p2, d1, d2

\* A PostgreSQL pool of one connection, and a SQLite file without a WAL.
MCOptions == {[driver |-> "postgres", field |-> "named", value |-> TRUE],
              [driver |-> "postgres", field |-> "maxOpen", value |-> 1],
              [driver |-> "sqlite", field |-> "wal", value |-> FALSE]}
=============================================================================
