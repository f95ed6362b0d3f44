--------------------------- MODULE MCMemoryStorage ---------------------------
(***************************************************************************)
(* An instance of MemoryStorage for TLC, with the symmetry of its sets:    *)
(* nothing in the module tells two members of one apart.                   *)
(***************************************************************************)
EXTENDS MemoryStorage, TLC

Symmetry == Permutations(Users) \cup Permutations(Keys) \cup Permutations(Categories)
            \cup Permutations(Procs)
=============================================================================
