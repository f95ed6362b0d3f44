-------------------------- MODULE PrefManagerClaims --------------------------
(***************************************************************************)
(* What comments in the source say of the Manager and the code does not do.*)
(***************************************************************************)
EXTENDS PrefManager

\* manager.go:218-219, of Set: it updates the cache "to maintain consistency":
\* with no call between its two writes, and no fault of storage or cache, the
\* cache never contradicts the storage.
CacheConsistentAtRest == \A s \in Slot : ~Settling(s) => Agrees(s)

\* types.go:53, of an encrypted preference: "the Manager will encrypt the value
\* before storing it and decrypt it when retrieving": a Get never fails to
\* decrypt what a Set under the same definition stored.
DecryptsWhatSetStored ==
    \A p \in Procs : res[p].op = "get" => res[p].err # "ErrEncryptionFailed"
=============================================================================
