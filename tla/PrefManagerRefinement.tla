------------------------ MODULE PrefManagerRefinement ------------------------
(***************************************************************************)
(* The Manager implements PrefService.  A slot's payload is what the       *)
(* storage holds for it, whatever the cache holds: a Set takes effect when *)
(* storage.Set returns, a Get without a cache when storage.Get does.       *)
(***************************************************************************)
EXTENDS PrefManager

IdOf(pref) == IF pref = None THEN None ELSE pref.value.id
IdsOf(prefs) == [k \in Keys |-> IdOf(prefs[k])]

\* The request a call in progress stands for.
RequestOf(c) ==
    CASE c.at = "idle" -> [op |-> "idle"]
      [] c.at \in {"get.cache", "get.storage", "get.fill"} -> [op |-> "get", slot |-> c.slot]
      [] c.at = "set.storage" -> [op |-> "set", slot |-> c.slot, x |-> c.x]
      [] c.at = "set.cache" -> [op |-> "done", what |-> "set"]
      [] c.at = "del.storage" -> [op |-> "delete", slot |-> c.slot]
      [] c.at = "del.cache" -> [op |-> "done", what |-> "delete"]
      [] c.at = "all.storage" -> [op |-> "getall", user |-> c.user]
      [] c.at = "bycat.defs" -> [op |-> "bycategory", vals |-> IdsOf(c.prefs)]

Service == INSTANCE PrefService WITH
    Defaults <- [k \in Keys |-> {d.dflt : d \in {e \in Definitions : e.key = k}}],
    AlwaysDefined <- {k \in Keys : InitialDefs[k] # None},
    Stale <- HasCache,
    Volatile <- Backend = "memory",
    value <- [s \in Slot |-> IdOf(store[s])],
    held <- past,
    pend <- [p \in Procs |-> RequestOf(call[p])],
    reply <- [p \in Procs |-> [op |-> res[p].op, ok |-> res[p].err = "nil",
                               vals |-> IdsOf(res[p].prefs)]]

\* Every call of the Manager, whatever it interleaves with and whatever fails
\* under it, is a call of the service: without a cache it is linearizable, with
\* one a Get may return what its slot held before, and nothing else may happen.
ImplementsService == Service!Spec
=============================================================================
