----------------------------- MODULE MCLifecycle -----------------------------
(***************************************************************************)
(* Instances of Lifecycle for TLC: migrations that stand for those of the  *)
(* repository, before and after the table the adoption probes for.         *)
(***************************************************************************)
EXTENDS Lifecycle

Three == 1..3
Chain == [v \in Three |-> 1..v-1]

(* Nothing, an older release, golang-migrate without bookkeeping, and up   *)
(* to date.                                                                *)
FirstDatabases ==
    { [schema |-> {}, recorded |-> {}],
      [schema |-> {1, 2}, recorded |-> {1, 2}],
      [schema |-> Three, recorded |-> {}],
      [schema |-> Three, recorded |-> Three] }

(* Mostly stale signals, and none: the buffer of an empty or broken feed. *)
StaleAndEmpty == {[size |-> 3, stale |-> 2], [size |-> 0, stale |-> 0]}
==============================================================================
