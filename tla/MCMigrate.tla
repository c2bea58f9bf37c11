------------------------------ MODULE MCMigrate ------------------------------
(***************************************************************************)
(* Instances of Migrate for TLC, with the eight migrations of the          *)
(* repository.                                                             *)
(***************************************************************************)
EXTENDS Migrate

Eight == 1..8

(* The tables each file alters or refers to. *)
FileNeeds == [v \in Eight |-> CASE v = 3 -> {2}
                              [] v = 4 -> {1, 3}
                              [] v = 7 -> {4}
                              [] v = 8 -> {1}
                              [] OTHER -> {}]

EmptyDatabase == {[schema |-> {}, recorded |-> {}]}
==============================================================================
