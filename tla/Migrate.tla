------------------------------- MODULE Migrate -------------------------------
(***************************************************************************)
(* Up of internal/migrate/migrate.go: every instance that boots brings the *)
(* one database up to date.                                                *)
(*                                                                         *)
(* The database is the set of versions whose DDL is in effect and the set  *)
(* of versions schema_migrations records.  Every statement outside a       *)
(* transaction is a step of its own; applyOne is one transaction and so    *)
(* one step.  All DDL is plain CREATE or ALTER: it fails when repeated and *)
(* when what it builds on is missing.                                      *)
(***************************************************************************)
EXTENDS Integers, FiniteSets

CONSTANTS
    Instances,  \* processes that boot with migrations on
    Versions,   \* versions of the files in the migrations directory
    Probed,     \* the version that creates stop_times
    BuiltOn,    \* BuiltOn[v]: the versions the DDL of v needs
    Databases,  \* what the first boot may find: [schema, recorded]
    MaxFaults   \* bound: failed calls

ASSUME MigrateAssumption ==
    /\ Versions \subseteq Nat /\ IsFiniteSet(Versions)
    /\ Probed \in Versions
    /\ BuiltOn \in [Versions -> SUBSET Versions]
    /\ \A d \in Databases : d.schema \subseteq Versions /\ d.recorded \subseteq Versions
    /\ MaxFaults \in Nat

VARIABLES
    schema,   \* versions whose DDL is in effect
    recorded, \* versions with a row in schema_migrations
    up,       \* up[i]: where instance i's Up is
    todo,     \* todo[i]: versions i has still to apply or to adopt
    faults

dbVars == <<schema, recorded>>
upVars == <<up, todo>>
migrateVars == <<dbVars, upVars, faults>>

Database(s, r) == schema = s /\ recorded = r

MigrateInit ==
    /\ \E d \in Databases : Database(d.schema, d.recorded)
    /\ up = [i \in Instances |-> "idle"]
    /\ todo = [i \in Instances |-> {}]
    /\ faults = 0

Fault == faults < MaxFaults /\ faults' = faults + 1

GoTo(i, where, left) ==
    /\ up' = [up EXCEPT ![i] = where]
    /\ todo' = [todo EXCEPT ![i] = left]

(* The files are read and the bookkeeping table exists from here on. *)
StartUp(i) ==
    /\ up[i] = "idle"
    /\ GoTo(i, "read", {})
    /\ UNCHANGED <<dbVars, faults>>

(* appliedVersions; only a database without any row is probed. *)
ReadApplied(i) ==
    /\ up[i] = "read"
    /\ GoTo(i, IF recorded = {} THEN "probe" ELSE "apply", Versions \ recorded)
    /\ UNCHANGED <<dbVars, faults>>

(* A variant of the rule below with a slip in it; the properties are       *)
(* checked to tell it from the code.  Other definitions have theirs.       *)
AdoptIf_RowsMissing == TRUE
AdoptIf == Probed \in schema

(* The probe of adoptExistingSchema: one table stands for the schema. *)
Probe(i) ==
    /\ up[i] = "probe"
    /\ GoTo(i, IF AdoptIf THEN "adopt" ELSE "apply", todo[i])
    /\ UNCHANGED <<dbVars, faults>>

(* In version order. *)
IsNext(v, i) == v \in todo[i] /\ \A w \in todo[i] : v <= w

(* Adoption records one version after the other, in no transaction. *)
AdoptOne(i) ==
    /\ up[i] = "adopt"
    /\ \E v \in Versions :
         /\ IsNext(v, i)
         /\ recorded' = recorded \cup {v}
         /\ GoTo(i, "adopt", todo[i] \ {v})
    /\ UNCHANGED <<schema, faults>>

(* The transaction of applyOne can commit: the DDL runs, and its row is new.*)
Applies(v) == v \notin schema /\ BuiltOn[v] \subseteq schema /\ v \notin recorded

ApplyOne(i) ==
    /\ up[i] = "apply"
    /\ \E v \in Versions :
         /\ IsNext(v, i)
         /\ IF Applies(v)
            THEN /\ schema' = schema \cup {v} /\ recorded' = recorded \cup {v}
                 /\ GoTo(i, "apply", todo[i] \ {v})
            ELSE GoTo(i, "failed", {}) /\ UNCHANGED dbVars
    /\ UNCHANGED faults

UpReturns(i) ==
    /\ up[i] \in {"adopt", "apply"} /\ todo[i] = {}
    /\ GoTo(i, "done", {})
    /\ UNCHANGED <<dbVars, faults>>

(* A call to Postgres fails, or the context is done. *)
UpFails(i) ==
    /\ up[i] \in {"read", "probe", "adopt", "apply"}
    /\ GoTo(i, "failed", {})
    /\ UNCHANGED dbVars

(* The process dies or exits; the database stays. *)
Forget(i) == GoTo(i, "idle", {}) /\ UNCHANGED dbVars

UpStep(i) == ReadApplied(i) \/ Probe(i) \/ AdoptOne(i) \/ ApplyOne(i) \/ UpReturns(i)

MigrateNext == \E i \in Instances :
    \/ StartUp(i) \/ UpStep(i)
    \/ (UpFails(i) /\ Fault)
    \/ (Forget(i) /\ up[i] # "idle" /\ Fault)

MigrateSpec == MigrateInit /\ [][MigrateNext]_migrateVars

(***************************************************************************)
(* Properties                                                              *)
(***************************************************************************)

(* The type of every variable. *)
MigrateTypeOK ==
    /\ schema \subseteq Versions /\ recorded \subseteq Versions
    /\ up \in [Instances -> {"idle", "read", "probe", "adopt", "apply", "done", "failed"}]
    /\ todo \in [Instances -> SUBSET Versions]
    /\ faults \in 0..MaxFaults

(* migrate/integration_test.go:90-91: AUTO_MIGRATE "is safe on every boot  *)
(* and on every replica starting at once".  What is recorded is never run  *)
(* again, so a version must not be recorded without its DDL.               *)
RecordedMeansApplied == recorded \subseteq schema
==============================================================================
