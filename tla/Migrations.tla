------------------------------ MODULE Migrations ------------------------------
(***************************************************************************)
(* The schema of the database (internal/store/sqlite/sqlite.go): each      *)
(* migration file is executed, statement by statement and outside any      *)
(* transaction, and its version recorded afterwards.  No body can be run   *)
(* twice: each begins with a CREATE TABLE or an ALTER TABLE ADD COLUMN.    *)
(***************************************************************************)
EXTENDS Naturals

CONSTANT Versions    \* the number of migration files

ASSUME VersionsAssumption == Versions \in Nat

VARIABLE schema      \* which bodies have been executed, which are recorded

Executed == {"no", "part", "yes"}
Schema   == [body : [1 .. Versions -> Executed], recorded : SUBSET (1 .. Versions)]

\* A database whose schema has been brought up to version n.
SchemaAt(n) ==
  [body |-> [v \in 1 .. Versions |-> IF v <= n THEN "yes" ELSE "no"],
   recorded |-> 1 .. n]

\* The first version that is not recorded is the next one of the loop.
Pending(v) ==
  /\ v \in 1 .. Versions \ schema.recorded
  /\ 1 .. v - 1 \subseteq schema.recorded

Migrated == 1 .. Versions \subseteq schema.recorded

\* What becomes of the body that is executed when the database or the daemon
\* gives up somewhere within it, or behind it.
Tears(v) ==
  \E how \in Executed :
    schema' = [schema EXCEPT !.body[v] = IF @ = "no" THEN how ELSE @]

ApplyMigration(v) ==
  /\ Pending(v) /\ schema.body[v] = "no"
  /\ schema' = [schema EXCEPT !.body[v] = "yes"]

\* Mutant: versions are counted from one where they are recorded, and from zero before.
RecordMigration_OffByOne(v) ==
  /\ Pending(v)
  /\ schema' = [schema EXCEPT !.recorded = @ \cup {v + 1}]

RecordMigration(v) ==
  /\ Pending(v)
  /\ schema' = [schema EXCEPT !.recorded = @ \cup {v}]

\* A body has been executed that is not recorded: it will never go through again.
Torn == \E v \in 1 .. Versions \ schema.recorded : schema.body[v] # "no"

\* Every migration has been executed, whole and once.
Whole == \A v \in 1 .. Versions : v \in schema.recorded /\ schema.body[v] = "yes"
==============================================================================
