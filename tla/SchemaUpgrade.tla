------------------------------ MODULE SchemaUpgrade ------------------------------
(***************************************************************************)
(* DatabaseRepository.initialize on a database of any age, by a process     *)
(* that may die and be started again.  A statement that changes the schema  *)
(* and the backfill (it starts with WITH, so the sqlite3 module opens no    *)
(* transaction for it) are committed at once; the row of schema_version is  *)
(* committed when the connection is given back.                             *)
(***************************************************************************)
EXTENDS Naturals, FiniteSets

CONSTANTS
    Products,      \* products with rows in the price history
    Target         \* SCHEMA_VERSION_TARGET

ASSUME TargetAssumption == Target = 3

VARIABLES
    columns,    \* the columns later versions have added, "store" and "skipped"
    version,    \* the version in schema_version, 0 for no row
    storesOf,   \* how many stores list each product
    owner,      \* the store of each product's rows: "none" (no column), "legacy", "store"
    at          \* where initialize is: "off", or the statement it comes to

schemaVars == <<columns, version, storesOf, owner, at>>

SchemaTypeOK ==
    /\ columns \subseteq {"store", "skipped"}
    /\ version \in 0..Target
    /\ storesOf \in [Products -> 0..2]
    /\ owner \in [Products -> {"none", "legacy", "store"}]
    /\ at \in {"off", "store", "backfill", "skipped", "version", "ready"}

\* The version a set of columns amounts to.
Detected == IF "skipped" \in columns THEN 3 ELSE IF "store" \in columns THEN 2 ELSE 1

\* A database as an earlier version of the program has left it, or none.
SchemaInit ==
    /\ at = "off"
    /\ storesOf \in [Products -> 0..2]
    /\ columns \in {{}, {"store"}, {"store", "skipped"}}
    /\ version \in {0, Detected}
    /\ owner = [p \in Products |-> IF "store" \in columns THEN "store" ELSE "none"]

\* Mutant: the version is written before the columns are looked at.
StartTrustingly ==
    /\ at \in {"off", "ready"}
    /\ at' = "store"
    /\ version' = Target
    /\ UNCHANGED <<columns, storesOf, owner>>

Start ==
    /\ at \in {"off", "ready"}
    /\ at' = "store"
    /\ UNCHANGED <<columns, version, storesOf, owner>>

\* The ALTER gives every row the default.
AddStoreColumn ==
    /\ at = "store"
    /\ \/ "store" \in columns /\ at' = "skipped" /\ UNCHANGED <<columns, owner>>
       \/ /\ "store" \notin columns
          /\ columns' = columns \cup {"store"}
          /\ owner' = [p \in Products |-> "legacy"]
          /\ at' = "backfill"
    /\ UNCHANGED <<version, storesOf>>

\* Every legacy row is updated: one whose product is not in exactly one
\* store would become NULL, which the column refuses, and then none is.
\* The error is only a warning.
Backfill ==
    /\ at = "backfill"
    /\ owner' = IF \A p \in Products : storesOf[p] = 1
                THEN [p \in Products |-> "store"] ELSE owner
    /\ at' = "skipped"
    /\ UNCHANGED <<columns, version, storesOf>>

AddSkippedColumn ==
    /\ at = "skipped"
    /\ columns' = columns \cup {"skipped"}
    /\ at' = "version"
    /\ UNCHANGED <<version, storesOf, owner>>

\* The missing row and the migrations up to the target, in one transaction.
WriteVersion ==
    /\ at = "version"
    /\ version' = Target
    /\ at' = "ready"
    /\ UNCHANGED <<columns, storesOf, owner>>

DieUpgrading ==
    /\ at \notin {"off", "ready"}
    /\ at' = "off"
    /\ UNCHANGED <<columns, version, storesOf, owner>>

SchemaNext ==
    \/ Start \/ AddStoreColumn \/ Backfill \/ AddSkippedColumn
    \/ WriteVersion \/ DieUpgrading

SchemaSpec == SchemaInit /\ [][SchemaNext]_schemaVars

\* The version a database claims never runs ahead of its columns, wherever an
\* upgrade dies: the next start would skip what is missing.
VersionIsHonest ==
    /\ version >= 2 => "store" \in columns
    /\ version >= 3 => "skipped" \in columns
    /\ at = "ready" => version = Target

\* After an upgrade the rows of a product that one store lists carry that
\* store (migrations.py: "Add store_id to price_history and backfill legacy
\* rows"; the backfill's own selection is the products of one store).
BackfillIsDone ==
    at = "ready" => \A p \in Products : storesOf[p] = 1 => owner[p] = "store"
==================================================================================
