--------------------------- MODULE DbInitializationMC ---------------------------
EXTENDS DbInitialization

(* An entity with an index and a sub-entity, whose table has a foreign id; *)
(* the second table is that of the cron jobs as well.                      *)
TwoEntities == <<"table", "table", "index", "foreign id">>
OwnedByFirst == [x \in {4} |-> 1]

(* An entity with a unique composite index, and the table of the cron jobs. *)
UniqueEntity == <<"table", "table", "unique index">>
NoOwner == [x \in {} |-> 0]
=============================================================================
