--------------------------- MODULE DbInitialization ---------------------------
(***************************************************************************)
(* The start of several pods of one version of a microservice on an empty  *)
(* relational database.  The pod that inserts the version's row into       *)
(* __backk_db_initialization creates the schema and then marks the row;    *)
(* every pod runs its startup tasks and writes the cron job table; a pod   *)
(* that fails deletes the row and tries again after five seconds.  The     *)
(* startup check of a pod that serves may run the initialization again.    *)
(*                                                                         *)
(* The schema has parts that are created one after the other: tables (of   *)
(* entities, array values and associations), indexes and foreign ids.  A   *)
(* foreign id is a column, a unique index on it and a foreign key; each is *)
(* the only one of its table.                                              *)
(***************************************************************************)
EXTENDS Integers, Sequences, FiniteSets

CONSTANTS Pods,
          Parts,        \* the kinds of the parts, in the order in which they are created
          Owner,        \* Owner[x]: the entity table whose creation lists foreign id x
          CronTable,    \* the table of __Backk__CronJobScheduling
          HasCronJobs,  \* the microservice has @CronJob functions
          MaxErrors,    \* bound on database errors and failing startup tasks
          MaxCrashes,   \* bound on crashes of pods
          MayTakeLong   \* a row may stay pending for five minutes

ASSUME DbInitializationAssumption ==
  /\ Parts \in Seq({"table", "index", "unique index", "foreign id"})
  /\ CronTable \in 1..Len(Parts) /\ Parts[CronTable] = "table"
  /\ Owner \in [{x \in 1..Len(Parts) : Parts[x] = "foreign id"} ->
                 {x \in 1..Len(Parts) : Parts[x] = "table"}]
  /\ MaxErrors \in Nat /\ MaxCrashes \in Nat
  /\ HasCronJobs \in BOOLEAN /\ MayTakeLong \in BOOLEAN

VARIABLES
  row,      \* the row of this microservice version
  old,      \* the row was inserted five minutes ago or earlier
  schema,   \* the parts that exist; of a foreign id, its column
  constraints, \* <<x, c>>: constraint c of the foreign id x exists
  pc,       \* pc[p]: the await of initializeDatabase that p is at
  todo,     \* todo[p]: parts p has not looked at yet in this attempt
  part,     \* part[p]: the part p creates
  listed,   \* listed[p]: foreign ids in p's entityNameToForeignIdFieldNamesMap
  twice,    \* twice[p]: those that are in it more than once
  serving,  \* serving[p]: Microservice.start has started the request processors
  checked,  \* checked[p]: p's startup check has answered 200
  removing, \* removing[p]: p's interval timer of removeDbInitialization runs
  errors, crashes,
  removed,  \* ghost: the row has been removed at least once
  lost      \* ghost: parts that a try has given up and no later one takes up again

PartNames == 1..Len(Parts)
NoPart == 0
OfKind(kind) == {x \in PartNames : Parts[x] = kind}
Tables == OfKind("table")
ForeignIds == OfKind("foreign id")
Indexes == OfKind("index") \union OfKind("unique index")
Constraints == {"unique index", "foreign key"}

dbVars == <<schema, constraints, lost>>
listVars == <<listed, twice>>
tryVars == <<todo, part, listVars>>
lifeVars == <<serving, checked, removing>>
podVars == <<pc, tryVars, lifeVars>>
rowVars == <<row, old, removed>>
vars == <<rowVars, dbVars, podVars, errors, crashes>>

PCs == {"starting", "select", "create", "unique", "key", "mark", "tasks", "cron", "undo", "waiting",
        "idle", "down"}

TypeOK ==
  /\ row \in {"absent", "pending", "initialized"}
  /\ old \in BOOLEAN
  /\ schema \subseteq PartNames
  /\ constraints \subseteq ForeignIds \X Constraints
  /\ lost \subseteq PartNames
  /\ pc \in [Pods -> PCs]
  /\ todo \in [Pods -> SUBSET PartNames]
  /\ part \in [Pods -> PartNames \union {NoPart}]
  /\ listed \in [Pods -> SUBSET ForeignIds] /\ twice \in [Pods -> SUBSET ForeignIds]
  /\ serving \in [Pods -> BOOLEAN] /\ checked \in [Pods -> BOOLEAN]
  /\ removing \in [Pods -> BOOLEAN]
  /\ errors \in 0..MaxErrors /\ crashes \in 0..MaxCrashes
  /\ removed \in BOOLEAN

Init ==
  /\ row = "absent" /\ old = FALSE /\ removed = FALSE
  /\ schema = {} /\ constraints = {} /\ lost = {}
  /\ pc = [p \in Pods |-> "starting"]
  /\ todo = [p \in Pods |-> {}]
  /\ part = [p \in Pods |-> NoPart]
  /\ listed = [p \in Pods |-> {}] /\ twice = [p \in Pods |-> {}]
  /\ serving = [p \in Pods |-> FALSE]
  /\ checked = [p \in Pods |-> FALSE]
  /\ removing = [p \in Pods |-> FALSE]
  /\ errors = 0 /\ crashes = 0

Goto(p, label) == pc' = [pc EXCEPT ![p] = label]
DatabaseError == errors < MaxErrors /\ errors' = errors + 1

(* initializeDatabase returns false, to the loop of Microservice.start or  *)
(* to the startup check.                                                   *)
ReturnFalse(p) == Goto(p, IF serving[p] THEN "idle" ELSE "waiting")

(* A pod that stops between the column of a foreign id and its foreign     *)
(* key: later tries find the column and leave the rest out.                *)
GiveUpPart(p) == lost' = IF pc[p] \in {"unique", "key"} THEN lost \union {part[p]} ELSE lost

(* The catch of initializeDatabase: removeDbInitialization comes next.     *)
Abandon(p) ==
  /\ Goto(p, "undo")
  /\ GiveUpPart(p)
  /\ todo' = [todo EXCEPT ![p] = {}]
  /\ part' = [part EXCEPT ![p] = NoPart]
  /\ UNCHANGED <<rowVars, schema, constraints, lifeVars, crashes>>

Throw(p) == Abandon(p) /\ UNCHANGED listVars

(* p goes on creating its part, or with the next one.                      *)
GoOnCreating(p, label) == Goto(p, label) /\ UNCHANGED part
PartDone(p) == Goto(p, "select") /\ part' = [part EXCEPT ![p] = NoPart]

----------------------------------------------------------------------------
(* shouldInitializeDb: the INSERT succeeds for one pod.                    *)
InsertRow(p) ==
  /\ pc[p] = "starting" /\ row = "absent"
  /\ row' = "pending" /\ old' = FALSE /\ UNCHANGED removed
  /\ todo' = [todo EXCEPT ![p] = PartNames]
  /\ Goto(p, "select")
  /\ UNCHANGED <<dbVars, part, listVars, lifeVars, errors, crashes>>

(* Mutant of FindRow: a duplicate is not told from the other outcomes, and *)
(* the pod creates the schema too.                                         *)
FindRowAndGoOn(p) ==
  /\ pc[p] = "starting" /\ row # "absent"
  /\ todo' = [todo EXCEPT ![p] = PartNames]
  /\ Goto(p, "select")
  /\ UNCHANGED <<rowVars, dbVars, part, listVars, lifeVars, errors, crashes>>

(* shouldInitializeDb: the row is there, pending or not: nothing to create. *)
FindRow(p) ==
  /\ pc[p] = "starting" /\ row # "absent"
  /\ Goto(p, "tasks")
  /\ UNCHANGED <<rowVars, dbVars, tryVars, lifeVars, errors, crashes>>

(* isDbReady returns false, before the row is touched.                     *)
NotReady(p) ==
  /\ pc[p] = "starting" /\ DatabaseError
  /\ ReturnFalse(p)
  /\ UNCHANGED <<rowVars, dbVars, tryVars, lifeVars, crashes>>

(* x is the next part that p looks at.                                     *)
IsNext(p, x) == pc[p] = "select" /\ x \in todo[p] /\ \A y \in todo[p] : x <= y

Done(p, x) == todo' = [todo EXCEPT ![p] = @ \ {x}]

(* tryCreateTable and tryAlterTable begin with the foreign ids that the    *)
(* entity's sub-entities have: they are listed again by every try.         *)
ListForeignIds(p, x) ==
  LET new == {y \in ForeignIds : Owner[y] = x}
  IN  /\ listed' = [listed EXCEPT ![p] = @ \union new]
      /\ twice' = [twice EXCEPT ![p] = @ \union (listed[p] \intersect new)]

(* tryAlterOrCreateTable, and the loops for foreign ids and associations:  *)
(* the SELECT tells whether the table, or the column, exists.              *)
Select(p, x) ==
  /\ IsNext(p, x) /\ x \notin Indexes
  /\ Done(p, x)
  /\ ListForeignIds(p, x)
  /\ IF x \in schema
       THEN UNCHANGED <<pc, part>>
       ELSE /\ part' = [part EXCEPT ![p] = x]
            /\ Goto(p, "create")
  /\ UNCHANGED <<rowVars, dbVars, lifeVars, errors, crashes>>

(* The SELECT fails: any error means to the loops for tables that there is *)
(* no table; the one for foreign ids catches nothing.                      *)
SelectFailsForTable(p, x) ==
  /\ IsNext(p, x) /\ x \in Tables /\ DatabaseError
  /\ Done(p, x)
  /\ ListForeignIds(p, x)
  /\ part' = [part EXCEPT ![p] = x]
  /\ Goto(p, "create")
  /\ UNCHANGED <<rowVars, dbVars, lifeVars, crashes>>

SelectFails(p) ==
  /\ \E x \in ForeignIds : IsNext(p, x)
  /\ DatabaseError /\ Throw(p)

(* tryAlterTable of a table that exists sets the types of its columns.     *)
AlterTableFails(p, x) ==
  /\ IsNext(p, x) /\ x \in Tables \intersect schema
  /\ DatabaseError /\ Abandon(p)
  /\ ListForeignIds(p, x) \/ UNCHANGED listVars

(* tryCreateIndex; an index that exists already is an error that is        *)
(* swallowed like all others.                                              *)
CreateIndex(p, x) ==
  /\ IsNext(p, x) /\ x \in OfKind("index")
  /\ schema' = schema \union {x}
  /\ Done(p, x)
  /\ UNCHANGED <<rowVars, constraints, lost, pc, part, listVars, lifeVars, errors, crashes>>

(* The statement for a unique index begins with CREATE UNIQUEINDEX, which  *)
(* no database accepts.                                                    *)
CreateIndexFails(p, x) ==
  /\ IsNext(p, x) /\ x \in Indexes
  /\ \/ x \in OfKind("unique index") /\ UNCHANGED errors
     \/ DatabaseError
  /\ lost' = lost \union {x}
  /\ Done(p, x)
  /\ UNCHANGED <<rowVars, schema, constraints, pc, part, listVars, lifeVars, crashes>>

(* Mutant of Create: the part after it is created without a SELECT.        *)
CreateAndNext(p) ==
  /\ pc[p] = "create" /\ part[p] \notin schema
  /\ schema' = schema \union {part[p]}
  /\ part' = [part EXCEPT ![p] = @ + 1]
  /\ UNCHANGED <<rowVars, constraints, lost, pc, todo, listVars, lifeVars, errors, crashes>>

(* CREATE TABLE, or the ALTER TABLE that adds the column of a foreign id.  *)
Create(p) ==
  /\ pc[p] = "create" /\ part[p] \notin schema
  /\ schema' = schema \union {part[p]}
  /\ IF part[p] \in ForeignIds THEN GoOnCreating(p, "unique") ELSE PartDone(p)
  /\ UNCHANGED <<rowVars, constraints, lost, todo, listVars, lifeVars, errors, crashes>>

(* Another pod has created it since the SELECT; or the foreign id is       *)
(* listed twice, and its column was not there when both were looked up.    *)
PartExists(p) ==
  /\ pc[p] = "create" /\ part[p] \in schema
  /\ Throw(p)
  /\ UNCHANGED errors

AddConstraint(p, c) == constraints' = constraints \union {<<part[p], c>>}

AddUniqueIndex(p) ==
  /\ pc[p] = "unique"
  /\ AddConstraint(p, "unique index")
  /\ GoOnCreating(p, "key")
  /\ UNCHANGED <<rowVars, schema, lost, todo, listVars, lifeVars, errors, crashes>>

(* What was listed twice is added a second time.                           *)
AddForeignKey(p) ==
  /\ pc[p] = "key"
  /\ AddConstraint(p, "foreign key")
  /\ IF part[p] \in twice[p] THEN GoOnCreating(p, "create") ELSE PartDone(p)
  /\ UNCHANGED <<rowVars, schema, lost, todo, listVars, lifeVars, errors, crashes>>

(* Mutant of StatementFails: the error is a no-operation, as it is in      *)
(* tryCreateIndex.                                                         *)
StatementFailsUnnoticed(p) ==
  /\ pc[p] \in {"create", "unique", "key"} /\ DatabaseError
  /\ PartDone(p)
  /\ UNCHANGED <<rowVars, dbVars, todo, listVars, lifeVars, crashes>>

(* A statement of the initialization fails.                                *)
StatementFails(p) ==
  /\ pc[p] \in {"starting", "create", "unique", "key", "mark"} /\ DatabaseError
  /\ Throw(p)

(* All loops are through: setDbInitialized comes next.                     *)
LoopsDone(p) ==
  /\ pc[p] = "select" /\ todo[p] = {}
  /\ Goto(p, "mark")
  /\ UNCHANGED <<rowVars, dbVars, tryVars, lifeVars, errors, crashes>>

(* setDbInitialized: the UPDATE finds the row or does not.                 *)
SetDbInitialized(p) ==
  /\ pc[p] = "mark"
  /\ row' = IF row = "absent" THEN "absent" ELSE "initialized"
  /\ Goto(p, "tasks")
  /\ UNCHANGED <<old, removed, dbVars, tryVars, lifeVars, errors, crashes>>

(* tryExecuteOnStartUpTasks, in a transaction of its own.                  *)
ExecuteTasks(p) ==
  /\ pc[p] = "tasks"
  /\ Goto(p, "cron")
  /\ UNCHANGED <<rowVars, dbVars, tryVars, lifeVars, errors, crashes>>

TasksFail(p) == pc[p] = "tasks" /\ DatabaseError /\ Throw(p)

(* tryInitializeCronJobSchedulingTable; initializeDatabase returns true to *)
(* the loop of Microservice.start or to the startup check.                 *)
InitializeCronTable(p) ==
  /\ pc[p] = "cron"
  /\ HasCronJobs => CronTable \in schema
  /\ checked' = [checked EXCEPT ![p] = serving[p]]
  /\ serving' = [serving EXCEPT ![p] = TRUE]
  /\ Goto(p, "idle")
  /\ UNCHANGED <<rowVars, dbVars, tryVars, removing, errors, crashes>>

CronTableFails(p) ==
  /\ pc[p] = "cron" /\ HasCronJobs
  /\ \/ CronTable \notin schema /\ UNCHANGED errors
     \/ DatabaseError
  /\ Throw(p)

----------------------------------------------------------------------------
(* Mutant of RemoveDbInitialization: Microservice.start goes on with       *)
(* nothing when initializeDatabase has returned false.                     *)
RemoveAndStop(p) ==
  /\ pc[p] = "undo"
  /\ row' = "absent" /\ old' = FALSE /\ removed' = TRUE
  /\ Goto(p, "idle")
  /\ UNCHANGED <<dbVars, tryVars, lifeVars, errors, crashes>>

(* removeDbInitialization: the row of the version is deleted, whichever    *)
(* pod inserted it; initializeDatabase returns false.                      *)
RemoveDbInitialization(p) ==
  /\ pc[p] = "undo"
  /\ row' = "absent" /\ old' = FALSE /\ removed' = TRUE
  /\ ReturnFalse(p)
  /\ UNCHANGED <<dbVars, tryVars, lifeVars, errors, crashes>>

(* The DELETE fails: an interval timer is started, and stopped by nothing  *)
(* but another failure.                                                    *)
RemoveFails(p) ==
  /\ pc[p] = "undo" /\ DatabaseError
  /\ removing' = [removing EXCEPT ![p] = TRUE]
  /\ ReturnFalse(p)
  /\ UNCHANGED <<rowVars, dbVars, tryVars, serving, checked, crashes>>

RemoveAgain(p) ==
  /\ removing[p] /\ row # "absent"
  /\ row' = "absent" /\ old' = FALSE /\ removed' = TRUE
  /\ UNCHANGED <<dbVars, podVars, errors, crashes>>

(* The loop of Microservice.start, five seconds later.                     *)
TryAgain(p) ==
  /\ pc[p] = "waiting"
  /\ Goto(p, "starting")
  /\ UNCHANGED <<rowVars, dbVars, tryVars, lifeVars, errors, crashes>>

(* The startup check of a pod that serves: isDbInitialized removes a row   *)
(* that has been pending too long, then looks for a marked one.            *)
StartupCheck(p) ==
  /\ serving[p] /\ pc[p] = "idle" /\ ~checked[p]
  /\ row' = IF row = "pending" /\ old THEN "absent" ELSE row
  /\ removed' = (removed \/ row' # row)
  /\ IF row = "initialized"
       THEN checked' = [checked EXCEPT ![p] = TRUE] /\ UNCHANGED pc
       ELSE Goto(p, "starting") /\ UNCHANGED checked
  /\ UNCHANGED <<old, dbVars, tryVars, serving, removing, errors, crashes>>

FiveMinutesPass ==
  /\ MayTakeLong /\ row = "pending" /\ ~old
  /\ old' = TRUE
  /\ UNCHANGED <<row, removed, dbVars, podVars, errors, crashes>>

Crash(p) ==
  /\ crashes < MaxCrashes /\ pc[p] # "down"
  /\ crashes' = crashes + 1
  /\ pc' = [pc EXCEPT ![p] = "down"]
  /\ todo' = [todo EXCEPT ![p] = {}]
  /\ part' = [part EXCEPT ![p] = NoPart]
  /\ listed' = [listed EXCEPT ![p] = {}]
  /\ twice' = [twice EXCEPT ![p] = {}]
  /\ serving' = [serving EXCEPT ![p] = FALSE]
  /\ checked' = [checked EXCEPT ![p] = FALSE]
  /\ removing' = [removing EXCEPT ![p] = FALSE]
  /\ GiveUpPart(p)
  /\ UNCHANGED <<rowVars, schema, constraints, errors>>

Restart(p) ==
  /\ pc[p] = "down"
  /\ Goto(p, "starting")
  /\ UNCHANGED <<rowVars, dbVars, tryVars, lifeVars, errors, crashes>>

----------------------------------------------------------------------------
(* A step of p that the code takes by itself.                              *)
Proceed(p) ==
  \/ InsertRow(p) \/ FindRow(p)
  \/ \E x \in PartNames : Select(p, x) \/ CreateIndex(p, x) \/ CreateIndexFails(p, x)
  \/ Create(p) \/ PartExists(p) \/ AddUniqueIndex(p) \/ AddForeignKey(p)
  \/ LoopsDone(p) \/ SetDbInitialized(p)
  \/ ExecuteTasks(p) \/ InitializeCronTable(p) \/ CronTableFails(p)
  \/ RemoveDbInitialization(p) \/ TryAgain(p) \/ Restart(p)

Fail(p) ==
  \/ NotReady(p) \/ SelectFails(p)
  \/ \E x \in PartNames : SelectFailsForTable(p, x) \/ AlterTableFails(p, x)
  \/ StatementFails(p) \/ TasksFail(p) \/ RemoveFails(p) \/ Crash(p)

Next ==
  \/ \E p \in Pods : Proceed(p) \/ Fail(p) \/ StartupCheck(p) \/ RemoveAgain(p)
  \/ FiveMinutesPass

Spec == Init /\ [][Next]_vars

(* Awaits settle, timers go off, a pod that ended is started again and a   *)
(* pod that serves is checked until it answers 200.                        *)
FairSpec == Spec /\ \A p \in Pods : WF_vars(Proceed(p)) /\ WF_vars(StartupCheck(p))

----------------------------------------------------------------------------
(* Every part of the schema that the code creates with one statement, and  *)
(* the constraints of every foreign id, unless a try has given them up or  *)
(* a pod whose row another one has removed is still at them.               *)
ConstraintsComplete(x) ==
  \/ {x} \X Constraints \subseteq constraints
  \/ x \in lost
  \/ \E p \in Pods : pc[p] \in {"unique", "key"} /\ part[p] = x

(* The mark can be relied on as far as the code lets it: the row says      *)
(* initialized only when every table and column of a foreign id exists,    *)
(* though any pod may delete the row of another, or insert it again while  *)
(* the first one is still creating the schema.  Only what a failing        *)
(* statement or a crash has cut off is missing: an index, or the           *)
(* constraints of a foreign id whose column had been added.                *)
InitializedMeansSchema ==
  row = "initialized" =>
    /\ Tables \union ForeignIds \subseteq schema
    /\ Indexes \subseteq schema \union lost
    /\ \A x \in ForeignIds : ConstraintsComplete(x)

(* @UniqueCompositeIndex creates its index ("Same as above but index is    *)
(* unique", docs/api/DECORATORS.MD:107), or the row is not marked.         *)
UniqueIndexesCreated == row = "initialized" => OfKind("unique index") \subseteq schema

(* Only one pod at a time creates tables, until a failing pod or a startup *)
(* check removes the row: the INSERT of the row elects it.                 *)
OneInitializer ==
  ~removed => Cardinality({p \in Pods : pc[p] \in {"select", "create", "unique", "key", "mark"}}) <= 1

(* Liveness: pods that disturb each other, fail and crash all get to       *)
(* serve in the end: the retries come to an end.                           *)
EveryPodServes == \A p \in Pods : <>[]serving[p]
=============================================================================
