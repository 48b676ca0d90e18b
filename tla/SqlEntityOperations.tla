------------------------ MODULE SqlEntityOperations ------------------------
(***************************************************************************)
(* The operations of AbstractSqlDataStore on an entity with sub-entities,  *)
(* an array field and a many-to-many relation, statement by statement on   *)
(* one PostgreSQL connection (datastore/sql/operations).                   *)
(*                                                                         *)
(* Statements that an operation sends "in parallel" queue up on the        *)
(* connection.  The first one that fails makes the operation send          *)
(* ROLLBACK, behind those already sent; what other branches send after     *)
(* that is outside the transaction.  Each statement is one step.           *)
(***************************************************************************)
EXTENDS Integers, Sequences, FiniteSets, SequencesExt, Order

CONSTANTS EntityIds,      \* _ids the sequence of the root table may give
          NoAccount,      \* no user account in the context
          Accounts,       \* user accounts of the calling functions
          Ops,            \* the calls a service function may make
          InitialTables,  \* the stored rows at the start
          Linkable,       \* rows of the other root entity
          ArrayMaxSize,   \* @ArrayMaxSize of the sub-entities
          MaxCalls,       \* bound: operations of a service function
          MaxErrors,      \* bound: failing statements
          Deviations      \* whether calls that depart from EntityStore are made

VARIABLES tables,   \* committed rows
          work,     \* rows as the connection sees them
          tx,       \* the connection's transaction: "none", "active", "failed"
          serial,   \* next _id of the root, sub-entity and value tables
          user,     \* user account of the executing service function
          account,  \* userAccountId of the context, NoAccount when cleared
          saved,    \* what the operation has cleared
          call,     \* the operation, as its caller knows it
          phase,    \* where the operation is
          seen,     \* _id of the entity the operation has read, 0 for none
          queue,    \* statements sent on the connection
          answer,   \* the operation's answer
          asked, errors  \* counters for the bounds

vars == <<tables, work, tx, serial, user, account, saved, call, phase, seen, queue, answer, asked, errors>>

NoCall == [kind |-> "none"]
Absent == [version |-> 0]
NoAnswer == [status |-> "none", found |-> {}]
Failed == [status |-> "error", found |-> {}]
Answered(ids) == [status |-> "ok", found |-> ids]

----------------------------------------------------------------------------
(* Rows of sub-entities as objects: those with one id are one object.      *)
SubsOf(t, i) ==
  {s \in t.subs : s.fk = i /\ \A r \in t.subs : r.fk = i /\ r.id = s.id => s.row <= r.row}

(* Values of the array field, likewise one for each id, in their order.    *)
ValuesOf(t, i) ==
  LET rows == {v \in t.vals : v.fk = i /\ \A r \in t.vals : r.fk = i /\ r.id = v.id => v.row <= r.row}
      ids == {v.id : v \in rows}
  IN [k \in 1..Cardinality(ids) |-> (CHOOSE v \in rows : v.id = Nth(ids, k)).value]

LinksOf(t, i) == {l.link : l \in {m \in t.links : m.fk = i}}

(* The rows as a caller knows them.                                        *)
Stored(t) ==
  [i \in EntityIds |->
    IF t.root[i] = Absent THEN Absent
    ELSE [owner |-> t.root[i].owner, version |-> t.root[i].version, value |-> t.root[i].value,
          subs |-> {<<s.id, s.value>> : s \in SubsOf(t, i)},
          tags |-> ValuesOf(t, i), links |-> LinksOf(t, i)]]

(* WHERE of the root table: an _id, a filter, the user account.            *)
Where(t, op, as) ==
  {i \in EntityIds : /\ t.root[i] # Absent
                     /\ op.id \in {0, i}
                     /\ op.filter \in {0, t.root[i].value}
                     /\ as \in {NoAccount, t.root[i].owner}}

First(ids) == {i \in ids : \A j \in ids : i <= j}

----------------------------------------------------------------------------
(* Statements, and what an answered one makes its branch send next.        *)
InsertSub(i, id, value) == [do |-> "insertSub", fk |-> i, id |-> id, value |-> value, readBack |-> FALSE]
InsertValue(i, id, value) == [do |-> "insertValue", fk |-> i, id |-> id, value |-> value]
InsertLink(i, link) == [do |-> "insertLink", fk |-> i, link |-> link]
SetVersion(i, version, value) == [do |-> "updateRoot", fk |-> i, version |-> version, value |-> value]
DeleteWhere(table, op, as) == [do |-> table, op |-> op, as |-> as]
Rollback == [do |-> "rollback"]

Then(s) ==
  CASE s.do = "selectLink" -> <<InsertLink(s.fk, s.link)>>
    [] s.do = "replaceValue" -> <<InsertValue(s.fk, s.id, s.value)>>
    [] s.do = "insertSub" /\ s.readBack -> <<[do |-> "selectSub", id |-> serial.sub]>>
    [] OTHER -> <<>>

(* The rows that a statement "WHERE foreign id IN (SELECT _id ...)" deletes *)
(* depend on the root rows at that time; a statement with an _id on that.  *)
Targets(t, op, as) ==
  CASE op.kind = "deleteAll" -> EntityIds
    [] op.kind = "delete" -> {op.id}
    [] OTHER -> Where(t, op, as)

Changed(row, version, value) == [row EXCEPT !.version = version, !.value = value]

(* The rows after a statement.                                             *)
Effect(t, s) ==
  CASE s.do = "insertSub" -> [t EXCEPT !.subs = @ \union
           {[row |-> serial.sub, fk |-> s.fk, id |-> s.id, value |-> s.value]}]
    [] s.do = "insertValue" -> [t EXCEPT !.vals = @ \union
           {[row |-> serial.val, fk |-> s.fk, id |-> s.id, value |-> s.value]}]
    [] s.do = "insertLink" -> [t EXCEPT !.links = @ \union {[fk |-> s.fk, link |-> s.link]}]
    [] s.do = "updateRoot" -> [t EXCEPT !.root[s.fk] =
           Changed(@, s.version, IF s.value = 0 THEN @.value ELSE s.value)]
    [] s.do = "updateRoots" -> [t EXCEPT !.root = [i \in EntityIds |->
           IF i \in Where(t, s.op, s.as) THEN Changed(@[i], @[i].version + 1, s.op.value) ELSE @[i]]]
    [] s.do = "updateSubs" -> [t EXCEPT !.subs =
           {IF r.id = s.id THEN [r EXCEPT !.value = s.value] ELSE r : r \in @}]
    [] s.do = "deleteSubRow" -> [t EXCEPT !.subs = {r \in @ : r.row # s.row}]
    [] s.do = "deleteLink" -> [t EXCEPT !.links = @ \ {[fk |-> s.fk, link |-> s.link]}]
    [] s.do = "deleteValue" -> [t EXCEPT !.vals = {v \in @ : v.fk # s.fk \/ v.value # s.value}]
    [] s.do = "replaceValue" -> [t EXCEPT !.vals = {v \in @ : v.fk # s.fk}]
    [] s.do = "deleteSubs" -> [t EXCEPT !.subs = {r \in @ : r.fk \notin Targets(t, s.op, s.as)}]
    [] s.do = "deleteValues" -> [t EXCEPT !.vals = {v \in @ : v.fk \notin Targets(t, s.op, s.as)}]
    [] s.do = "deleteLinks" -> [t EXCEPT !.links = {l \in @ : l.fk \notin Targets(t, s.op, s.as)}]
    [] s.do = "deleteRoots" -> [t EXCEPT !.root = [i \in EntityIds |->
           IF i \in Where(t, s.op, s.as) THEN Absent ELSE @[i]]]
    [] OTHER -> t

(* An answer that the operation takes as an error: no such row.            *)
NotFound(t, s) == \/ s.do = "selectLink" /\ s.link \notin Linkable
                  \/ s.do = "selectSub" /\ \A r \in t.subs : r.id # s.id
----------------------------------------------------------------------------
(* The statements each operation sends in parallel for the entity seen.    *)
Each(values, Statement(_)) == [k \in DOMAIN values |-> Statement(k)]

(* Children of a new entity; ids of sub-entities and values are indexes.   *)
createEntity(op, i) ==
     Each(op.values, LAMBDA k : InsertSub(i, k - 1, op.values[k]))
  \o Each(op.tags, LAMBDA k : InsertValue(i, k - 1, op.tags[k]))
  \o Each(SetToSeq(op.links), LAMBDA k : InsertLink(i, SetToSeq(op.links)[k]))

(* The greatest id of the stored sub-entities, as the code computes it:    *)
(* the path is looked up in the pair of metadata and data that getEntityById *)
(* returns, where it finds nothing.                                        *)
MaxSubItemId(i) == -1

TooManySubEntities(op, i) == MaxSubItemId(i) + Len(op.values) >= ArrayMaxSize

addSubEntities(op, i) ==
  IF op.kind = "addLinks"
  THEN Each(SetToSeq(op.links), LAMBDA k : [do |-> "selectLink", fk |-> i, link |-> SetToSeq(op.links)[k]])
  ELSE Each(op.values, LAMBDA k : InsertSub(i, MaxSubItemId(i) + k, op.values[k]))

(* Creates its sub-entities with the read-back that addSubEntities omits.  *)
addSubEntitiesByFilters(op, i) ==
  [k \in DOMAIN addSubEntities(op, i) |-> [addSubEntities(op, i)[k] EXCEPT !.readBack = TRUE]]

removeSubEntities(op, i) ==
  IF op.kind = "removeLinks"
  THEN LET links == SetToSeq({l \in LinksOf(work, i) : op.all \/ l = op.sub})
       IN Each(links, LAMBDA k : [do |-> "deleteLink", fk |-> i, link |-> links[k]])
  ELSE LET subs == SetToSeq({s \in SubsOf(work, i) : op.all \/ s.id = op.sub})
       IN Each(subs, LAMBDA k : [do |-> "deleteSubRow", row |-> subs[k].row])

removeSubEntitiesByFilters(op, i) == IF i = 0 THEN <<>> ELSE removeSubEntities(op, i)

(* Sub-entities that disappear, are new, or stay - compared by id.         *)
getSubEntitiesByAction(new, i) ==
  LET ids == {s.id : s \in SubsOf(work, i)} IN
    [delete |-> {id \in ids : \A s \in new : s[1] # id},
     add    |-> {s \in new : s[1] \notin ids},
     update |-> {s \in new : s[1] \in ids}]

(* A sub-entity's id is taken for its _id; a new one gets no foreign id;   *)
(* a changed one is found by its id alone.                                 *)
updateSubEntities(op, i) ==
  IF op.subs = {} THEN <<>>
  ELSE LET action == getSubEntitiesByAction(op.subs, i) IN
       SetToSeq({[do |-> "deleteSubRow", row |-> id] : id \in action.delete})
    \o SetToSeq({InsertSub(0, s[1], s[2]) : s \in action.add})
    \o SetToSeq({[do |-> "updateSubs", id |-> s[1], value |-> s[2]] : s \in action.update})

(* Each value is inserted after a statement that deletes all of them.      *)
updateEntity(op, i) ==
     updateSubEntities(op, i)
  \o Each(op.tags, LAMBDA k : [do |-> "replaceValue", fk |-> i, id |-> k - 1, value |-> op.tags[k]])
  \o <<SetVersion(i, work.root[i].version + 1, op.value)>>

(* Every value of the call gets the number of stored values as its id.     *)
addFieldValues(op, i) ==
     Each(op.tags, LAMBDA k : InsertValue(i, Len(ValuesOf(work, i)), op.tags[k]))
  \o <<SetVersion(i, work.root[i].version + 1, 0)>>

removeFieldValues(op, i) ==
     Each(op.tags, LAMBDA k : [do |-> "deleteValue", fk |-> i, value |-> op.tags[k]])
  \o <<SetVersion(i, work.root[i].version + 1, 0)>>

updateEntityByFilters(op) == <<[do |-> "updateRoots", op |-> op, as |-> account]>>

UpdateEveryonesEntities(op) == <<[do |-> "updateRoots", op |-> op, as |-> NoAccount]>>

updateEntitiesByFilters(op) == <<[do |-> "updateRoots", op |-> op, as |-> account]>>

(* Children first: their statements select the _ids of the root rows.      *)
DeleteRootsFirst(op, as) ==
  <<DeleteWhere("deleteRoots", op, as), DeleteWhere("deleteSubs", op, as),
    DeleteWhere("deleteValues", op, as), DeleteWhere("deleteLinks", op, as)>>

DeleteStatements(op, as) ==
  <<DeleteWhere("deleteSubs", op, as), DeleteWhere("deleteValues", op, as),
    DeleteWhere("deleteLinks", op, as), DeleteWhere("deleteRoots", op, as)>>

deleteEntityById(op) == DeleteStatements(op, NoAccount)
deleteEntityByFilters(op) == DeleteStatements(op, account)
deleteEntitiesByFilters(op) == DeleteStatements(op, account)
deleteAllEntities(op) == DeleteStatements(op, account)

Statements(op, i) ==
  CASE op.kind = "create" -> createEntity(op, i)
    [] op.kind \in {"addSubs", "addLinks"} -> addSubEntities(op, i)
    [] op.kind = "addSubsByFilters" -> addSubEntitiesByFilters(op, i)
    [] op.kind \in {"removeSubs", "removeLinks"} -> removeSubEntities(op, i)
    [] op.kind = "removeSubsByFilters" -> removeSubEntitiesByFilters(op, i)
    [] op.kind = "update" -> updateEntity(op, i)
    [] op.kind = "addValues" -> addFieldValues(op, i)
    [] op.kind = "removeValues" -> removeFieldValues(op, i)
    [] op.kind = "updateByFilters" -> updateEntityByFilters(op)
    [] op.kind = "updateEntities" -> updateEntitiesByFilters(op)
    [] op.kind = "delete" -> deleteEntityById(op)
    [] op.kind = "deleteByFilters" -> deleteEntityByFilters(op)
    [] op.kind = "deleteEntities" -> deleteEntitiesByFilters(op)
    [] op.kind = "deleteAll" -> deleteAllEntities(op)

----------------------------------------------------------------------------
(* How the operations differ before and after those statements.            *)
Queries == {"get", "getByFilters", "getEntities", "getAll", "getByIds", "contains"}
AddingSubs == {"addSubs", "addSubsByFilters", "addLinks"}
RemovingSubs == {"removeSubs", "removeSubsByFilters", "removeLinks"}
AddingOrRemovingSubs == AddingSubs \union RemovingSubs
ChangingValues == {"addValues", "removeValues"}
DeletingOne == {"delete", "deleteByFilters"}
Deleting == DeletingOne \union {"deleteEntities", "deleteAll"}
Kinds == Queries \union AddingOrRemovingSubs \union ChangingValues \union Deleting
           \union {"create", "update", "updateByFilters", "updateEntities"}

(* Queries take a local transaction only for their hooks.                  *)
InTransaction(op) == op.kind \notin Queries \/ op.hooked

(* Deletions read the entity for a hook or a user account only.            *)
ReadsFirst(op) ==
  \/ op.kind \in {"update", "updateByFilters"} \union ChangingValues \union AddingOrRemovingSubs
  \/ op.kind \in DeletingOne /\ (op.hooked \/ account # NoAccount)
  \/ op.kind = "contains" /\ account # NoAccount

(* Calls on which the code does something else than EntityStore says.      *)
Defective(op) ==
  \/ op.kind = "addSubs" /\ \E i \in Where(tables, op, user) : SubsOf(tables, i) # {}
  \/ op.kind = "addLinks" /\ ~(op.links \subseteq Linkable) /\ op.links \intersect Linkable # {}
  \/ op.kind = "addValues" /\ (Len(op.tags) > 1 \/ \E i \in Where(tables, op, user) :
       \E v \in tables.vals : v.fk = i /\ v.id >= Len(ValuesOf(tables, i)))
  \/ op.kind = "update" /\ op.subs # {}
  \/ op.kind = "deleteAll" /\ user # NoAccount
  \/ op.kind = "getByFilters" /\ op.hooked /\ Where(tables, op, user) = {}

----------------------------------------------------------------------------
(* Every row of a sub-entity, a value or a link belongs to a root row.     *)
NoOrphansIn(t) ==
  \A r \in t.subs \union t.vals \union t.links : r.fk \in EntityIds /\ t.root[r.fk] # Absent

(* Root rows by _id, with versions from 1 on, and finitely many children.  *)
WellFormed(t) ==
  /\ DOMAIN t = {"root", "subs", "vals", "links"}
  /\ t.root = [i \in EntityIds |-> t.root[i]]
  /\ \A i \in EntityIds : t.root[i] # Absent =>
       "version" \in DOMAIN t.root[i] /\ t.root[i].version \in Nat \ {0}
  /\ IsFiniteSet(t.subs) /\ IsFiniteSet(t.links)

(* Rows with exactly their columns, numbered by the sequences of their     *)
(* tables; a sub-entity gets its number after those with smaller ids.      *)
Numbered(t, next) ==
  /\ next \in [root : Nat, sub : Nat, val : Nat]
  /\ \A i \in EntityIds : t.root[i] # Absent =>
       /\ i < next.root
       /\ t.root[i] = [owner |-> t.root[i].owner, version |-> t.root[i].version, value |-> t.root[i].value]
  /\ \A r \in t.subs : r.row \in Nat /\ r.row < next.sub /\ r.id \in Nat /\ r.id < r.row
  /\ \A r, s \in t.subs : r.row = s.row => r = s
  /\ IsFiniteSet(t.vals) /\ \A v \in t.vals : v.row \in Nat /\ v.id \in Nat
  /\ \A l \in t.links : l = [fk |-> l.fk, link |-> l.link]

(* Each sub-entity and each value of an entity has an id of its own.       *)
IdsDiffer(t) ==
  /\ \A r, s \in t.subs : r.fk = s.fk /\ r.id = s.id => r = s
  /\ \A v, w \in t.vals : v.fk = w.fk /\ v.id = w.id => v.value = w.value

FirstSerial(t) ==
  [root |-> 1 + Cardinality({i \in EntityIds : t.root[i] # Absent}),
   sub |-> 1 + Cardinality(t.subs), val |-> 1 + Cardinality(t.vals)]

ASSUME ConstantsAssumption ==
  /\ EntityIds \subseteq Nat \ {0}
  /\ \A t \in InitialTables : WellFormed(t) /\ NoOrphansIn(t) /\ Numbered(t, FirstSerial(t)) /\ IdsDiffer(t)

(* A call by _id names one; 0 is no restriction.                           *)
ASSUME OpsAssumption ==
  \A op \in Ops :
    /\ op.kind \in Kinds /\ op.hooked \in BOOLEAN
    /\ op.kind \in {"delete", "contains"} => op.id # 0 /\ op.filter = 0
    /\ op.kind \in {"deleteAll", "getAll"} => op.id = 0 /\ op.filter = 0
    /\ op.value \in Nat /\ op.values \in Seq(Nat) /\ op.tags \in Seq(Nat)
    /\ IsFiniteSet(op.links)

Init ==
  /\ tables \in InitialTables
  /\ work = tables
  /\ tx = "none"
  /\ serial = FirstSerial(tables)
  /\ user \in Accounts \union {NoAccount}
  /\ account = user
  /\ saved = user
  /\ call = NoCall
  /\ phase = "idle"
  /\ seen = 0
  /\ queue = <<>>
  /\ answer = NoAnswer
  /\ asked = 0
  /\ errors = 0

(* A service function that got an error returns it.                        *)
Ask(op) ==
  /\ phase = "idle"
  /\ queue = <<>>
  /\ answer.status # "error"
  /\ asked < MaxCalls
  /\ op.as = user
  /\ op.kind = "create" => serial.root \in EntityIds
  /\ Deviations \/ ~Defective(op)
  /\ call' = op
  /\ phase' = "begin"
  /\ seen' = 0
  /\ answer' = NoAnswer
  /\ asked' = asked + 1
  /\ UNCHANGED <<tables, work, tx, serial, user, account, saved, queue, errors>>

(* The operation is answered; nothing is left to do.                       *)
Answer(result) ==
  /\ call' = NoCall
  /\ phase' = "idle"
  /\ answer' = result

(* An exception or an error before the parallel statements are sent: the   *)
(* local transaction, if there is one, is rolled back.                     *)
Fail ==
  IF tx = "none" \/ ~InTransaction(call)
  THEN Answer(Failed) /\ UNCHANGED queue
  ELSE /\ queue' = Append(queue, Rollback)
       /\ phase' = "failing"
       /\ UNCHANGED <<call, answer>>

AStatementFails ==
  /\ errors < MaxErrors
  /\ errors' = errors + 1

(* BEGIN; inside an open transaction PostgreSQL only warns.                *)
Begin ==
  /\ phase = "begin"
  /\ tx' = IF InTransaction(call) /\ tx = "none" THEN "active" ELSE tx
  /\ phase' = CASE call.kind = "create" -> "check"
                [] call.kind \in Queries /\ ~ReadsFirst(call) -> "query"
                [] ReadsFirst(call) -> "read"
                [] OTHER -> "send"
  /\ UNCHANGED <<tables, work, serial, user, account, saved, call, seen, queue, answer, asked, errors>>

BeginFails ==
  /\ phase = "begin"
  /\ InTransaction(call)
  /\ AStatementFails
  /\ Answer(Failed)
  /\ UNCHANGED <<tables, work, tx, serial, user, account, saved, seen, queue, asked>>

(* The new entity must belong to the user account of the context.          *)
CheckOwner ==
  /\ phase = "check"
  /\ IF account \in {NoAccount, call.owner}
     THEN phase' = "hooks" /\ UNCHANGED <<call, queue, answer>>
     ELSE Fail
  /\ UNCHANGED <<tables, work, tx, serial, user, account, saved, seen, asked, errors>>

(* getEntityById or getEntityByFilters of an operation.                    *)
ReadEntity ==
  /\ phase = "read"
  /\ \/ /\ seen' \in First(Where(work, call, account))
        /\ phase' = IF call.kind = "contains" THEN "query" ELSE "hooks"
        /\ UNCHANGED <<call, queue, answer>>
     \/ /\ Where(work, call, account) = {}
        /\ seen' = 0
        /\ IF call.kind = "removeSubsByFilters"
           THEN phase' = "send" /\ UNCHANGED <<call, queue, answer>>
           ELSE Fail
  /\ UNCHANGED <<tables, work, tx, serial, user, account, saved, asked, errors>>

(* removeSubEntitiesByFilters does not look at the error.                  *)
ReadEntityFails ==
  /\ phase = "read"
  /\ call.kind = "removeSubsByFilters" => Deviations
  /\ AStatementFails
  /\ tx' = IF tx = "active" THEN "failed" ELSE tx
  /\ IF call.kind = "removeSubsByFilters"
     THEN phase' = "send" /\ UNCHANGED <<call, queue, answer>>
     ELSE Fail
  /\ UNCHANGED <<tables, work, serial, user, account, saved, seen, asked>>

(* Hooks before the change, and the comparison of versions of updateEntity. *)
PreHooksPass ==
  /\ phase = "hooks"
  /\ IF call.kind = "update" /\ call.expect \notin {0, work.root[seen].version}
     THEN Fail
     ELSE /\ phase' = CASE call.kind = "create" -> "insert"
                       [] call.kind \in AddingOrRemovingSubs -> "version"
                       [] OTHER -> "send"
          /\ UNCHANGED <<call, queue, answer>>
  /\ UNCHANGED <<tables, work, tx, serial, user, account, saved, seen, asked, errors>>

PreHookRefuses ==
  /\ phase = "hooks"
  /\ call.hooked
  /\ Fail
  /\ UNCHANGED <<tables, work, tx, serial, user, account, saved, seen, asked, errors>>

(* createEntity: the root row.                                             *)
InsertRoot ==
  /\ phase = "insert"
  /\ work' = [work EXCEPT !.root[serial.root] =
                [owner |-> call.owner, version |-> 1, value |-> call.value]]
  /\ seen' = serial.root
  /\ serial' = [serial EXCEPT !.root = @ + 1]
  /\ phase' = "send"
  /\ UNCHANGED <<tables, tx, user, account, saved, call, queue, answer, asked, errors>>

(* tryUpdateEntityVersionAndLastModifiedTimestampIfNeeded, and then the    *)
(* limit of the array.                                                     *)
UpdateVersion ==
  /\ phase = "version"
  /\ work' = Effect(work, SetVersion(seen, work.root[seen].version + 1, 0))
  /\ IF call.kind \in {"addSubs", "addSubsByFilters"} /\ TooManySubEntities(call, seen)
     THEN Fail
     ELSE phase' = "send" /\ UNCHANGED <<call, queue, answer>>
  /\ UNCHANGED <<tables, tx, serial, user, account, saved, seen, asked, errors>>

(* The first row, or the version, cannot be written.                       *)
WriteFails ==
  /\ phase \in {"insert", "version"}
  /\ AStatementFails
  /\ tx' = "failed"
  /\ Fail
  /\ UNCHANGED <<tables, work, serial, user, account, saved, seen, asked>>

(* Changes of sub-entities run without the user account of the context.    *)
ClearsAccount == call.kind \in AddingOrRemovingSubs \union {"update"} /\ seen # 0

Send ==
  /\ phase = "send"
  /\ queue' = Statements(call, seen)
  /\ saved' = account
  /\ account' = IF ClearsAccount THEN NoAccount ELSE account
  /\ phase' = "run"
  /\ UNCHANGED <<tables, work, tx, serial, user, call, seen, answer, asked, errors>>

----------------------------------------------------------------------------
(* The next statement on the connection is executed and answered.  In a    *)
(* failed transaction it is an error, outside one it commits by itself.    *)
Execute ==
  /\ queue # <<>>
  /\ Head(queue) # Rollback
  /\ tx # "failed"
  /\ ~NotFound(work, Head(queue))
  /\ work' = Effect(work, Head(queue))
  /\ tables' = IF tx = "none" THEN Effect(tables, Head(queue)) ELSE tables
  /\ serial' = [serial EXCEPT !.sub = IF Head(queue).do = "insertSub" THEN @ + 1 ELSE @,
                              !.val = IF Head(queue).do = "insertValue" THEN @ + 1 ELSE @]
  /\ queue' = Tail(queue) \o Then(Head(queue))
  /\ UNCHANGED <<tx, user, account, saved, call, phase, seen, answer, asked, errors>>

(* The first branch that fails makes the operation roll back.              *)
BranchFails ==
  IF phase = "run"
  THEN queue' = Append(Tail(queue), Rollback) /\ phase' = "failing"
  ELSE queue' = Tail(queue) /\ UNCHANGED phase

ExecuteFails ==
  /\ queue # <<>>
  /\ Head(queue) # Rollback
  /\ IF tx # "failed" /\ NotFound(work, Head(queue))
     THEN UNCHANGED <<tx, errors>>
     ELSE /\ IF tx = "failed" THEN UNCHANGED errors ELSE AStatementFails
          /\ tx' = IF tx = "active" THEN "failed" ELSE tx
  /\ BranchFails
  /\ UNCHANGED <<tables, work, serial, user, account, saved, call, seen, answer, asked>>

(* ROLLBACK is answered, and then the operation with an error.             *)
ExecuteRollbackKeepingWork ==
  /\ queue # <<>>
  /\ Head(queue) = Rollback
  /\ tx' = "none"
  /\ queue' = Tail(queue)
  /\ Answer(Failed)
  /\ UNCHANGED <<tables, work, serial, user, account, saved, seen, asked, errors>>

ExecuteRollback ==
  /\ queue # <<>>
  /\ Head(queue) = Rollback
  /\ work' = tables
  /\ tx' = "none"
  /\ queue' = Tail(queue)
  /\ Answer(Failed)
  /\ UNCHANGED <<tables, serial, user, account, saved, seen, asked, errors>>

(* All branches have ended; createEntity reads the entity back.            *)
AllAnsweredKeepingCleared ==
  /\ phase = "run"
  /\ queue = <<>>
  /\ phase' = "posthook"
  /\ UNCHANGED <<tables, work, tx, serial, user, account, saved, call, seen, queue, answer, asked, errors>>

AllAnswered ==
  /\ phase = "run"
  /\ queue = <<>>
  /\ account' = IF ClearsAccount THEN saved ELSE account
  /\ phase' = "posthook"
  /\ UNCHANGED <<tables, work, tx, serial, user, saved, call, seen, queue, answer, asked, errors>>

(* An error of the read-back is answered, but the operation commits.       *)
ReadBackFails ==
  /\ phase = "run"
  /\ queue = <<>>
  /\ call.kind = "create"
  /\ AStatementFails
  /\ tx' = "failed"
  /\ answer' = Failed
  /\ phase' = "posthook"
  /\ UNCHANGED <<tables, work, serial, user, account, saved, call, seen, queue, asked>>

PostHookPasses ==
  /\ phase = "posthook"
  /\ phase' = "commit"
  /\ UNCHANGED <<tables, work, tx, serial, user, account, saved, call, seen, queue, answer, asked, errors>>

(* A hook that answers false or an error; the context is restored before.  *)
PostHookRefuses ==
  /\ phase = "posthook"
  /\ call.hooked
  /\ Fail
  /\ UNCHANGED <<tables, work, tx, serial, user, account, saved, seen, asked, errors>>

(* A hook that throws leaves the context as it was for the hook.           *)
PostHookThrows ==
  /\ phase = "posthook"
  /\ call.hooked
  /\ Fail
  /\ account' = NoAccount
  /\ UNCHANGED <<tables, work, tx, serial, user, saved, seen, asked, errors>>

(* COMMIT; of a failed transaction it is a ROLLBACK.                       *)
Commit ==
  /\ phase = "commit"
  /\ tables' = IF tx = "failed" THEN tables ELSE work
  /\ work' = tables'
  /\ tx' = "none"
  /\ Answer(IF answer = Failed THEN Failed
            ELSE CASE call.kind = "create" -> Answered({seen})
                   [] call.kind \in Queries -> Answered(answer.found)
                   [] OTHER -> Answered({}))
  /\ UNCHANGED <<serial, user, account, saved, seen, queue, asked, errors>>

CommitFails ==
  /\ phase = "commit"
  /\ AStatementFails
  /\ tx' = "failed"
  /\ Fail
  /\ UNCHANGED <<tables, work, serial, user, account, saved, seen, asked>>

----------------------------------------------------------------------------
(* What a query finds.                                                     *)
doesEntityArrayFieldContainValue(op) ==
  {i \in {op.id} : \E v \in work.vals : v.fk = i /\ v.value = op.value}

getAllEntities == {i \in EntityIds : work.root[i] # Absent /\ account \in {NoAccount, work.root[i].owner}}

Found(op) ==
  CASE op.kind \in {"get", "getByFilters"} -> First(Where(work, op, account))
    [] op.kind = "contains" -> doesEntityArrayFieldContainValue(op)
    [] op.kind = "getAll" -> getAllEntities
    [] op.kind = "getEntities" -> Where(work, op, account)

(* A query; with hooks it stays in its transaction until they are done.    *)
Query ==
  /\ phase = "query"
  /\ call.kind # "getByIds"
  /\ call.kind \in {"get", "getByFilters"} => Found(call) # {}
  /\ IF InTransaction(call)
     THEN /\ phase' = "posthook"
          /\ answer' = [status |-> "none", found |-> Found(call)]
          /\ UNCHANGED call
     ELSE Answer(Answered(Found(call)))
  /\ UNCHANGED <<tables, work, tx, serial, user, account, saved, seen, queue, asked, errors>>

(* Nothing found: getEntityById ends its transaction, getEntityByFilters   *)
(* leaves it open on the connection.                                       *)
QueryFindsNothing ==
  /\ phase = "query"
  /\ call.kind \in {"get", "getByFilters"}
  /\ Found(call) = {}
  /\ IF call.kind = "get" /\ InTransaction(call)
     THEN tx' = "none" /\ tables' = work
     ELSE UNCHANGED <<tx, tables>>
  /\ Answer(Failed)
  /\ UNCHANGED <<work, serial, user, account, saved, seen, queue, asked, errors>>

(* getEntitiesByIds sends a statement that lacks a parenthesis.            *)
QueryFails ==
  /\ phase = "query"
  /\ IF call.kind = "getByIds" THEN UNCHANGED errors ELSE AStatementFails
  /\ tx' = IF tx = "active" THEN "failed" ELSE tx
  /\ Fail
  /\ UNCHANGED <<tables, work, serial, user, account, saved, seen, asked>>

----------------------------------------------------------------------------
DataStoreStep ==
  \/ Begin \/ BeginFails \/ CheckOwner \/ ReadEntity \/ ReadEntityFails
  \/ PreHooksPass \/ PreHookRefuses \/ InsertRoot \/ UpdateVersion \/ WriteFails \/ Send
  \/ Execute \/ ExecuteFails \/ ExecuteRollback \/ AllAnswered \/ ReadBackFails
  \/ PostHookPasses \/ PostHookRefuses \/ PostHookThrows \/ Commit \/ CommitFails
  \/ Query \/ QueryFindsNothing \/ QueryFails

Next == (\E op \in Ops : Ask(op)) \/ DataStoreStep

Spec == Init /\ [][Next]_vars

----------------------------------------------------------------------------
(* Values of the variables.                                                *)
TypeOK ==
  /\ tx \in {"none", "active", "failed"}
  /\ account \in Accounts \union {NoAccount}
  /\ phase \in {"idle", "begin", "check", "read", "hooks", "insert", "version", "send", "run",
                "query", "posthook", "commit", "failing"}
  /\ phase = "idle" <=> call = NoCall
  /\ seen \in EntityIds \union {0}
  /\ tx = "none" => work = tables
  /\ queue # <<>> => phase \in {"run", "failing", "idle"}

(* The operations do to the stored entities what the API says of them, or  *)
(* answer an error and have changed nothing: the committed rows, read as   *)
(* entities, follow EntityStore, whatever statement fails.                 *)
Store == INSTANCE EntityStore
  WITH entities <- Stored(tables),
       call <- [c \in {"caller"} |-> call],
       answer <- [c \in {"caller"} |-> IF call = NoCall THEN answer ELSE NoAnswer],
       Callers <- {"caller"}, Calls <- Ops, Initial <- {Stored(t) : t \in InitialTables}, MaxSubId <- 4

ImplementsEntityStore == Store!Spec

(* No row of a sub-entity, a value or a link outlives its root row: the    *)
(* statements of a deletion find the children by the root rows that one of *)
(* them deletes.                                                           *)
NoOrphans == NoOrphansIn(tables)

(* An operation leaves no transaction and no statement on the connection;  *)
(* after a success the context has the user account again, so that the     *)
(* next operation is restricted to its entities.                           *)
LeftAsFound ==
  phase = "idle" =>
    /\ tx = "none"
    /\ queue = <<>>
    /\ answer.status # "error" => account = user
=============================================================================
