---------------------- MODULE MongoDbEntityOperations ----------------------
(***************************************************************************)
(* The entity operations of MongoDbDataStore, for service functions that   *)
(* run at the same time and have no user account in their context.         *)
(*                                                                         *)
(* A session is opened and session.withTransaction is called, but no       *)
(* collection operation is given the session: each is sent outside the     *)
(* transaction, takes effect at once and is never undone.  What remains is *)
(* the server's promise that an operation on one document is atomic;       *)
(* updateMany and deleteMany change one document after the other.          *)
(* _backkLock, which nothing reads, is left out.                           *)
(***************************************************************************)
EXTENDS Integers, Sequences, FiniteSets, Order

CONSTANTS Callers,      \* service function executions
          EntityIds,    \* _ids that insertOne may give
          NoAccount,    \* no user account in the context
          Ops,          \* the calls a service function may make
          InitialDocs,  \* the stored documents at the start
          MaxCalls,     \* bound: calls of all service functions, with executeInsideTransaction
          MaxErrors,    \* bound: operations that the server fails
          Deviations    \* whether operations go on where they depart from EntityStore

VARIABLES docs,     \* the collection
          used,     \* _ids that were stored or that a call has named; no ObjectId comes twice
          call,     \* the operation of each caller
          phase,    \* where it is
          seen,     \* version of the entity it has read, 0 for none
          todo,     \* documents that its updateMany or deleteMany has not reached
          found,    \* entities that a query has read, or a new one's _id
          local,    \* localTransaction of the context
          own,      \* the operation has set it
          global,   \* globalTransaction of the context
          inside,   \* the caller is inside executeInsideTransaction
          answer,   \* the answer, from the moment the operation has taken effect
          asked, errors  \* counters for the bounds

vars == <<docs, used, call, phase, seen, todo, found, local, own, global, inside, answer, asked, errors>>
flags == <<global, inside>>

NoCall == [kind |-> "none"]
Absent == [version |-> 0]
NoAnswer == [status |-> "none", found |-> {}]
Failed == [status |-> "error", found |-> {}]
Answered(ids) == [status |-> "ok", found |-> ids]

(* undefined + 1, and every sum with it.                                   *)
NaN == -1
NextVersion(v) == IF v = NaN THEN NaN ELSE v + 1

----------------------------------------------------------------------------
Queries == {"get", "getByFilters", "getEntities", "getByIds", "getAll", "count", "contains"}
Pushes == {"addSubs", "addSubsByFilters", "addValues", "addLinks"}
Pulls == {"removeSubs", "removeSubsByFilters", "removeValues", "removeLinks"}
ManyKinds == {"updateByFilters", "updateEntities", "deleteEntities", "deleteAll"}
Deleters == {"delete", "deleteByFilters", "deleteEntities", "deleteAll"}
Updaters == {"update", "updateByFilters", "updateEntities"}
Kinds == Queries \union Pushes \union Pulls \union ManyKinds \union Deleters \union Updaters \union {"create"}

(* Operations whose document is named by its _id.                          *)
ById == {"get", "contains", "update", "delete"}
        \union ((Pushes \union Pulls) \ {"addSubsByFilters", "removeSubsByFilters"})

Where(op) == {i \in EntityIds : /\ docs[i] # Absent
                                /\ op.id \in {0, i}
                                /\ op.filter \in {0, docs[i].value}}

First(ids) == {i \in ids : \A j \in ids : i <= j}

(* Documents that the queries and the filters of the changes find.  One    *)
(* entity is looked for by its _id or is the first that matches.           *)
getEntityById(op) == Where(op)
getEntityByFilters(op) == First(Where(op))
getEntitiesByFilters(op) == Where(op)
getEntitiesByIds(op) == Where(op)
getAllEntities(op) == Where(op)
getEntityCount(op) == Where(op)
doesArrayFieldContainValueInEntityById(op) ==
  {i \in Where(op) : \E k \in DOMAIN docs[i].tags : docs[i].tags[k] = op.value}
updateEntityByFilters(op) == Where(op)
updateEntitiesByFilters(op) == Where(op)
deleteEntityById(op) == Where(op)
deleteEntityByFilters(op) == First(Where(op))
deleteEntitiesByFilters(op) == Where(op)
deleteAllEntities(op) == Where(op)

(* An array of sub-entities is the set of its <<position, id, value>>.     *)
(* The store gives no ids: a sub-entity has the one its creator wrote.     *)
NoId == -1
Null == 0

Appended(subs, values) ==
  subs \union {<<Cardinality(subs) + k - 1, NoId, values[k]>> : k \in DOMAIN values}

(* $pull closes the gaps.                                                  *)
Pulled(subs, id) ==
  {<<s[1] - Cardinality({t \in subs : t[1] < s[1] /\ t[2] = id}), s[2], s[3]>> :
     s \in {t \in subs : t[2] # id}}

(* handleNestedOneToManyRelations: the array is not replaced, the fields   *)
(* of a given <<id, value>> but its id are set at the position id.  The    *)
(* server fills an array that is too short.                                *)
ValuesSet(subs, given) ==
  LET Value(p, old) == IF \E g \in given : g[1] = p THEN (CHOOSE g \in given : g[1] = p)[2] ELSE old
  IN  {<<s[1], s[2], Value(s[1], s[3])>> : s \in subs}
      \union {<<p, NoId, Value(p, Null)>> : p \in UNION {Cardinality(subs)..g[1] : g \in given}}

(* $set of the given fields; the version comes from the entity that was    *)
(* read, or from the caller, who gave none.                                *)
updateEntity(op, doc, version) ==
  [doc EXCEPT !.version = IF version = 0 THEN NaN ELSE NextVersion(version),
              !.value = IF op.value = 0 THEN @ ELSE op.value,
              !.tags = IF op.tags = <<>> THEN @ ELSE op.tags,
              !.subs = ValuesSet(@, op.subs)]

(* Mutant of the next one: the array is written back as a whole.           *)
SetInsteadOfPush(op, doc) ==
  [doc EXCEPT !.version = NextVersion(@),
              !.tags = IF op.kind = "addValues" THEN op.tags ELSE @,
              !.links = IF op.kind = "addLinks" THEN op.links ELSE @]

(* $push to the array of the call, and $inc.                               *)
addSimpleSubEntitiesOrValuesByEntityId(op, doc) ==
  [doc EXCEPT !.version = NextVersion(@),
              !.subs = IF op.kind \in {"addSubs", "addSubsByFilters"}
                       THEN Appended(@, op.values) ELSE @,
              !.tags = IF op.kind = "addValues" THEN @ \o op.tags ELSE @,
              !.links = IF op.kind = "addLinks" THEN @ \union op.links ELSE @]
addSimpleSubEntitiesOrValuesByFilters(op, doc) == addSimpleSubEntitiesOrValuesByEntityId(op, doc)
addArrayFieldValuesToEntityById(op, doc) == addSimpleSubEntitiesOrValuesByEntityId(op, doc)

(* $pull of a sub-entity or link by its id, and $inc.                      *)
removeSimpleSubEntityById(op, doc) ==
  [doc EXCEPT !.version = NextVersion(@),
              !.subs = IF op.kind = "removeLinks" THEN @ ELSE Pulled(@, op.sub),
              !.links = IF op.kind = "removeLinks" THEN @ \ {op.sub} ELSE @]
removeSimpleSubEntityByIdFromEntityByFilters(op, doc) == removeSimpleSubEntityById(op, doc)

removeFieldValues(op, doc) ==
  [doc EXCEPT !.version = NextVersion(@),
              !.tags = Without(@, op.tags)]

(* A path that is no field name (op.all) is looked up in the pair of       *)
(* metadata and data, where nothing is found: there is nothing to remove.  *)
removeSubEntitiesFromEntityById(op, doc) == doc
removeSubEntitiesFromEntityByFilters(op, doc) == doc
removeSubEntityFromEntityById(op, doc) ==
  IF op.all THEN removeSubEntitiesFromEntityById(op, doc) ELSE removeSimpleSubEntityById(op, doc)
removeSubEntityFromEntityByFilters(op, doc) ==
  IF op.all THEN removeSubEntitiesFromEntityByFilters(op, doc)
  ELSE removeSimpleSubEntityByIdFromEntityByFilters(op, doc)

(* And addSubEntities throws on the undefined that it finds there.         *)
addSubEntitiesToEntityById(op) == op.kind = "addSubs" /\ op.all
addSubEntitiesToEntityByFilters(op) == op.kind = "addSubsByFilters" /\ op.all
Throws(op) == addSubEntitiesToEntityById(op) \/ addSubEntitiesToEntityByFilters(op)

Changed(op, doc, version) ==
  CASE op.kind = "update" -> updateEntity(op, doc, version)
    [] op.kind = "addValues" -> addArrayFieldValuesToEntityById(op, doc)
    [] op.kind = "addSubsByFilters" -> addSimpleSubEntitiesOrValuesByFilters(op, doc)
    [] op.kind \in {"addSubs", "addLinks"} -> addSimpleSubEntitiesOrValuesByEntityId(op, doc)
    [] op.kind = "removeValues" -> removeFieldValues(op, doc)
    [] op.kind = "removeSubsByFilters" -> removeSubEntityFromEntityByFilters(op, doc)
    [] op.kind \in {"removeSubs", "removeLinks"} -> removeSubEntityFromEntityById(op, doc)
    [] op.kind \in {"updateByFilters", "updateEntities"} ->
         [doc EXCEPT !.version = NextVersion(@), !.value = op.value]
    [] op.kind \in Deleters -> Absent

(* The documents that updateMany, deleteMany, updateOne, deleteOne reach.  *)
Targets(op) ==
  CASE op.kind = "updateByFilters" -> updateEntityByFilters(op)
    [] op.kind = "updateEntities" -> updateEntitiesByFilters(op)
    [] op.kind = "delete" -> deleteEntityById(op)
    [] op.kind = "deleteByFilters" -> deleteEntityByFilters(op)
    [] op.kind = "deleteEntities" -> deleteEntitiesByFilters(op)
    [] op.kind = "deleteAll" -> deleteAllEntities(op)
    [] OTHER -> First(Where(op))

(* Operations that read the entity before they write; a version in the     *)
(* update makes updateEntity read, but it is looked for in the pair of     *)
(* metadata and data and never compared.                                   *)
ReadsFirst(op) ==
  \/ op.kind = "update" /\ (op.expect # 0 \/ op.hooked)
  \/ op.kind = "updateByFilters"
  \/ op.kind \in {"delete", "deleteByFilters"} \union Pushes \union Pulls /\ op.hooked
  \/ op.kind \in Pushes \union Pulls /\ op.all

(* tryStartLocalTransactionIfNeeded; queries have one for their hooks.     *)
InTransaction(op) == op.kind \notin Queries \/ op.hooked

----------------------------------------------------------------------------
At(c, p) == phase[c] = p
Goto(c, p) == phase' = [phase EXCEPT ![c] = p]

(* An array of sub-entities as callers know it, and an entity.             *)
Listed(subs) == {<<s[2], s[3]>> : s \in subs}
Entity(doc) == IF doc = Absent THEN Absent ELSE [doc EXCEPT !.subs = Listed(@)]

(* Where the next operation of a caller does something else than           *)
(* EntityStore says.  A change of many documents by another caller has not *)
(* reached one that the operation may be about,                            *)
MeetsHalfDone(c) ==
  /\ phase[c] \in {"start", "read", "write", "query"} /\ call[c].kind # "create"
  /\ \E d \in Callers \ {c} : \E i \in todo[d] : call[c].id \in {0, i}

(* something is answered although the entity is not there,                 *)
AnswersMissing(c) ==
  /\ Where(call[c]) = {}
  /\ \/ At(c, "start") /\ call[c].kind = "get" /\ call[c].bare
     \/ phase[c] \in {"read", "write"} /\ call[c].kind = "updateByFilters"
     \/ At(c, "write") /\ call[c].kind \in (Pushes \union Pulls) \ {"removeSubsByFilters"}

(* an update follows on another version than the one that was read or      *)
(* expected,                                                               *)
LosesVersion(c) ==
  /\ At(c, "write") /\ call[c].kind = "update"
  /\ \E i \in Where(call[c]) : seen[c] # docs[i].version \/ call[c].expect \notin {0, docs[i].version}

(* and sub-entities get no id, are set in another one's place or stay.     *)
MissesSubEntities(c) ==
  /\ At(c, "write")
  /\ \/ call[c].kind = "create" /\ call[c].values # <<>>
     \/ call[c].kind \in {"addSubs", "addSubsByFilters"} /\ ~call[c].all
     \/ call[c].kind \in Pulls /\ call[c].all
     \/ /\ call[c].kind = "update" /\ call[c].subs # {}
        /\ \E i \in Where(call[c]) : Listed(ValuesSet(docs[i].subs, call[c].subs)) # call[c].subs

Departs(c) == MeetsHalfDone(c) \/ AnswersMissing(c) \/ LosesVersion(c) \/ MissesSubEntities(c)

Permitted(c) == Deviations \/ ~Departs(c)

----------------------------------------------------------------------------
Versions == (Nat \ {0}) \union {NaN}

IsDocument(doc) ==
  /\ doc = [field \in {"owner", "version", "value", "subs", "tags", "links"} |-> doc[field]]
  /\ doc.version \in Versions

IsCollection(stored) ==
  /\ stored = [i \in EntityIds |-> stored[i]]
  /\ \A i \in EntityIds : stored[i] = Absent \/ IsDocument(stored[i])

ASSUME ConstantsAssumption ==
  /\ EntityIds \subseteq Nat \ {0}
  /\ \A stored \in InitialDocs :
       IsCollection(stored) /\ \A i \in EntityIds : stored[i].version # NaN

(* A call by _id names one and has no filter.                              *)
ASSUME OpsAssumption ==
  \A op \in Ops :
    /\ op.kind \in Kinds /\ op.hooked \in BOOLEAN /\ op.all \in BOOLEAN
    /\ op.as = NoAccount
    /\ op.kind \in ById => op.id \in EntityIds /\ op.filter = 0
    /\ op.bare \in BOOLEAN

Init ==
  /\ docs \in InitialDocs
  /\ used = {i \in EntityIds : docs[i] # Absent}
  /\ call = [c \in Callers |-> NoCall]
  /\ phase = [c \in Callers |-> "idle"]
  /\ seen = [c \in Callers |-> 0]
  /\ todo = [c \in Callers |-> {}]
  /\ found = [c \in Callers |-> {}]
  /\ local = [c \in Callers |-> FALSE]
  /\ own = [c \in Callers |-> FALSE]
  /\ global = [c \in Callers |-> FALSE]
  /\ inside = [c \in Callers |-> FALSE]
  /\ answer = [c \in Callers |-> NoAnswer]
  /\ asked = 0 /\ errors = 0

(* A service function that got an error returns it.                        *)
Ask(c, op) ==
  /\ At(c, "idle")
  /\ answer[c].status # "error"
  /\ asked < MaxCalls
  /\ asked' = asked + 1
  /\ used' = used \union {op.id}
  /\ call' = [call EXCEPT ![c] = op]
  /\ answer' = [answer EXCEPT ![c] = NoAnswer]
  /\ Goto(c, "start")
  /\ UNCHANGED <<docs, seen, todo, found, local, own, flags, errors>>

(* Mutant of Finish: cleanupLocalTransactionIfNeeded is forgotten.         *)
FinishWithoutCleanup(c, result) ==
  /\ answer' = [answer EXCEPT ![c] = result]
  /\ Goto(c, "idle")
  /\ call' = [call EXCEPT ![c] = NoCall]
  /\ seen' = [seen EXCEPT ![c] = 0]
  /\ found' = [found EXCEPT ![c] = {}]
  /\ UNCHANGED <<todo, local, own>>

(* The finally block of an operation; queries have no cleanup in theirs.   *)
Finish(c, result) ==
  /\ answer' = [answer EXCEPT ![c] = result]
  /\ Goto(c, "idle")
  /\ call' = [call EXCEPT ![c] = NoCall]
  /\ local' = [local EXCEPT ![c] = @ /\ (call[c].kind \in Queries \/ ~own[c])]
  /\ own' = [own EXCEPT ![c] = FALSE]
  /\ seen' = [seen EXCEPT ![c] = 0]
  /\ found' = [found EXCEPT ![c] = {}]
  /\ UNCHANGED todo

(* getEntityById for includeResponseFields ['_id'] gives the _id back,     *)
(* without a query and without hooks.                                      *)
AnswerBare(c) ==
  /\ At(c, "start") /\ call[c].kind = "get" /\ call[c].bare
  /\ Permitted(c)
  /\ Finish(c, Answered({call[c].id}))
  /\ UNCHANGED <<docs, used, flags, asked, errors>>

Start(c) ==
  /\ At(c, "start") /\ ~(call[c].kind = "get" /\ call[c].bare)
  /\ LET starts == InTransaction(call[c]) /\ ~global[c] /\ ~local[c] IN
       /\ own' = [own EXCEPT ![c] = starts]
       /\ local' = [local EXCEPT ![c] = @ \/ starts]
  /\ Goto(c, IF call[c].kind \in Queries \union {"create"} /\ call[c].hooked THEN "hooks"
             ELSE IF call[c].kind \in Queries THEN "query"
             ELSE IF ReadsFirst(call[c]) THEN "read" ELSE "write")
  /\ UNCHANGED <<docs, used, call, seen, todo, found, flags, answer, asked, errors>>

(* Operations that return nothing for the error of an entity not found.    *)
MissingIsAnswered(op) ==
  \/ op.kind \in {"updateByFilters", "delete", "deleteByFilters"}
  \/ op.kind = "removeSubsByFilters" /\ op.all

(* getEntityById or getEntityByFilters of an operation.                    *)
ReadEntity(c) ==
  /\ At(c, "read") /\ Permitted(c)
  /\ \/ \E i \in First(Where(call[c])) :
          /\ seen' = [seen EXCEPT ![c] = docs[i].version]
          /\ Goto(c, IF call[c].hooked THEN "hooks" ELSE "write")
          /\ UNCHANGED <<call, todo, found, local, own, answer>>
     \/ /\ Where(call[c]) = {}
        /\ Finish(c, IF MissingIsAnswered(call[c]) THEN Answered({}) ELSE Failed)
  /\ UNCHANGED <<docs, used, flags, asked, errors>>

PreHooksPass(c) ==
  /\ At(c, "hooks")
  /\ Goto(c, IF call[c].kind \in Queries THEN "query" ELSE "write")
  /\ UNCHANGED <<docs, used, call, seen, todo, found, local, own, flags, answer, asked, errors>>

PreHookRefuses(c) ==
  /\ At(c, "hooks")
  /\ Finish(c, Failed)
  /\ UNCHANGED <<docs, used, flags, asked, errors>>

(* The change is made: the post-hook is next, or the answer.               *)
AfterChange(c) ==
  IF call[c].hooked
  THEN /\ Goto(c, "posthook")
       /\ answer' = [answer EXCEPT ![c] = Answered({})]
       /\ UNCHANGED <<call, seen, todo, found, local, own>>
  ELSE Finish(c, Answered({}))

(* insertOne.                                                              *)
InsertOne(c) ==
  /\ At(c, "write") /\ call[c].kind = "create" /\ Permitted(c)
  /\ \E i \in EntityIds :
       /\ i \notin used
       /\ \A j \in EntityIds : j < i => j \in used
       /\ used' = used \union {i}
       /\ docs' = [docs EXCEPT ![i] =
            [owner |-> call[c].owner, version |-> 1, value |-> call[c].value,
             subs |-> Appended({}, call[c].values),
             tags |-> call[c].tags, links |-> call[c].links]]
       /\ found' = [found EXCEPT ![c] = {i}]
       /\ answer' = [answer EXCEPT ![c] = Answered({i})]
  /\ Goto(c, "readback")
  /\ UNCHANGED <<call, seen, todo, local, own, flags, asked, errors>>

(* updateOne or deleteOne; only updateEntity looks at matchedCount.        *)
WriteOne(c) ==
  /\ At(c, "write") /\ call[c].kind \notin ManyKinds \union {"create"} /\ Permitted(c)
  /\ \/ \E i \in Targets(call[c]) :
          /\ ~Throws(call[c])
          /\ docs' = [docs EXCEPT ![i] = Changed(call[c], @, seen[c])]
          /\ AfterChange(c)
     \/ /\ Targets(call[c]) = {} \/ Throws(call[c])
        /\ IF call[c].kind = "update" \/ Throws(call[c]) THEN Finish(c, Failed) ELSE AfterChange(c)
        /\ UNCHANGED docs
  /\ UNCHANGED <<used, flags, asked, errors>>

(* updateMany or deleteMany begins.                                        *)
WriteMany(c) ==
  /\ At(c, "write") /\ call[c].kind \in ManyKinds /\ Permitted(c)
  /\ todo' = [todo EXCEPT ![c] = Targets(call[c])]
  /\ answer' = [answer EXCEPT ![c] = Answered({})]
  /\ Goto(c, "many")
  /\ UNCHANGED <<docs, used, call, seen, found, local, own, flags, asked, errors>>

(* It changes a document that still matches.                               *)
WriteNext(c) ==
  /\ At(c, "many")
  /\ \E i \in todo[c] :
       /\ docs' = IF i \in Where(call[c]) THEN [docs EXCEPT ![i] = Changed(call[c], @, 0)] ELSE docs
       /\ todo' = [todo EXCEPT ![c] = @ \ {i}]
  /\ UNCHANGED <<used, call, phase, seen, found, local, own, flags, answer, asked, errors>>

ManyWritten(c) ==
  /\ At(c, "many") /\ todo[c] = {}
  /\ AfterChange(c)
  /\ UNCHANGED <<docs, used, flags, asked, errors>>

(* createEntity reads what it has inserted.                                *)
ReadBack(c) ==
  /\ At(c, "readback")
  /\ IF \E i \in found[c] : docs[i] = Absent THEN Finish(c, Failed)
     ELSE IF call[c].hooked
     THEN Goto(c, "posthook") /\ UNCHANGED <<call, seen, todo, found, local, own, answer>>
     ELSE Finish(c, Answered(found[c]))
  /\ UNCHANGED <<docs, used, flags, asked, errors>>

(* The documents that a query answers; a single one must be there.         *)
QueryFinds(op) ==
  CASE op.kind = "get" -> getEntityById(op)
    [] op.kind = "getByFilters" -> getEntityByFilters(op)
    [] op.kind = "getEntities" -> getEntitiesByFilters(op)
    [] op.kind = "getByIds" -> getEntitiesByIds(op)
    [] op.kind = "getAll" -> getAllEntities(op)
    [] op.kind = "count" -> getEntityCount(op)
    [] op.kind = "contains" -> doesArrayFieldContainValueInEntityById(op)

Query(c) ==
  /\ At(c, "query") /\ Permitted(c)
  /\ IF call[c].kind \in {"get", "getByFilters"} /\ QueryFinds(call[c]) = {} THEN Finish(c, Failed)
     ELSE IF call[c].hooked
     THEN /\ found' = [found EXCEPT ![c] = QueryFinds(call[c])]
          /\ answer' = [answer EXCEPT ![c] = Answered(QueryFinds(call[c]))]
          /\ Goto(c, "posthook")
          /\ UNCHANGED <<call, seen, todo, local, own>>
     ELSE Finish(c, Answered(QueryFinds(call[c])))
  /\ UNCHANGED <<docs, used, flags, asked, errors>>

PostHookPasses(c) ==
  /\ At(c, "posthook")
  /\ Finish(c, Answered(found[c]))
  /\ UNCHANGED <<docs, used, flags, asked, errors>>

(* The error is thrown out of withTransaction; the change stays.           *)
PostHookRefuses(c) ==
  /\ At(c, "posthook")
  /\ Finish(c, Failed)
  /\ UNCHANGED <<docs, used, flags, asked, errors>>

(* The server refuses or does not answer an operation; one that changes    *)
(* many documents may have changed some.                                   *)
OperationFails(c) ==
  /\ phase[c] \in {"start", "read", "write", "many", "readback", "query"}
  /\ Deviations \/ todo[c] = {}
  /\ errors < MaxErrors
  /\ errors' = errors + 1
  /\ answer' = [answer EXCEPT ![c] = Failed]
  /\ Goto(c, "idle")
  /\ call' = [call EXCEPT ![c] = NoCall]
  /\ local' = [local EXCEPT ![c] = @ /\ (call[c].kind \in Queries \/ ~own[c])]
  /\ own' = [own EXCEPT ![c] = FALSE]
  /\ seen' = [seen EXCEPT ![c] = 0]
  /\ found' = [found EXCEPT ![c] = {}]
  /\ todo' = [todo EXCEPT ![c] = {}]
  /\ UNCHANGED <<docs, used, flags, asked>>

----------------------------------------------------------------------------
(* executeInsideTransaction; after an exception the flag is not reset.     *)
ExecuteInsideTransaction(c) ==
  /\ At(c, "idle") /\ ~inside[c]
  /\ answer[c].status # "error"
  /\ asked < MaxCalls
  /\ asked' = asked + 1
  /\ inside' = [inside EXCEPT ![c] = TRUE]
  /\ global' = [global EXCEPT ![c] = TRUE]
  /\ UNCHANGED <<docs, used, call, phase, seen, todo, found, local, own, answer, errors>>

ExecutableReturns(c) ==
  /\ At(c, "idle") /\ inside[c]
  /\ inside' = [inside EXCEPT ![c] = FALSE]
  /\ global' = [global EXCEPT ![c] = FALSE]
  /\ UNCHANGED <<docs, used, call, phase, seen, todo, found, local, own, answer, asked, errors>>

ExecutableThrows(c) ==
  /\ At(c, "idle") /\ inside[c]
  /\ inside' = [inside EXCEPT ![c] = FALSE]
  /\ UNCHANGED <<docs, used, call, phase, seen, todo, found, local, own, global, answer, asked, errors>>

----------------------------------------------------------------------------
Step(c) ==
  \/ \E op \in Ops : Ask(c, op)
  \/ AnswerBare(c) \/ Start(c) \/ ReadEntity(c) \/ PreHooksPass(c) \/ PreHookRefuses(c)
  \/ InsertOne(c) \/ WriteOne(c) \/ WriteMany(c) \/ WriteNext(c) \/ ManyWritten(c) \/ ReadBack(c)
  \/ Query(c) \/ PostHookPasses(c) \/ PostHookRefuses(c) \/ OperationFails(c)
  \/ ExecuteInsideTransaction(c) \/ ExecutableReturns(c) \/ ExecutableThrows(c)

Next == \E c \in Callers : Step(c)

Spec == Init /\ [][Next]_vars

----------------------------------------------------------------------------
(* Values of the variables; a transaction of an operation's own is local.  *)
TypeOK ==
  /\ IsCollection(docs)
  /\ call \in [Callers -> Ops \union {NoCall}]
  /\ phase \in [Callers -> {"idle", "start", "read", "hooks", "write", "many", "readback", "query", "posthook"}]
  /\ seen \in [Callers -> Versions \union {0}]
  /\ todo \in [Callers -> SUBSET EntityIds] /\ found \in [Callers -> SUBSET EntityIds]
  /\ local \in [Callers -> BOOLEAN] /\ own \in [Callers -> BOOLEAN]
  /\ global \in [Callers -> BOOLEAN] /\ inside \in [Callers -> BOOLEAN]
  /\ answer \in [Callers -> [status : {"none", "ok", "error"}, found : SUBSET EntityIds]]
  /\ \A c \in Callers :
       /\ At(c, "idle") <=> call[c] = NoCall
       /\ todo[c] # {} => At(c, "many")
       /\ own[c] => local[c] /\ ~At(c, "idle")
       /\ inside[c] => global[c]

(* The documents as callers know them: a change of many documents that has *)
(* begun counts as done.                                                   *)
Stored ==
  [i \in EntityIds |->
    Entity(IF \E c \in Callers : i \in todo[c]
           THEN Changed(call[CHOOSE c \in Callers : i \in todo[c]], docs[i], 0)
           ELSE docs[i])]

(* Operations of several callers that overlap do to the stored entities    *)
(* what the API says, each at one moment, though none of them is inside a  *)
(* transaction; but one that has taken effect may be answered with an      *)
(* error, when a post-hook refuses or the server fails what follows.       *)
Store == INSTANCE EntityStore
  WITH entities <- Stored,
       call <- [c \in Callers |-> IF answer[c] = NoAnswer THEN call[c] ELSE NoCall],
       Calls <- Ops, MaxSubId <- 3,
       Initial <- {[i \in EntityIds |-> Entity(stored[i])] : stored \in InitialDocs}

ImplementsEntityStore == Store!SpecWithoutUndo

(* What has been done is not answered with an error (docs/api/HOOKS: "If   *)
(* any of the hooks or the actual data store operation fails, the whole    *)
(* transaction fails").                                                    *)
ErrorMeansUndone ==
  [][\A c \in Callers :
       answer[c].status = "ok" /\ call[c].kind \notin Queries \union {"none"} => answer'[c].status # "error"]_vars

(* An update that names a version is not made to another one               *)
(* (docs/api/ERRORS: "Entity was updated before this request, please       *)
(* re-fetch the entity and try update again").                             *)
NoStaleUpdate ==
  [][\A c \in Callers :
       At(c, "write") /\ call[c].kind = "update" /\ answer'[c].status = "ok" =>
         call[c].expect \in {0, docs[call[c].id].version}]_vars
=============================================================================
