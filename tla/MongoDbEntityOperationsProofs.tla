------------------ MODULE MongoDbEntityOperationsProofs ------------------
(***************************************************************************)
(* Proofs about MongoDbEntityOperations, for all callers, operations,      *)
(* documents and numbers of calls.                                         *)
(***************************************************************************)
EXTENDS MongoDbEntityOperations, TLAPS, WellFoundedInduction

(* What the phase tells of the operation.                                  *)
PhaseInv ==
  \A c \in Callers :
    /\ At(c, "read") => ReadsFirst(call[c]) /\ call[c].kind \notin Queries \union {"create"}
    /\ At(c, "write") => call[c].kind \notin Queries
    /\ At(c, "many") => call[c].kind \in ManyKinds
    /\ At(c, "readback") => call[c].kind = "create"
    /\ At(c, "query") => call[c].kind \in Queries
    /\ At(c, "posthook") => call[c].hooked

TypeInv == TypeOK /\ PhaseInv

(* No _id comes twice, and no version gets lost.                           *)
DocsInv ==
  \A i \in EntityIds : docs[i].version # NaN /\ (docs[i] # Absent => i \in used)

(* Documents that a change of many has not reached match it still, and no  *)
(* other one is on its way to them.                                        *)
TodoInv ==
  \A c \in Callers : \A i \in todo[c] :
    i \in Where(call[c]) /\ \A d \in Callers \ {c} : i \notin todo[d]

(* The answer is there from the moment the operation has taken effect.     *)
AnswerFits(c) ==
  /\ At(c, "idle") => found[c] = {}
  /\ phase[c] \in {"start", "read", "hooks", "write", "query"} => answer[c] = NoAnswer /\ found[c] = {}
  /\ At(c, "many") => answer[c] = Answered({}) /\ found[c] = {}
  /\ phase[c] \in {"readback", "posthook"} => answer[c] = Answered(found[c])

AnswersInv == \A c \in Callers : AnswerFits(c)

StoreInv == TypeInv /\ DocsInv /\ TodoInv /\ AnswersInv

----------------------------------------------------------------------------
(* Documents                                                               *)

Fields == {"owner", "version", "value", "subs", "tags", "links"}

IsRecord(r) == r = [field \in Fields |-> r[field]]

(* Two records with the same fields are the same.                          *)
LEMMA SameFields ==
  ASSUME NEW a, NEW b, IsRecord(a), IsRecord(b),
         a.owner = b.owner, a.version = b.version, a.value = b.value,
         a.subs = b.subs, a.tags = b.tags, a.links = b.links
  PROVE  a = b
<1>1. \A field \in Fields : a[field] = b[field]
  BY DEF Fields
<1> QED
  BY <1>1 DEF IsRecord

(* A document is a record that is there.                                   *)
LEMMA DocumentFacts ==
  ASSUME NEW doc
  PROVE  /\ IsDocument(doc) <=> IsRecord(doc) /\ doc.version \in Versions
         /\ IsDocument(doc) => doc # Absent
         /\ Absent.version \notin Versions
         /\ Absent.version # NaN
<1>1. 0 \notin Versions /\ Absent.version = 0 /\ 0 # NaN
  BY DEF Versions, NaN, Absent
<1> QED
  BY <1>1 DEF IsDocument, IsRecord, Fields

ValueSet(op, doc) == [doc EXCEPT !.version = NextVersion(@), !.value = op.value]

(* What the document is after a change of each kind.                       *)
LEMMA ChangedByKind ==
  ASSUME NEW op, NEW doc, NEW version
  PROVE  /\ op.kind = "update" => Changed(op, doc, version) = updateEntity(op, doc, version)
         /\ op.kind \in Pushes =>
              Changed(op, doc, version) = addSimpleSubEntitiesOrValuesByEntityId(op, doc)
         /\ op.kind = "removeValues" => Changed(op, doc, version) = removeFieldValues(op, doc)
         /\ op.kind \in Pulls \ {"removeValues"} =>
              Changed(op, doc, version) = IF op.all THEN doc ELSE removeSimpleSubEntityById(op, doc)
         /\ op.kind \in {"updateByFilters", "updateEntities"} =>
              Changed(op, doc, version) = ValueSet(op, doc)
         /\ op.kind \in Deleters => Changed(op, doc, version) = Absent
  BY DEF Changed, ValueSet, Pushes, Pulls, Deleters, addArrayFieldValuesToEntityById,
         addSimpleSubEntitiesOrValuesByFilters, removeSubEntityFromEntityByFilters,
         removeSubEntityFromEntityById, removeSubEntitiesFromEntityById,
         removeSubEntitiesFromEntityByFilters, removeSimpleSubEntityByIdFromEntityByFilters

(* The fields after an update.                                             *)
LEMMA UpdatedFields ==
  ASSUME NEW doc, IsDocument(doc), NEW op, NEW version
  PROVE  LET new == updateEntity(op, doc, version)
         IN  /\ IsRecord(new)
             /\ new.owner = doc.owner /\ new.links = doc.links
             /\ new.version = IF version = 0 THEN NaN ELSE NextVersion(version)
             /\ new.value = IF op.value = 0 THEN doc.value ELSE op.value
             /\ new.subs = ValuesSet(doc.subs, op.subs)
             /\ new.tags = IF op.tags = <<>> THEN doc.tags ELSE op.tags
  BY DEF IsDocument, updateEntity, IsRecord, Fields

(* After a $push.                                                          *)
LEMMA PushedFields ==
  ASSUME NEW doc, IsDocument(doc), NEW op
  PROVE  LET new == addSimpleSubEntitiesOrValuesByEntityId(op, doc)
         IN  /\ IsRecord(new)
             /\ new.owner = doc.owner /\ new.value = doc.value
             /\ new.version = NextVersion(doc.version)
             /\ op.kind \notin {"addSubs", "addSubsByFilters"} => new.subs = doc.subs
             /\ new.tags = IF op.kind = "addValues" THEN doc.tags \o op.tags ELSE doc.tags
             /\ new.links = IF op.kind = "addLinks" THEN doc.links \union op.links ELSE doc.links
  BY DEF IsDocument, addSimpleSubEntitiesOrValuesByEntityId, IsRecord, Fields

(* After a $pull of a sub-entity or a link.                                *)
LEMMA PulledFields ==
  ASSUME NEW doc, IsDocument(doc), NEW op
  PROVE  LET new == removeSimpleSubEntityById(op, doc)
         IN  /\ IsRecord(new)
             /\ new.owner = doc.owner /\ new.value = doc.value /\ new.tags = doc.tags
             /\ new.version = NextVersion(doc.version)
             /\ new.subs = IF op.kind = "removeLinks" THEN doc.subs ELSE Pulled(doc.subs, op.sub)
             /\ new.links = IF op.kind = "removeLinks" THEN doc.links \ {op.sub} ELSE doc.links
  BY DEF IsDocument, removeSimpleSubEntityById, IsRecord, Fields

(* After a $pull of values.                                                *)
LEMMA ValuesRemovedFields ==
  ASSUME NEW doc, IsDocument(doc), NEW op
  PROVE  LET new == removeFieldValues(op, doc)
         IN  /\ IsRecord(new)
             /\ new.owner = doc.owner /\ new.value = doc.value
             /\ new.subs = doc.subs /\ new.links = doc.links
             /\ new.version = NextVersion(doc.version)
             /\ new.tags = Without(doc.tags, op.tags)
<1>1. removeFieldValues(op, doc) = [doc EXCEPT !.version = NextVersion(@), !.tags = Without(@, op.tags)]
  BY DEF removeFieldValues
<1> QED
  BY <1>1 DEF IsDocument, IsRecord, Fields

(* After an updateMany.                                                    *)
LEMMA ValueSetFields ==
  ASSUME NEW doc, IsDocument(doc), NEW op
  PROVE  LET new == ValueSet(op, doc)
         IN  /\ IsRecord(new)
             /\ new.owner = doc.owner /\ new.value = op.value
             /\ new.subs = doc.subs /\ new.tags = doc.tags /\ new.links = doc.links
             /\ new.version = NextVersion(doc.version)
  BY DEF ValueSet, IsDocument, IsRecord, Fields

(* A change that does not delete leaves a document, with the next version; *)
(* but for updates, which write the version they were given.               *)
LEMMA ChangedDocument ==
  ASSUME NEW op \in Ops, op.kind \notin Queries \union {"create"},
         NEW doc, IsDocument(doc), NEW version \in Versions \union {0}
  PROVE  /\ op.kind \in Deleters => Changed(op, doc, version) = Absent
         /\ op.kind \notin Deleters => IsDocument(Changed(op, doc, version))
         /\ op.kind # "update" /\ doc.version # NaN => Changed(op, doc, version).version # NaN
         /\ op.kind = "update" /\ version \notin {0, NaN} => Changed(op, doc, version).version # NaN
<1>0. /\ NaN \in Versions /\ \A v \in Versions : NextVersion(v) \in Versions
      /\ \A v \in Versions : v # NaN => NextVersion(v) # NaN
      /\ doc.version \in Versions /\ IsRecord(doc)
      /\ Absent.version # NaN
  BY DocumentFacts DEF Versions, NextVersion, NaN
<1>1. CASE op.kind = "update"
  <2>1. Changed(op, doc, version) = updateEntity(op, doc, version)
    BY <1>1, ChangedByKind
  <2>2. /\ IsRecord(updateEntity(op, doc, version))
        /\ updateEntity(op, doc, version).version = IF version = 0 THEN NaN ELSE NextVersion(version)
    BY UpdatedFields
  <2>3. updateEntity(op, doc, version).version \in Versions
    BY <1>0, <2>2
  <2> QED
    BY <1>0, <1>1, <2>1, <2>2, <2>3, DocumentFacts DEF Deleters
<1>2. ASSUME NEW new, Changed(op, doc, version) = new, IsRecord(new),
             new.version = NextVersion(doc.version) \/ new = doc,
             op.kind \notin Deleters \union {"update"}
      PROVE  /\ IsDocument(Changed(op, doc, version))
             /\ doc.version # NaN => Changed(op, doc, version).version # NaN
  BY <1>0, <1>2, DocumentFacts
<1>3. CASE op.kind \in Pushes
  <2>1. Changed(op, doc, version) = addSimpleSubEntitiesOrValuesByEntityId(op, doc)
    BY <1>3, ChangedByKind
  <2> QED
    BY <1>2, <1>3, <2>1, PushedFields DEF Deleters, Pushes
<1>4. CASE op.kind = "removeValues"
  <2>1. Changed(op, doc, version) = removeFieldValues(op, doc)
    BY <1>4, ChangedByKind
  <2> QED
    BY <1>2, <1>4, <2>1, ValuesRemovedFields DEF Deleters
<1>5. CASE op.kind \in Pulls \ {"removeValues"}
  <2>1. Changed(op, doc, version) = doc \/ Changed(op, doc, version) = removeSimpleSubEntityById(op, doc)
    BY <1>5, ChangedByKind
  <2> QED
    BY <1>0, <1>2, <1>5, <2>1, PulledFields DEF Deleters, Pulls
<1>6. CASE op.kind \in {"updateByFilters", "updateEntities"}
  <2>1. Changed(op, doc, version) = ValueSet(op, doc)
    BY <1>6, ChangedByKind
  <2>2. /\ IsRecord(ValueSet(op, doc))
        /\ ValueSet(op, doc).version = NextVersion(doc.version)
    BY ValueSetFields
  <2>3. op.kind \notin Deleters \union {"update"}
    BY <1>6 DEF Deleters
  <2> QED
    BY <1>2, <2>1, <2>2, <2>3
<1>7. CASE op.kind \in Deleters
  <2>1. Changed(op, doc, version) = Absent
    BY <1>7, ChangedByKind
  <2>2. op.kind # "update"
    BY <1>7 DEF Deleters
  <2> QED
    BY <1>0, <1>7, <2>1, <2>2
<1> QED
  BY <1>1, <1>3, <1>4, <1>5, <1>6, <1>7, OpsAssumption DEF Kinds, Pulls, ManyKinds, Updaters, Deleters

----------------------------------------------------------------------------
(* Types                                                                   *)

(* No call of a service function is "no call".                             *)
LEMMA OpsAreCalls ==
  /\ NoCall.kind = "none" /\ "none" \notin Kinds
  /\ \A op \in Ops : /\ op # NoCall /\ op.kind \in Kinds /\ op.kind # "none"
                     /\ op.hooked \in BOOLEAN /\ op.all \in BOOLEAN
<1>1. "none" \notin Kinds
  BY DEF Kinds, Queries, Pushes, Pulls, ManyKinds, Deleters, Updaters
<1>2. NoCall.kind = "none"
  BY DEF NoCall
<1> QED
  BY <1>1, <1>2, OpsAssumption

(* A query, an update and the first of some documents are among them.      *)
LEMMA FoundAreIds ==
  ASSUME NEW op
  PROVE  /\ Where(op) \subseteq EntityIds /\ First(Where(op)) \subseteq Where(op)
         /\ Targets(op) \subseteq Where(op)
         /\ op.kind \in Queries => QueryFinds(op) \subseteq Where(op)
<1>1. Where(op) \subseteq EntityIds /\ First(Where(op)) \subseteq Where(op)
  BY DEF Where, First
<1>2. doesArrayFieldContainValueInEntityById(op) \subseteq Where(op)
  BY DEF doesArrayFieldContainValueInEntityById
<1>3. Targets(op) \subseteq Where(op)
  BY <1>1 DEF Targets, updateEntityByFilters, updateEntitiesByFilters, deleteEntityById,
    deleteEntityByFilters, deleteEntitiesByFilters, deleteAllEntities
<1>4. ASSUME op.kind \in Queries PROVE QueryFinds(op) \subseteq Where(op)
  BY <1>1, <1>2, <1>4 DEF Queries, QueryFinds, getEntityById, getEntityByFilters, getEntitiesByFilters,
    getEntitiesByIds, getAllEntities, getEntityCount
<1> QED
  BY <1>1, <1>3, <1>4

(* One document is replaced.                                               *)
LEMMA CollectionChanged ==
  ASSUME NEW stored, IsCollection(stored), NEW i \in EntityIds, NEW doc,
         doc = Absent \/ IsDocument(doc)
  PROVE  /\ IsCollection([stored EXCEPT ![i] = doc])
         /\ [stored EXCEPT ![i] = doc][i] = doc
         /\ \A j \in EntityIds \ {i} : [stored EXCEPT ![i] = doc][j] = stored[j]
<1> DEFINE new == [stored EXCEPT ![i] = doc]
<1>1. stored = [j \in EntityIds |-> stored[j]]
  BY DEF IsCollection
<1>2. /\ new = [j \in EntityIds |-> new[j]]
      /\ new[i] = doc /\ \A j \in EntityIds \ {i} : new[j] = stored[j]
  BY <1>1
<1>3. \A j \in EntityIds : new[j] = Absent \/ IsDocument(new[j])
  BY <1>2 DEF IsCollection
<1> QED
  BY <1>2, <1>3 DEF IsCollection

(* Documents that are found are there.                                     *)
LEMMA FoundAreDocuments ==
  ASSUME IsCollection(docs), NEW op, NEW i \in Where(op)
  PROVE  i \in EntityIds /\ IsDocument(docs[i])
  BY DEF Where, IsCollection

(* The initial state.                                                      *)
LEMMA TypeInvInit == Init => TypeInv
<1> SUFFICES ASSUME Init PROVE TypeInv
  OBVIOUS
<1>1. IsCollection(docs)
  BY ConstantsAssumption DEF Init
<1>2. NoAnswer \in [status : {"none", "ok", "error"}, found : SUBSET EntityIds]
  BY DEF NoAnswer
<1> QED
  BY <1>1, <1>2 DEF Init, TypeInv, TypeOK, PhaseInv, At

(* Documents stay documents.                                               *)
LEMMA CollectionKept ==
  ASSUME TypeInv, NEW c \in Callers, Step(c)
  PROVE  IsCollection(docs')
<1>1. IsCollection(docs) /\ call \in [Callers -> Ops \union {NoCall}]
      /\ seen \in [Callers -> Versions \union {0}]
  BY DEF TypeInv, TypeOK
<1>2. At(c, "write") \/ At(c, "many") =>
        call[c] \in Ops /\ call[c].kind \notin Queries /\ (At(c, "many") => call[c].kind \in ManyKinds)
  <2>1. At(c, "write") \/ At(c, "many") => call[c] # NoCall
    BY DEF TypeInv, TypeOK, At
  <2>2. call[c] \in Ops \union {NoCall}
    BY <1>1
  <2> QED
    BY <2>1, <2>2 DEF TypeInv, PhaseInv, ManyKinds, Queries
<1>3. CASE InsertOne(c)
  <2>1. PICK i \in EntityIds : docs' = [docs EXCEPT ![i] =
            [owner |-> call[c].owner, version |-> 1, value |-> call[c].value,
             subs |-> Appended({}, call[c].values),
             tags |-> call[c].tags, links |-> call[c].links]]
    BY <1>3 DEF InsertOne
  <2> DEFINE doc == [owner |-> call[c].owner, version |-> 1, value |-> call[c].value,
             subs |-> Appended({}, call[c].values),
             tags |-> call[c].tags, links |-> call[c].links]
  <2>2. IsDocument(doc)
    BY DEF IsDocument, Versions
  <2>3. docs' = [docs EXCEPT ![i] = doc]
    BY <2>1
  <2> HIDE DEF doc
  <2> QED
    BY <1>1, <2>2, <2>3, CollectionChanged
<1>4. CASE WriteOne(c)
  <2>1. ASSUME NEW i \in Targets(call[c]), docs' = [docs EXCEPT ![i] = Changed(call[c], docs[i], seen[c])]
        PROVE  IsCollection(docs')
    <3>1. i \in EntityIds /\ IsDocument(docs[i])
      BY <1>1, FoundAreIds, FoundAreDocuments
    <3>2. call[c] \in Ops /\ call[c].kind \notin Queries \union {"create"}
      BY <1>2, <1>4 DEF WriteOne
    <3>3. Changed(call[c], docs[i], seen[c]) = Absent \/ IsDocument(Changed(call[c], docs[i], seen[c]))
      BY <1>1, <3>1, <3>2, ChangedDocument
    <3> QED
      BY <1>1, <2>1, <3>1, <3>3, CollectionChanged
  <2> QED
    BY <1>1, <1>4, <2>1 DEF WriteOne
<1>5. CASE WriteNext(c)
  <2>1. PICK i \in todo[c] :
          docs' = IF i \in Where(call[c]) THEN [docs EXCEPT ![i] = Changed(call[c], docs[i], 0)] ELSE docs
    BY <1>5 DEF WriteNext
  <2>2. CASE i \in Where(call[c])
    <3>1. i \in EntityIds /\ IsDocument(docs[i])
      BY <1>1, <2>2, FoundAreDocuments
    <3>2. call[c] \in Ops /\ call[c].kind \notin Queries \union {"create"}
      BY <1>2, <1>5 DEF WriteNext, ManyKinds
    <3>3. Changed(call[c], docs[i], 0) = Absent \/ IsDocument(Changed(call[c], docs[i], 0))
      BY <3>1, <3>2, ChangedDocument
    <3> QED
      BY <1>1, <2>1, <2>2, <3>1, <3>3, CollectionChanged
  <2> QED
    BY <1>1, <2>1, <2>2
<1>6. CASE UNCHANGED docs
  BY <1>1, <1>6
<1> QED
  BY <1>3, <1>4, <1>5, <1>6 DEF Step, Ask, Start, ReadEntity, PreHooksPass, PreHookRefuses, WriteMany,
    ManyWritten, ReadBack, Query, PostHookPasses, PostHookRefuses, OperationFails,
    ExecuteInsideTransaction, ExecutableReturns, ExecutableThrows, AnswerBare

(* The answer of an operation leaves the context as TypeInv has it.        *)
LEMMA FinishKeepsTypes ==
  ASSUME TypeInv, IsCollection(docs'), NEW c \in Callers, ~At(c, "idle"), todo[c] = {},
         NEW result \in [status : {"none", "ok", "error"}, found : SUBSET EntityIds],
         Finish(c, result), UNCHANGED flags
  PROVE  TypeInv'
<1>1. TypeOK'
  BY DEF Finish, TypeInv, TypeOK, At, Goto, flags
<1>2. PhaseInv'
  BY DEF Finish, TypeInv, TypeOK, PhaseInv, At, Goto
<1> QED
  BY <1>1, <1>2 DEF TypeInv

(* Every step keeps TypeInv.                                               *)
LEMMA TypeInvStep ==
  ASSUME TypeInv, [Next]_vars
  PROVE  TypeInv'
<1>0. ASSUME UNCHANGED vars PROVE TypeInv'
  BY <1>0 DEF vars, TypeInv, TypeOK, PhaseInv, At, ReadsFirst
<1> SUFFICES ASSUME NEW c \in Callers, Step(c) PROVE TypeInv'
  BY <1>0 DEF Next
<1>a. IsCollection(docs')
  BY CollectionKept
<1>b. /\ Failed \in [status : {"none", "ok", "error"}, found : SUBSET EntityIds]
      /\ NoAnswer \in [status : {"none", "ok", "error"}, found : SUBSET EntityIds]
      /\ \A ids \in SUBSET EntityIds :
           Answered(ids) \in [status : {"none", "ok", "error"}, found : SUBSET EntityIds]
  BY DEF Failed, NoAnswer, Answered
<1>c. /\ call[c] \in Ops \union {NoCall} /\ found[c] \in SUBSET EntityIds
      /\ ~At(c, "idle") => call[c] \in Ops /\ call[c] # NoCall
      /\ ~At(c, "many") => todo[c] = {}
      /\ IsCollection(docs)
  BY DEF TypeInv, TypeOK
<1>d. At(c, "idle") \/ At(c, "start") \/ At(c, "read") \/ At(c, "hooks") \/ At(c, "write") \/ At(c, "many")
      \/ At(c, "readback") \/ At(c, "query") \/ At(c, "posthook")
  BY DEF TypeInv, TypeOK, At
<1>1. ASSUME NEW op \in Ops, Ask(c, op) PROVE TypeInv'
  <2>1. TypeOK'
    BY <1>1, <1>a, <1>b, OpsAreCalls DEF Ask, TypeInv, TypeOK, At, Goto, flags
  <2>2. PhaseInv'
    BY <1>1, OpsAreCalls DEF Ask, TypeInv, TypeOK, PhaseInv, At, Goto
  <2> QED
    BY <2>1, <2>2 DEF TypeInv
<1>2. CASE Start(c)
  <2>1. TypeOK'
    BY <1>2, <1>a DEF Start, TypeInv, TypeOK, At, Goto, flags
  <2>2. PhaseInv'
    <3>1. ReadsFirst(call[c]) => call[c].kind # "create"
      BY DEF ReadsFirst, Pushes, Pulls
    <3> QED
      BY <1>2, <3>1 DEF Start, TypeInv, TypeOK, PhaseInv, At, Goto
  <2> QED
    BY <2>1, <2>2 DEF TypeInv
<1>19. CASE AnswerBare(c)
  <2>1. call[c].id \in EntityIds /\ ~At(c, "idle") /\ todo[c] = {} /\ UNCHANGED flags
    BY <1>19, <1>c, OpsAssumption DEF AnswerBare, ById, At
  <2>2. Answered({call[c].id}) \in [status : {"none", "ok", "error"}, found : SUBSET EntityIds]
    BY <1>b, <2>1
  <2> QED
    BY <1>19, <1>a, <2>1, <2>2, FinishKeepsTypes DEF AnswerBare
<1>3. CASE ReadEntity(c)
  <2>1. ASSUME NEW i \in First(Where(call[c])), seen' = [seen EXCEPT ![c] = docs[i].version],
               Goto(c, IF call[c].hooked THEN "hooks" ELSE "write"),
               UNCHANGED <<call, todo, found, local, own, answer>>
        PROVE  TypeInv'
    <3>1. IsDocument(docs[i])
      BY <1>c, <2>1, FoundAreIds, FoundAreDocuments
    <3>2. docs[i].version \in Versions
      BY <3>1 DEF IsDocument
    <3>3. TypeOK'
      BY <1>3, <1>a, <2>1, <3>2 DEF ReadEntity, TypeInv, TypeOK, At, Goto, flags
    <3>4. PhaseInv'
      BY <1>3, <2>1 DEF ReadEntity, TypeInv, TypeOK, PhaseInv, At, Goto
    <3> QED
      BY <3>3, <3>4 DEF TypeInv
  <2>2. ASSUME Finish(c, IF MissingIsAnswered(call[c]) THEN Answered({}) ELSE Failed) PROVE TypeInv'
    <3>1. todo[c] = {} /\ ~At(c, "idle") /\ UNCHANGED flags
      BY <1>3, <1>c DEF ReadEntity, At
    <3> QED
      BY <1>a, <1>b, <2>2, <3>1, FinishKeepsTypes
  <2> QED
    BY <1>3, <2>1, <2>2 DEF ReadEntity
<1>4. CASE PreHooksPass(c)
  <2>1. TypeOK'
    BY <1>4, <1>a DEF PreHooksPass, TypeInv, TypeOK, At, Goto, flags
  <2>2. PhaseInv'
    BY <1>4 DEF PreHooksPass, TypeInv, TypeOK, PhaseInv, At, Goto
  <2> QED
    BY <2>1, <2>2 DEF TypeInv
<1>5. CASE PreHookRefuses(c)
  BY <1>5, <1>a, <1>b, <1>c, FinishKeepsTypes DEF PreHookRefuses, At
<1>6. CASE InsertOne(c)
  <2>1. PICK i \in EntityIds : found' = [found EXCEPT ![c] = {i}] /\ answer' = [answer EXCEPT ![c] = Answered({i})]
    BY <1>6 DEF InsertOne
  <2>a. {i} \in SUBSET EntityIds
    OBVIOUS
  <2>b. Answered({i}) \in [status : {"none", "ok", "error"}, found : SUBSET EntityIds]
    BY <1>b, <2>a
  <2>2. TypeOK'
    BY <1>6, <1>a, <2>1, <2>a, <2>b DEF InsertOne, TypeInv, TypeOK, At, Goto, flags
  <2>3. PhaseInv'
    BY <1>6 DEF InsertOne, TypeInv, TypeOK, PhaseInv, At, Goto
  <2> QED
    BY <2>2, <2>3 DEF TypeInv
<1>e. ASSUME AfterChange(c), UNCHANGED flags, todo[c] = {}, At(c, "write") \/ At(c, "many") PROVE TypeInv'
  <2>1. CASE ~call[c].hooked
    BY <1>e, <1>a, <1>b, <2>1, FinishKeepsTypes DEF AfterChange, At
  <2>2. CASE call[c].hooked
    <3>0. Answered({}) \in [status : {"none", "ok", "error"}, found : SUBSET EntityIds]
      BY <1>b
    <3>a. call[c] # NoCall /\ phase[c] # "idle" /\ todo' = todo
      BY <1>c, <1>e, <2>2 DEF AfterChange, At
    <3>b. phase' = [phase EXCEPT ![c] = "posthook"] /\ answer' = [answer EXCEPT ![c] = Answered({})]
          /\ UNCHANGED <<call, seen, todo, found, local, own>>
      BY <1>e, <2>2 DEF AfterChange, Goto
    <3>1. TypeOK'
      BY <1>a, <1>e, <3>0, <3>a, <3>b DEF TypeInv, TypeOK, At, flags
    <3>2. PhaseInv'
      BY <1>e, <2>2 DEF AfterChange, TypeInv, TypeOK, PhaseInv, At, Goto
    <3> QED
      BY <3>1, <3>2 DEF TypeInv
  <2> QED
    BY <2>1, <2>2
<1>7. CASE WriteOne(c)
  <2>1. CASE AfterChange(c)
    BY <1>7, <1>c, <1>e, <2>1 DEF WriteOne, At
  <2>2. CASE Finish(c, Failed)
    BY <1>7, <1>a, <1>b, <1>c, <2>2, FinishKeepsTypes DEF WriteOne, At
  <2> QED
    BY <1>7, <2>1, <2>2 DEF WriteOne
<1>8. CASE WriteMany(c)
  <2>1. Targets(call[c]) \subseteq EntityIds
    BY FoundAreIds
  <2>2. TypeOK'
    BY <1>8, <1>a, <1>b, <2>1 DEF WriteMany, TypeInv, TypeOK, At, Goto, flags
  <2>3. PhaseInv'
    BY <1>8 DEF WriteMany, TypeInv, TypeOK, PhaseInv, At, Goto
  <2> QED
    BY <2>2, <2>3 DEF TypeInv
<1>9. CASE WriteNext(c)
  <2>2. TypeOK'
    BY <1>9, <1>a DEF WriteNext, TypeInv, TypeOK, At, flags
  <2>3. PhaseInv'
    BY <1>9 DEF WriteNext, TypeInv, TypeOK, PhaseInv, At
  <2> QED
    BY <2>2, <2>3 DEF TypeInv
<1>10. CASE ManyWritten(c)
  BY <1>10, <1>e DEF ManyWritten
<1>11. CASE ReadBack(c)
  <2>1. CASE Finish(c, Failed) \/ Finish(c, Answered(found[c]))
    BY <1>11, <1>a, <1>b, <1>c, <2>1, FinishKeepsTypes DEF ReadBack, At
  <2>2. CASE call[c].hooked /\ Goto(c, "posthook") /\ UNCHANGED <<call, seen, todo, found, local, own, answer>>
    <3>1. TypeOK'
      BY <1>11, <1>a, <2>2 DEF ReadBack, TypeInv, TypeOK, At, Goto, flags
    <3>2. PhaseInv'
      BY <1>11, <2>2 DEF ReadBack, TypeInv, TypeOK, PhaseInv, At, Goto
    <3> QED
      BY <3>1, <3>2 DEF TypeInv
  <2> QED
    BY <1>11, <2>1, <2>2 DEF ReadBack
<1>12. CASE Query(c)
  <2>0. QueryFinds(call[c]) \in SUBSET EntityIds
    BY <1>12, FoundAreIds DEF Query, TypeInv, PhaseInv
  <2>1. CASE Finish(c, Failed) \/ Finish(c, Answered(QueryFinds(call[c])))
    BY <1>12, <1>a, <1>b, <1>c, <2>0, <2>1, FinishKeepsTypes DEF Query, At
  <2>2. CASE /\ call[c].hooked /\ Goto(c, "posthook") /\ found' = [found EXCEPT ![c] = QueryFinds(call[c])]
             /\ answer' = [answer EXCEPT ![c] = Answered(QueryFinds(call[c]))]
             /\ UNCHANGED <<call, seen, todo, local, own>>
    <3>0. Answered(QueryFinds(call[c])) \in [status : {"none", "ok", "error"}, found : SUBSET EntityIds]
      BY <1>b, <2>0
    <3>1. TypeOK'
      BY <1>12, <1>a, <2>0, <2>2, <3>0 DEF Query, TypeInv, TypeOK, At, Goto, flags
    <3>2. PhaseInv'
      BY <1>12, <2>2 DEF Query, TypeInv, TypeOK, PhaseInv, At, Goto
    <3> QED
      BY <3>1, <3>2 DEF TypeInv
  <2> QED
    BY <1>12, <2>1, <2>2 DEF Query
<1>13. CASE PostHookPasses(c)
  BY <1>13, <1>a, <1>b, <1>c, FinishKeepsTypes DEF PostHookPasses, At
<1>14. CASE PostHookRefuses(c)
  BY <1>14, <1>a, <1>b, <1>c, FinishKeepsTypes DEF PostHookRefuses, At
<1>15. CASE OperationFails(c)
  <2>1. TypeOK'
    BY <1>15, <1>a, <1>b DEF OperationFails, TypeInv, TypeOK, At, Goto, flags
  <2>2. PhaseInv'
    BY <1>15 DEF OperationFails, TypeInv, TypeOK, PhaseInv, At, Goto
  <2> QED
    BY <2>1, <2>2 DEF TypeInv
<1>16. CASE ExecuteInsideTransaction(c)
  <2>1. TypeOK'
    BY <1>16, <1>a DEF ExecuteInsideTransaction, TypeInv, TypeOK, At
  <2>2. PhaseInv'
    BY <1>16 DEF ExecuteInsideTransaction, TypeInv, PhaseInv, At
  <2> QED
    BY <2>1, <2>2 DEF TypeInv
<1>17. CASE ExecutableReturns(c)
  <2>1. TypeOK'
    BY <1>17, <1>a DEF ExecutableReturns, TypeInv, TypeOK, At
  <2>2. PhaseInv'
    BY <1>17 DEF ExecutableReturns, TypeInv, PhaseInv, At
  <2> QED
    BY <2>1, <2>2 DEF TypeInv
<1>18. CASE ExecutableThrows(c)
  <2>1. TypeOK'
    BY <1>18, <1>a DEF ExecutableThrows, TypeInv, TypeOK, At
  <2>2. PhaseInv'
    BY <1>18 DEF ExecutableThrows, TypeInv, PhaseInv, At
  <2> QED
    BY <2>1, <2>2 DEF TypeInv
<1> QED
  BY <1>1, <1>2, <1>3, <1>4, <1>5, <1>6, <1>7, <1>8, <1>9, <1>10, <1>11, <1>12, <1>13, <1>14, <1>15,
     <1>16, <1>17, <1>18, <1>19
  DEF Step

(* TypeInv is an invariant.                                                *)
THEOREM TypeInvariant == Spec => []TypeInv
  BY TypeInvInit, TypeInvStep, PTL DEF Spec

(* Every variable keeps its type, and a local transaction is that of an    *)
(* operation under way, whatever fails and whichever callers overlap.      *)
THEOREM TypeCorrect == Spec => []TypeOK
<1>1. TypeInv => TypeOK
  BY DEF TypeInv
<1> QED
  BY <1>1, TypeInvariant, PTL

----------------------------------------------------------------------------
(* Operations that do what EntityStore says                                *)

(* A step of a caller leaves the context of every other one alone.         *)
LEMMA ContextOfOthers ==
  ASSUME TypeOK, NEW c \in Callers, Step(c), NEW d \in Callers \ {c}
  PROVE  /\ call'[d] = call[d] /\ phase'[d] = phase[d] /\ seen'[d] = seen[d]
         /\ todo'[d] = todo[d] /\ found'[d] = found[d] /\ answer'[d] = answer[d]
<1> DEFINE Other == /\ call'[d] = call[d] /\ phase'[d] = phase[d] /\ seen'[d] = seen[d]
                    /\ todo'[d] = todo[d] /\ found'[d] = found[d] /\ answer'[d] = answer[d]
<1>1. /\ call \in [Callers -> Ops \union {NoCall}] /\ seen \in [Callers -> Versions \union {0}]
      /\ phase \in [Callers -> {"idle", "start", "read", "hooks", "write", "many", "readback", "query", "posthook"}]
      /\ todo \in [Callers -> SUBSET EntityIds] /\ found \in [Callers -> SUBSET EntityIds]
      /\ answer \in [Callers -> [status : {"none", "ok", "error"}, found : SUBSET EntityIds]]
  BY DEF TypeOK
<1>2. ASSUME NEW result, Finish(c, result) PROVE Other
  BY <1>1, <1>2 DEF Finish, Goto
<1>3. ASSUME AfterChange(c) PROVE Other
  BY <1>1, <1>2, <1>3 DEF AfterChange, Goto
<1>4. ASSUME NEW op \in Ops, Ask(c, op) PROVE Other
  BY <1>1, <1>4 DEF Ask, Goto
<1>5. CASE Start(c) \/ PreHooksPass(c)
  BY <1>1, <1>5 DEF Start, PreHooksPass, Goto
<1>6. CASE ReadEntity(c)
  BY <1>1, <1>2, <1>6 DEF ReadEntity, Goto
<1>7. CASE InsertOne(c)
  BY <1>1, <1>7 DEF InsertOne, Goto
<1>8. CASE WriteMany(c)
  BY <1>1, <1>8 DEF WriteMany, Goto
<1>9. CASE WriteNext(c)
  BY <1>1, <1>9 DEF WriteNext
<1>10. CASE ReadBack(c)
  BY <1>1, <1>2, <1>10 DEF ReadBack, Goto
<1>11. CASE Query(c)
  BY <1>1, <1>2, <1>11 DEF Query, Goto
<1>12. CASE OperationFails(c)
  BY <1>1, <1>12 DEF OperationFails, Goto
<1>13. CASE WriteOne(c)
  BY <1>2, <1>3, <1>13 DEF WriteOne
<1>14. CASE ManyWritten(c)
  BY <1>3, <1>14 DEF ManyWritten
<1>15. CASE PreHookRefuses(c) \/ PostHookPasses(c) \/ PostHookRefuses(c)
  BY <1>2, <1>15 DEF PreHookRefuses, PostHookPasses, PostHookRefuses
<1>16. CASE ExecuteInsideTransaction(c) \/ ExecutableReturns(c) \/ ExecutableThrows(c)
  BY <1>16 DEF ExecuteInsideTransaction, ExecutableReturns, ExecutableThrows
<1>17. CASE AnswerBare(c)
  BY <1>2, <1>17 DEF AnswerBare
<1> QED
  BY <1>4, <1>5, <1>6, <1>7, <1>8, <1>9, <1>10, <1>11, <1>12, <1>13, <1>14, <1>15, <1>16, <1>17 DEF Step

(* Answers are given when the documents have been changed.                 *)
LEMMA AnswersInvStep ==
  ASSUME TypeInv, AnswersInv, NEW c \in Callers, Step(c)
  PROVE  AnswersInv'
<1>1. /\ TypeOK /\ AnswerFits(c)
      /\ call \in [Callers -> Ops \union {NoCall}]
      /\ phase \in [Callers -> {"idle", "start", "read", "hooks", "write", "many", "readback", "query", "posthook"}]
      /\ found \in [Callers -> SUBSET EntityIds]
      /\ answer \in [Callers -> [status : {"none", "ok", "error"}, found : SUBSET EntityIds]]
  BY DEF TypeInv, TypeOK, AnswersInv
<1>o. ASSUME NEW d \in Callers \ {c} PROVE AnswerFits(d)'
  <2>1. call'[d] = call[d] /\ phase'[d] = phase[d] /\ found'[d] = found[d] /\ answer'[d] = answer[d]
    BY <1>1, ContextOfOthers
  <2>2. AnswerFits(d)
    BY DEF AnswersInv
  <2> QED
    BY <2>1, <2>2 DEF AnswerFits, At
<1> SUFFICES AnswerFits(c)'
  BY <1>o DEF AnswersInv
<1>2. /\ At(c, "query") => call[c].kind \in Queries
      /\ At(c, "write") => call[c].kind \notin Queries
      /\ At(c, "many") => call[c].kind \notin Queries
      /\ At(c, "readback") => call[c].kind \notin Queries
  <2>1. ManyKinds \intersect Queries = {} /\ "create" \notin Queries
    BY DEF ManyKinds, Queries
  <2> QED
    BY <2>1 DEF TypeInv, PhaseInv
<1>3. ASSUME NEW result, Finish(c, result) PROVE AnswerFits(c)'
  BY <1>1, <1>3 DEF Finish, Goto, AnswerFits, At
<1>4. ASSUME AfterChange(c), found[c] = {}, call[c].kind \notin Queries PROVE AnswerFits(c)'
  <2>1. CASE Finish(c, Answered({}))
    BY <1>3, <2>1
  <2>2. CASE /\ phase' = [phase EXCEPT ![c] = "posthook"] /\ answer' = [answer EXCEPT ![c] = Answered({})]
             /\ UNCHANGED <<call, found>>
    BY <1>1, <1>4, <2>2 DEF AnswerFits, At
  <2> QED
    BY <1>4, <2>1, <2>2 DEF AfterChange, Goto
<1>5. ASSUME NEW op \in Ops, Ask(c, op) PROVE AnswerFits(c)'
  BY <1>1, <1>5 DEF Ask, Goto, AnswerFits, At
<1>6. CASE Start(c)
  BY <1>1, <1>6 DEF Start, Goto, AnswerFits, At
<1>7. CASE PreHooksPass(c)
  BY <1>1, <1>7 DEF PreHooksPass, Goto, AnswerFits, At
<1>8. CASE ReadEntity(c)
  <2>1. CASE Goto(c, IF call[c].hooked THEN "hooks" ELSE "write") /\ UNCHANGED <<call, found, answer>>
    BY <1>1, <1>8, <2>1 DEF ReadEntity, Goto, AnswerFits, At
  <2> QED
    BY <1>3, <1>8, <2>1 DEF ReadEntity
<1>9. CASE InsertOne(c)
  BY <1>1, <1>9 DEF InsertOne, Goto, AnswerFits, At
<1>10. CASE WriteMany(c)
  BY <1>1, <1>10 DEF WriteMany, Goto, AnswerFits, At
<1>11. CASE WriteNext(c)
  BY <1>1, <1>11 DEF WriteNext, AnswerFits, At
<1>12. CASE ReadBack(c)
  <2>1. CASE Goto(c, "posthook") /\ UNCHANGED <<call, found, answer>>
    BY <1>1, <1>2, <1>12, <2>1 DEF ReadBack, Goto, AnswerFits, At
  <2> QED
    BY <1>3, <1>12, <2>1 DEF ReadBack
<1>13. CASE Query(c)
  <2>1. CASE /\ Goto(c, "posthook") /\ found' = [found EXCEPT ![c] = QueryFinds(call[c])]
             /\ answer' = [answer EXCEPT ![c] = Answered(QueryFinds(call[c]))]
    BY <1>1, <2>1 DEF Goto, AnswerFits, At
  <2> QED
    BY <1>3, <1>13, <2>1 DEF Query
<1>14. CASE OperationFails(c)
  BY <1>1, <1>14 DEF OperationFails, Goto, AnswerFits, At
<1>15. CASE WriteOne(c)
  <2>1. found[c] = {} /\ call[c].kind \notin Queries
    BY <1>1, <1>2, <1>15 DEF WriteOne, AnswerFits, At
  <2> QED
    BY <1>3, <1>4, <1>15, <2>1 DEF WriteOne
<1>16. CASE ManyWritten(c)
  <2>1. found[c] = {} /\ call[c].kind \notin Queries
    BY <1>1, <1>2, <1>16 DEF ManyWritten, AnswerFits, At
  <2> QED
    BY <1>4, <1>16, <2>1 DEF ManyWritten
<1>17. CASE PreHookRefuses(c) \/ PostHookPasses(c) \/ PostHookRefuses(c)
  BY <1>3, <1>17 DEF PreHookRefuses, PostHookPasses, PostHookRefuses
<1>18. CASE ExecuteInsideTransaction(c) \/ ExecutableReturns(c) \/ ExecutableThrows(c)
  BY <1>1, <1>18 DEF ExecuteInsideTransaction, ExecutableReturns, ExecutableThrows, AnswerFits, At
<1>19. CASE AnswerBare(c)
  BY <1>3, <1>19 DEF AnswerBare
<1> QED
  BY <1>5, <1>6, <1>7, <1>8, <1>9, <1>10, <1>11, <1>12, <1>13, <1>14, <1>15, <1>16, <1>17, <1>18, <1>19 DEF Step

(* What a step does to the documents.                                      *)
LEMMA WaysToChange ==
  ASSUME TypeInv, NEW c \in Callers, Step(c)
  PROVE  \/ docs' = docs /\ used \subseteq used'
         \/ InsertOne(c)
         \/ /\ At(c, "write") /\ call[c].kind \notin ManyKinds \union {"create"}
            /\ Permitted(c) /\ used' = used
            /\ \E i \in Targets(call[c]) : docs' = [docs EXCEPT ![i] = Changed(call[c], docs[i], seen[c])]
         \/ /\ WriteNext(c) /\ used' = used
            /\ \E i \in todo[c] \intersect Where(call[c]) :
                 docs' = [docs EXCEPT ![i] = Changed(call[c], docs[i], 0)]
<1>1. CASE WriteOne(c)
  BY <1>1 DEF WriteOne
<1>2. CASE WriteNext(c)
  BY <1>2 DEF WriteNext
<1>3. CASE docs' = docs /\ used \subseteq used'
  BY <1>3
<1> QED
  BY <1>1, <1>2, <1>3 DEF Step, Ask, Start, ReadEntity, PreHooksPass, PreHookRefuses, WriteMany,
    ManyWritten, ReadBack, Query, PostHookPasses, PostHookRefuses, OperationFails,
    ExecuteInsideTransaction, ExecutableReturns, ExecutableThrows, AnswerBare

(* An operation that goes on as EntityStore says is about no document that *)
(* a change of many has still to reach.                                    *)
LEMMA Reached ==
  ASSUME TypeInv, NEW c \in Callers, phase[c] \in {"start", "read", "write", "query"},
         call[c].kind # "create", ~Departs(c),
         NEW i \in EntityIds, call[c].id \in {0, i}, NEW d \in Callers
  PROVE  i \notin todo[d]
<1>1. CASE d = c
  BY <1>1 DEF TypeInv, TypeOK, At
<1>2. CASE d # c
  BY <1>2 DEF Departs, MeetsHalfDone
<1> QED
  BY <1>1, <1>2

(* An operation that writes one document has its version.                  *)
LEMMA WriterKnowsVersion ==
  ASSUME TypeInv, DocsInv, NEW c \in Callers, At(c, "write"), ~Departs(c),
         call[c].kind \notin ManyKinds \union {"create"}, NEW i \in Targets(call[c])
  PROVE  /\ i \in EntityIds /\ i \in Where(call[c]) /\ call[c].id \in {0, i}
         /\ IsDocument(docs[i]) /\ docs[i].version # NaN /\ docs[i].version # 0
         /\ seen[c] \in Versions \union {0}
         /\ call[c].kind = "update" => /\ seen[c] = docs[i].version
                                       /\ call[c].expect \in {0, docs[i].version}
         /\ call[c] \in Ops /\ call[c].kind \notin Queries \union {"create"}
         /\ call[c].kind \in Deleters => Changed(call[c], docs[i], seen[c]) = Absent
         /\ call[c].kind \notin Deleters => IsDocument(Changed(call[c], docs[i], seen[c]))
         /\ Changed(call[c], docs[i], seen[c]).version # NaN
<1>1. i \in Where(call[c])
  BY FoundAreIds
<1>2. i \in EntityIds /\ IsDocument(docs[i]) /\ call[c].id \in {0, i}
  BY <1>1, FoundAreDocuments DEF TypeInv, TypeOK, Where
<1>3. docs[i].version # NaN /\ docs[i].version # 0 /\ docs[i].version \in Versions
  BY <1>2 DEF DocsInv, IsDocument, Versions, NaN
<1>4. seen[c] \in Versions \union {0}
  BY DEF TypeInv, TypeOK
<1>5. call[c].kind = "update" => seen[c] = docs[i].version /\ call[c].expect \in {0, docs[i].version}
  BY <1>1 DEF Departs, LosesVersion
<1>6. call[c] \in Ops /\ call[c].kind \notin Queries \union {"create"}
  <2>1. call[c] \in Ops
    BY DEF TypeInv, TypeOK, At
  <2> QED
    BY <2>1 DEF TypeInv, PhaseInv
<1>7. /\ call[c].kind \in Deleters => Changed(call[c], docs[i], seen[c]) = Absent
      /\ call[c].kind \notin Deleters => IsDocument(Changed(call[c], docs[i], seen[c]))
      /\ call[c].kind # "update" /\ docs[i].version # NaN => Changed(call[c], docs[i], seen[c]).version # NaN
      /\ call[c].kind = "update" /\ seen[c] \notin {0, NaN} => Changed(call[c], docs[i], seen[c]).version # NaN
  BY <1>2, <1>4, <1>6, ChangedDocument
<1> QED
  BY <1>1, <1>2, <1>3, <1>4, <1>5, <1>6, <1>7

(* And one that writes many documents.                                     *)
LEMMA ManyChanged ==
  ASSUME TypeInv, DocsInv, NEW op \in Ops, op.kind \in ManyKinds, NEW i \in Where(op)
  PROVE  /\ i \in EntityIds /\ IsDocument(docs[i]) /\ docs[i].version # NaN
         /\ op.kind \in Deleters => Changed(op, docs[i], 0) = Absent
         /\ op.kind \notin Deleters => IsDocument(Changed(op, docs[i], 0))
         /\ Changed(op, docs[i], 0).version # NaN
<1>1. i \in EntityIds /\ IsDocument(docs[i])
  BY FoundAreDocuments DEF TypeInv, TypeOK
<1>2. docs[i].version # NaN
  BY <1>1 DEF DocsInv
<1>4. op.kind \notin Queries \union {"create"} /\ op.kind # "update"
  BY DEF ManyKinds, Queries
<1>5. /\ op.kind \in Deleters => Changed(op, docs[i], 0) = Absent
      /\ op.kind \notin Deleters => IsDocument(Changed(op, docs[i], 0))
      /\ op.kind # "update" /\ docs[i].version # NaN => Changed(op, docs[i], 0).version # NaN
  BY <1>1, <1>4, ChangedDocument
<1> QED
  BY <1>1, <1>2, <1>4, <1>5

(* What insertOne is told to store.                                        *)
NewDocument(op) ==
  [owner |-> op.owner, version |-> 1, value |-> op.value, subs |-> Appended({}, op.values),
   tags |-> op.tags, links |-> op.links]

(* insertOne stores it under an _id that nobody knows.                     *)
LEMMA Inserted ==
  ASSUME TypeInv, DocsInv, NEW c \in Callers, InsertOne(c)
  PROVE  \E i \in EntityIds : \E doc :
           /\ doc = NewDocument(call[c]) /\ IsDocument(doc) /\ doc.version # NaN
           /\ i \notin used /\ docs[i] = Absent
           /\ used' = used \union {i}
           /\ docs' = [docs EXCEPT ![i] = doc]
           /\ found'[c] = {i} /\ answer' = [answer EXCEPT ![c] = Answered({i})]
<1>1. PICK i \in EntityIds :
        /\ i \notin used /\ used' = used \union {i}
        /\ docs' = [docs EXCEPT ![i] = NewDocument(call[c])]
        /\ found' = [found EXCEPT ![c] = {i}]
        /\ answer' = [answer EXCEPT ![c] = Answered({i})]
  BY DEF InsertOne, NewDocument
<1>2. IsDocument(NewDocument(call[c])) /\ NewDocument(call[c]).version # NaN
  BY DEF IsDocument, Versions, NaN, NewDocument
<1>3. docs[i] = Absent
  BY <1>1 DEF DocsInv
<1>4. found'[c] = {i}
  BY <1>1 DEF TypeInv, TypeOK
<1> QED
  BY <1>1, <1>2, <1>3, <1>4

(* No _id comes twice, and no version gets lost.                           *)
LEMMA DocsInvStep ==
  ASSUME TypeInv, DocsInv, TodoInv, ~Deviations, NEW c \in Callers, Step(c)
  PROVE  DocsInv'
<1>1. TypeOK /\ IsCollection(docs)
  BY DEF TypeInv, TypeOK
<1>2. used \subseteq used'
  <2>1. ASSUME InsertOne(c) PROVE used \subseteq used'
    BY <2>1 DEF InsertOne
  <2> QED
    BY <2>1, WaysToChange
<1>4. ASSUME NEW i \in EntityIds, NEW doc, doc = Absent \/ IsDocument(doc), doc.version # NaN,
             docs' = [docs EXCEPT ![i] = doc], i \in used'
      PROVE  DocsInv'
  <2>1. docs'[i] = doc /\ \A j \in EntityIds \ {i} : docs'[j] = docs[j]
    BY <1>1, <1>4, CollectionChanged
  <2> QED
    BY <1>2, <1>4, <2>1 DEF DocsInv
<1>5. CASE docs' = docs
  BY <1>2, <1>5 DEF DocsInv
<1>6. CASE InsertOne(c)
  BY <1>4, <1>6, Inserted
<1>7. ASSUME At(c, "write"), Permitted(c), call[c].kind \notin ManyKinds \union {"create"}, NEW i \in Targets(call[c]),
             docs' = [docs EXCEPT ![i] = Changed(call[c], docs[i], seen[c])]
      PROVE  DocsInv'
  <2>1. /\ i \in EntityIds /\ IsDocument(docs[i])
        /\ \/ Changed(call[c], docs[i], seen[c]) = Absent
           \/ IsDocument(Changed(call[c], docs[i], seen[c]))
        /\ Changed(call[c], docs[i], seen[c]).version # NaN
    BY <1>7, WriterKnowsVersion DEF Permitted
  <2>2. i \in used'
    BY <1>2, <2>1, DocumentFacts DEF DocsInv
  <2> QED
    BY <1>4, <1>7, <2>1, <2>2
<1>8. ASSUME WriteNext(c), NEW i \in Where(call[c]),
             docs' = [docs EXCEPT ![i] = Changed(call[c], docs[i], 0)]
      PROVE  DocsInv'
  <2>0. call[c] \in Ops /\ call[c].kind \in ManyKinds
    BY <1>8 DEF WriteNext, TypeInv, TypeOK, PhaseInv, At
  <2>1. /\ i \in EntityIds /\ IsDocument(docs[i])
        /\ \/ Changed(call[c], docs[i], 0) = Absent
           \/ IsDocument(Changed(call[c], docs[i], 0))
        /\ Changed(call[c], docs[i], 0).version # NaN
    BY <2>0, ManyChanged
  <2>2. i \in used'
    BY <1>2, <2>1, DocumentFacts DEF DocsInv
  <2> QED
    BY <1>4, <1>8, <2>1, <2>2
<1> QED
  BY <1>5, <1>6, <1>7, <1>8, WaysToChange

(* Documents that a caller has still to reach, after its step.             *)
LEMMA OwnTodo ==
  ASSUME TypeInv, NEW c \in Callers, Step(c)
  PROVE  \/ todo'[c] = {}
         \/ WriteMany(c) /\ todo'[c] = Targets(call[c])
         \/ WriteNext(c) /\ \E i \in todo[c] : todo'[c] = todo[c] \ {i}
<1>1. todo \in [Callers -> SUBSET EntityIds] /\ (~At(c, "many") => todo[c] = {})
  BY DEF TypeInv, TypeOK
<1>2. ASSUME todo' = todo, todo[c] = {} PROVE todo'[c] = {}
  BY <1>2
<1>3. ASSUME NEW result, Finish(c, result) PROVE todo' = todo
  BY <1>3 DEF Finish
<1>4. ASSUME AfterChange(c) PROVE todo' = todo
  BY <1>3, <1>4 DEF AfterChange
<1>5. CASE WriteMany(c)
  BY <1>1, <1>5 DEF WriteMany
<1>6. CASE WriteNext(c)
  BY <1>1, <1>6 DEF WriteNext
<1>7. CASE OperationFails(c)
  BY <1>1, <1>7 DEF OperationFails
<1>8. CASE WriteOne(c) \/ ManyWritten(c)
  BY <1>1, <1>3, <1>4, <1>8 DEF WriteOne, ManyWritten, At
<1>9. CASE \/ AnswerBare(c) \/ ReadEntity(c) \/ PreHookRefuses(c) \/ ReadBack(c) \/ Query(c)
           \/ PostHookPasses(c) \/ PostHookRefuses(c)
  BY <1>1, <1>3, <1>9 DEF AnswerBare, ReadEntity, PreHookRefuses, ReadBack, Query, PostHookPasses,
    PostHookRefuses, At
<1>10. CASE \/ \E op \in Ops : Ask(c, op)
            \/ Start(c) \/ PreHooksPass(c) \/ InsertOne(c)
            \/ ExecuteInsideTransaction(c) \/ ExecutableReturns(c) \/ ExecutableThrows(c)
  BY <1>1, <1>10 DEF Ask, Start, PreHooksPass, InsertOne, ExecuteInsideTransaction, ExecutableReturns,
    ExecutableThrows, At
<1> QED
  BY <1>5, <1>6, <1>7, <1>8, <1>9, <1>10 DEF Step

(* A step leaves the documents alone that another caller has to reach.     *)
LEMMA TodoKept ==
  ASSUME TypeInv, DocsInv, TodoInv, ~Deviations, NEW c \in Callers, Step(c),
         NEW d \in Callers \ {c}, NEW i \in todo[d]
  PROVE  docs'[i] = docs[i] /\ i \notin todo'[c]
<1>0. i \in EntityIds /\ docs[i] # Absent /\ i \in used /\ i \notin todo[c] /\ IsCollection(docs)
  BY DEF TypeInv, TypeOK, TodoInv, DocsInv, Where
<1>1. ASSUME NEW j, NEW doc, docs' = [docs EXCEPT ![j] = doc], j # i PROVE docs'[i] = docs[i]
  BY <1>0, <1>1 DEF IsCollection
<1>2. ASSUME Permitted(c), At(c, "write"), call[c].kind # "create", NEW j \in Targets(call[c]) PROVE j # i
  <2>1. j \in EntityIds /\ call[c].id \in {0, j}
    BY FoundAreIds DEF Where
  <2>2. j \notin todo[d]
    BY <1>2, <2>1, Reached DEF Permitted, At
  <2> QED
    BY <2>2
<1>3. docs'[i] = docs[i]
  <2>1. CASE InsertOne(c)
    BY <1>0, <1>1, <2>1, Inserted
  <2>2. CASE /\ At(c, "write") /\ call[c].kind \notin ManyKinds \union {"create"} /\ Permitted(c)
             /\ \E j \in Targets(call[c]) : docs' = [docs EXCEPT ![j] = Changed(call[c], docs[j], seen[c])]
    BY <1>1, <1>2, <2>2
  <2>3. CASE \E j \in todo[c] : docs' = [docs EXCEPT ![j] = Changed(call[c], docs[j], 0)]
    BY <1>0, <1>1, <2>3
  <2> QED
    BY <2>1, <2>2, <2>3, WaysToChange
<1>4. i \notin todo'[c]
  <2>1. CASE WriteMany(c) /\ todo'[c] = Targets(call[c])
    <3>1. call[c].kind # "create"
      BY <2>1 DEF WriteMany, ManyKinds
    <3> QED
      BY <1>2, <2>1, <3>1 DEF WriteMany
  <2> QED
    BY <1>0, <2>1, OwnTodo
<1> QED
  BY <1>3, <1>4

(* Changes of many documents stay out of each other's way.                 *)
LEMMA TodoInvStep ==
  ASSUME TypeInv, DocsInv, TodoInv, ~Deviations, NEW c \in Callers, Step(c)
  PROVE  TodoInv'
<1>0. TypeOK
  BY DEF TypeInv
<1>1. \A d \in Callers \ {c} : call'[d] = call[d] /\ todo'[d] = todo[d]
  BY <1>0, ContextOfOthers
<1>2. ASSUME NEW op, NEW i \in Where(op), docs'[i] = docs[i] PROVE i \in Where(op)'
  BY <1>2 DEF Where
<1>3. ASSUME NEW d \in Callers \ {c}, NEW i \in todo'[d]
      PROVE  i \in Where(call[d])' /\ \A e \in Callers \ {d} : i \notin todo'[e]
  <2>1. i \in todo[d] /\ docs'[i] = docs[i] /\ i \notin todo'[c]
    BY <1>1, <1>3, TodoKept
  <2>2. PICK op : op = call[d] /\ op = call'[d]
    BY <1>1
  <2>3. i \in Where(op)'
    BY <1>2, <2>1, <2>2 DEF TodoInv
  <2>4. \A e \in Callers \ {d} : i \notin todo'[e]
    BY <1>1, <2>1 DEF TodoInv
  <2> QED
    BY <2>2, <2>3, <2>4
<1>4. ASSUME NEW i \in todo'[c]
      PROVE  i \in Where(call[c])' /\ \A e \in Callers \ {c} : i \notin todo'[e]
  <2>0. PICK op : op = call[c]
    OBVIOUS
  <2>1. CASE WriteMany(c) /\ todo'[c] = Targets(call[c])
    <3>1. i \in Where(op) /\ docs' = docs /\ call' = call
      BY <1>4, <2>0, <2>1, FoundAreIds DEF WriteMany
    <3> QED
      BY <1>1, <1>2, <1>4, <2>0, <3>1, TodoKept
  <2>2. CASE WriteNext(c) /\ \E j \in todo[c] : todo'[c] = todo[c] \ {j}
    <3>1. i \in Where(op) /\ call' = call /\ i \in todo[c]
      BY <1>4, <2>0, <2>2 DEF WriteNext, TodoInv
    <3>2. docs'[i] = docs[i]
      <4>1. PICK j \in todo[c] :
              /\ docs' = IF j \in Where(call[c]) THEN [docs EXCEPT ![j] = Changed(call[c], docs[j], 0)] ELSE docs
              /\ todo' = [todo EXCEPT ![c] = @ \ {j}]
        BY <2>2 DEF WriteNext
      <4>2. i # j /\ i \in EntityIds
        BY <1>4, <3>1, <4>1 DEF TypeInv, TypeOK
      <4> QED
        BY <4>1, <4>2 DEF TypeInv, TypeOK, IsCollection
    <3>3. i \in Where(op)'
      BY <1>2, <3>1, <3>2
    <3> QED
      BY <1>1, <2>0, <3>1, <3>3 DEF TodoInv
  <2> QED
    BY <1>4, <2>1, <2>2, OwnTodo
<1>5. ASSUME NEW d \in Callers, NEW i \in todo'[d]
      PROVE  i \in Where(call[d])' /\ \A e \in Callers \ {d} : i \notin todo'[e]
  <2>1. CASE d = c
    BY <1>4, <1>5, <2>1
  <2>2. CASE d # c
    BY <1>3, <1>5, <2>2
  <2> QED
    BY <2>1, <2>2
<1> QED
  BY <1>5 DEF TodoInv

(* The initial state.                                                      *)
LEMMA StoreInvInit == Init => StoreInv
<1> SUFFICES ASSUME Init PROVE StoreInv
  OBVIOUS
<1>1. TypeInv
  BY TypeInvInit
<1>2. DocsInv
  BY ConstantsAssumption DEF Init, DocsInv
<1>3. TodoInv
  BY DEF Init, TodoInv
<1>4. AnswersInv
  BY DEF Init, AnswersInv, AnswerFits, At
<1> QED
  BY <1>1, <1>2, <1>3, <1>4 DEF StoreInv

(* Every step keeps StoreInv.                                              *)
LEMMA StoreInvStep ==
  ASSUME StoreInv, ~Deviations, [Next]_vars
  PROVE  StoreInv'
<1>1. CASE UNCHANGED vars
  <2>1. TypeInv'
    BY TypeInvStep DEF StoreInv
  <2>2. DocsInv' /\ AnswersInv'
    BY <1>1 DEF vars, StoreInv, DocsInv, AnswersInv, AnswerFits, At
  <2>3. TodoInv'
    <3>1. ASSUME NEW c \in Callers, NEW i \in todo'[c]
          PROVE  i \in Where(call[c])' /\ \A d \in Callers \ {c} : i \notin todo'[d]
      BY <1>1, <3>1 DEF vars, StoreInv, TodoInv, Where
    <3> QED
      BY <3>1 DEF TodoInv
  <2> QED
    BY <2>1, <2>2, <2>3 DEF StoreInv
<1>2. ASSUME NEW c \in Callers, Step(c) PROVE StoreInv'
  <2>1. TypeInv /\ DocsInv /\ TodoInv /\ AnswersInv
    BY DEF StoreInv
  <2>2. TypeInv'
    BY TypeInvStep DEF StoreInv
  <2>3. DocsInv' /\ TodoInv' /\ AnswersInv'
    BY <1>2, <2>1, DocsInvStep, TodoInvStep, AnswersInvStep
  <2> QED
    BY <2>2, <2>3 DEF StoreInv
<1> QED
  BY <1>1, <1>2 DEF Next

(* Where operations stop before they depart from EntityStore, StoreInv is  *)
(* an invariant: changes of many documents stay out of each other's way.   *)
LEMMA StoreInvariant ==
  ASSUME ~Deviations
  PROVE  Spec => []StoreInv
  BY StoreInvInit, StoreInvStep, PTL DEF Spec

----------------------------------------------------------------------------
(* The documents as callers know them                                      *)

StoredAs(stored, rest, calls) ==
  [i \in EntityIds |->
    Entity(IF \E c \in Callers : i \in rest[c]
           THEN Changed(calls[CHOOSE c \in Callers : i \in rest[c]], stored[i], 0)
           ELSE stored[i])]

(* One of them, at most one caller being on its way to it.                 *)
LEMMA StoredAt ==
  ASSUME NEW stored, NEW rest, NEW calls, NEW i \in EntityIds
  PROVE  /\ (\A c \in Callers : i \notin rest[c]) => StoredAs(stored, rest, calls)[i] = Entity(stored[i])
         /\ \A c \in Callers : i \in rest[c] /\ (\A d \in Callers \ {c} : i \notin rest[d]) =>
              StoredAs(stored, rest, calls)[i] = Entity(Changed(calls[c], stored[i], 0))
<1>1. ASSUME \A c \in Callers : i \notin rest[c]
      PROVE  StoredAs(stored, rest, calls)[i] = Entity(stored[i])
  BY <1>1 DEF StoredAs
<1>2. ASSUME NEW c \in Callers, i \in rest[c], \A d \in Callers \ {c} : i \notin rest[d]
      PROVE  StoredAs(stored, rest, calls)[i] = Entity(Changed(calls[c], stored[i], 0))
  <2>1. (CHOOSE d \in Callers : i \in rest[d]) = c
    BY <1>2
  <2> QED
    BY <1>2, <2>1 DEF StoredAs
<1> QED
  BY <1>1, <1>2

(* One of them before a step and after it.                                 *)
LEMMA StoredNow ==
  ASSUME TodoInv, TodoInv', NEW i \in EntityIds
  PROVE  /\ (\A c \in Callers : i \notin todo[c]) => Stored[i] = Entity(docs[i])
         /\ \A c \in Callers : i \in todo[c] => Stored[i] = Entity(Changed(call[c], docs[i], 0))
         /\ (\A c \in Callers : i \notin todo'[c]) => Stored'[i] = Entity(docs'[i])
         /\ \A c \in Callers : i \in todo'[c] => Stored'[i] = Entity(Changed(call'[c], docs'[i], 0))
         /\ Stored = [j \in EntityIds |-> Stored[j]] /\ Stored' = [j \in EntityIds |-> Stored'[j]]
<1>1. PICK stored, rest, calls, stored2, rest2, calls2 :
        /\ stored = docs /\ rest = todo /\ calls = call
        /\ stored2 = docs' /\ rest2 = todo' /\ calls2 = call'
  OBVIOUS
<1>2. Stored = StoredAs(stored, rest, calls) /\ Stored' = StoredAs(stored2, rest2, calls2)
  BY <1>1 DEF Stored, StoredAs, Changed
<1>3. /\ \A c \in Callers : i \in todo[c] => \A d \in Callers \ {c} : i \notin todo[d]
      /\ \A c \in Callers : i \in todo'[c] => \A d \in Callers \ {c} : i \notin todo'[d]
  BY DEF TodoInv
<1>4. /\ (\A c \in Callers : i \notin rest[c]) => StoredAs(stored, rest, calls)[i] = Entity(stored[i])
      /\ \A c \in Callers : i \in rest[c] /\ (\A d \in Callers \ {c} : i \notin rest[d]) =>
           StoredAs(stored, rest, calls)[i] = Entity(Changed(calls[c], stored[i], 0))
      /\ (\A c \in Callers : i \notin rest2[c]) => StoredAs(stored2, rest2, calls2)[i] = Entity(stored2[i])
      /\ \A c \in Callers : i \in rest2[c] /\ (\A d \in Callers \ {c} : i \notin rest2[d]) =>
           StoredAs(stored2, rest2, calls2)[i] = Entity(Changed(calls2[c], stored2[i], 0))
  BY StoredAt
<1>5. Stored = [j \in EntityIds |-> Stored[j]] /\ Stored' = [j \in EntityIds |-> Stored'[j]]
  BY DEF Stored
<1> QED
  BY <1>1, <1>2, <1>3, <1>4, <1>5

(* A step of one caller leaves what another one has to reach.              *)
LEMMA StoredOfOthers ==
  ASSUME StoreInv, StoreInv', ~Deviations, NEW c \in Callers, Step(c),
         NEW d \in Callers \ {c}, NEW i \in todo[d]
  PROVE  Stored'[i] = Stored[i]
<1>1. TypeInv /\ TypeOK /\ DocsInv /\ TodoInv /\ TodoInv'
  BY DEF StoreInv, TypeInv
<1>2. i \in EntityIds /\ call'[d] = call[d] /\ todo'[d] = todo[d]
  BY <1>1, ContextOfOthers DEF TypeOK
<1>3. docs'[i] = docs[i]
  BY <1>1, TodoKept
<1>4. Stored[i] = Entity(Changed(call[d], docs[i], 0)) /\ Stored'[i] = Entity(Changed(call'[d], docs'[i], 0))
  BY <1>1, <1>2, StoredNow
<1> QED
  BY <1>2, <1>3, <1>4

(* The documents stay what they are for the callers.                       *)
LEMMA StoredStays ==
  ASSUME StoreInv, StoreInv', ~Deviations, NEW c \in Callers, Step(c),
         docs' = docs, todo' = todo, todo[c] = {}
  PROVE  Stored' = Stored
<1>1. TodoInv /\ TodoInv'
  BY DEF StoreInv
<1>2. ASSUME NEW i \in EntityIds PROVE Stored'[i] = Stored[i]
  <2>1. CASE \A d \in Callers : i \notin todo[d]
    BY <1>1, <2>1, StoredNow
  <2>2. CASE \E d \in Callers \ {c} : i \in todo[d]
    BY <2>2, StoredOfOthers
  <2> QED
    BY <2>1, <2>2
<1>3. Stored = [j \in EntityIds |-> Stored[j]] /\ Stored' = [j \in EntityIds |-> Stored'[j]]
  BY DEF Stored
<1> QED
  BY <1>2, <1>3

(* A document that nobody is on the way to changes.                        *)
LEMMA StoredChanged ==
  ASSUME StoreInv, StoreInv', ~Deviations, NEW c \in Callers, Step(c), todo' = todo, todo[c] = {},
         NEW i \in EntityIds, \A d \in Callers : i \notin todo[d], NEW doc, docs' = [docs EXCEPT ![i] = doc]
  PROVE  Stored[i] = Entity(docs[i]) /\ Stored' = [Stored EXCEPT ![i] = Entity(doc)]
<1>1. TodoInv /\ TodoInv' /\ IsCollection(docs)
  BY DEF StoreInv, TypeInv, TypeOK
<1>2. docs'[i] = doc /\ \A j \in EntityIds \ {i} : docs'[j] = docs[j]
  BY <1>1 DEF IsCollection
<1>3. Stored[i] = Entity(docs[i]) /\ Stored'[i] = Entity(doc)
  BY <1>1, <1>2, StoredNow
<1>4. ASSUME NEW j \in EntityIds \ {i} PROVE Stored'[j] = Stored[j]
  <2>1. CASE \A d \in Callers : j \notin todo[d]
    BY <1>1, <1>2, <2>1, StoredNow
  <2>2. CASE \E d \in Callers \ {c} : j \in todo[d]
    BY <2>2, StoredOfOthers
  <2> QED
    BY <2>1, <2>2
<1>5. Stored = [j \in EntityIds |-> Stored[j]] /\ Stored' = [j \in EntityIds |-> Stored'[j]]
  BY DEF Stored
<1> QED
  BY <1>3, <1>4, <1>5

(* A change of many documents counts as done when it begins,               *)
LEMMA ManyBegun ==
  ASSUME StoreInv, StoreInv', ~Deviations, NEW c \in Callers, Step(c), WriteMany(c),
         NEW op, op = call[c], Targets(op) = Where(op)
  PROVE  /\ \A i \in Where(op) : Stored[i] = Entity(docs[i])
         /\ Stored' = [i \in EntityIds |-> IF i \in Where(op) THEN Entity(Changed(op, docs[i], 0)) ELSE Stored[i]]
<1>1. TodoInv /\ TodoInv' /\ TypeInv /\ TypeOK
  BY DEF StoreInv, TypeInv
<1>2. docs' = docs /\ call' = call /\ todo'[c] = Where(op) /\ todo[c] = {} /\ ~Departs(c)
  BY <1>1 DEF WriteMany, TypeOK, At, Permitted
<1>3. \A i \in Where(op) : i \in EntityIds /\ \A d \in Callers : i \notin todo[d]
  <2>1. op.kind # "create" /\ At(c, "write")
    BY DEF WriteMany, ManyKinds
  <2> QED
    BY <1>1, <1>2, <2>1, Reached DEF Where, At
<1>4. \A i \in Where(op) : Stored[i] = Entity(docs[i]) /\ Stored'[i] = Entity(Changed(op, docs[i], 0))
  BY <1>1, <1>2, <1>3, StoredNow
<1>5. ASSUME NEW j \in EntityIds, j \notin Where(op) PROVE Stored'[j] = Stored[j]
  <2>1. CASE \E d \in Callers \ {c} : j \in todo[d]
    BY <2>1, StoredOfOthers
  <2>2. CASE \A d \in Callers : j \notin todo[d]
    <3>1. \A d \in Callers : j \notin todo'[d]
      BY <1>1, <1>2, <1>5, <2>2, ContextOfOthers
    <3> QED
      BY <1>1, <1>2, <2>2, <3>1, StoredNow
  <2> QED
    BY <1>2, <2>1, <2>2
<1>6. Stored' = [j \in EntityIds |-> Stored'[j]]
  BY DEF Stored
<1> QED
  BY <1>4, <1>5, <1>6

(* and the rest of it changes nothing for the callers.                     *)
LEMMA ManyGoesOn ==
  ASSUME StoreInv, StoreInv', ~Deviations, NEW c \in Callers, Step(c), WriteNext(c)
  PROVE  Stored' = Stored
<1>1. TodoInv /\ TodoInv' /\ TypeInv /\ TypeOK /\ IsCollection(docs)
  BY DEF StoreInv, TypeInv, TypeOK
<1>2. PICK i \in todo[c] :
        /\ docs' = IF i \in Where(call[c]) THEN [docs EXCEPT ![i] = Changed(call[c], docs[i], 0)] ELSE docs
        /\ todo' = [todo EXCEPT ![c] = @ \ {i}]
        /\ call' = call
  BY DEF WriteNext
<1>3. i \in EntityIds /\ i \in Where(call[c]) /\ \A d \in Callers \ {c} : i \notin todo[d]
  BY <1>1, <1>2 DEF TodoInv, TypeOK
<1>4. /\ docs'[i] = Changed(call[c], docs[i], 0) /\ \A j \in EntityIds \ {i} : docs'[j] = docs[j]
      /\ todo'[c] = todo[c] \ {i} /\ \A d \in Callers \ {c} : todo'[d] = todo[d]
  BY <1>1, <1>2, <1>3 DEF IsCollection, TypeOK
<1>5. Stored'[i] = Stored[i]
  BY <1>1, <1>2, <1>3, <1>4, StoredNow
<1>6. ASSUME NEW j \in EntityIds \ {i} PROVE Stored'[j] = Stored[j]
  <2>1. CASE \E d \in Callers \ {c} : j \in todo[d]
    BY <2>1, StoredOfOthers
  <2>2. CASE j \in todo[c]
    BY <1>1, <1>2, <1>4, <2>2, StoredNow
  <2>3. CASE \A d \in Callers : j \notin todo[d]
    <3>1. \A d \in Callers : j \notin todo'[d]
      BY <1>4, <2>3
    <3> QED
      BY <1>1, <1>4, <2>3, <3>1, StoredNow
  <2> QED
    BY <2>1, <2>2, <2>3
<1>7. Stored = [j \in EntityIds |-> Stored[j]] /\ Stored' = [j \in EntityIds |-> Stored'[j]]
  BY DEF Stored
<1> QED
  BY <1>5, <1>6, <1>7

----------------------------------------------------------------------------
(* Entities                                                                *)

(* A document as callers know it.                                          *)
LEMMA EntityFields ==
  /\ Entity(Absent) = Absent
  /\ \A doc : IsDocument(doc) =>
       /\ IsDocument(Entity(doc)) /\ Entity(doc) # Absent
       /\ Entity(doc).owner = doc.owner /\ Entity(doc).version = doc.version
       /\ Entity(doc).value = doc.value /\ Entity(doc).subs = Listed(doc.subs)
       /\ Entity(doc).tags = doc.tags /\ Entity(doc).links = doc.links
<1>1. ASSUME NEW doc, IsDocument(doc)
      PROVE  /\ IsDocument(Entity(doc)) /\ Entity(doc) # Absent
             /\ Entity(doc).owner = doc.owner /\ Entity(doc).version = doc.version
             /\ Entity(doc).value = doc.value /\ Entity(doc).subs = Listed(doc.subs)
             /\ Entity(doc).tags = doc.tags /\ Entity(doc).links = doc.links
  <2>1. doc # Absent
    BY <1>1, DocumentFacts
  <2> DEFINE new == [doc EXCEPT !.subs = Listed(@)]
  <2>2. /\ new = [field \in Fields |-> new[field]]
        /\ new.owner = doc.owner /\ new.version = doc.version
        /\ new.value = doc.value /\ new.subs = Listed(doc.subs)
        /\ new.tags = doc.tags /\ new.links = doc.links
    BY <1>1 DEF IsDocument, Fields
  <2>3. Entity(doc) = new
    BY <2>1 DEF Entity
  <2> HIDE DEF new
  <2>4. IsDocument(new)
    BY <1>1, <2>2 DEF IsDocument, Fields
  <2> QED
    BY <2>2, <2>3, <2>4, DocumentFacts
<1> QED
  BY <1>1 DEF Entity

(* A $pull takes the sub-entity out, wherever the others are.              *)
LEMMA ListedPulled ==
  ASSUME NEW subs, NEW id
  PROVE  Listed(Pulled(subs, id)) = {l \in Listed(subs) : l[1] # id}
<1> DEFINE Place(s) == s[1] - Cardinality({t \in subs : t[1] < s[1] /\ t[2] = id})
<1>1. Pulled(subs, id) = {<<Place(s), s[2], s[3]>> : s \in {t \in subs : t[2] # id}}
  BY DEF Pulled
<1> HIDE DEF Place
<1>2. ASSUME NEW l \in Listed(Pulled(subs, id)) PROVE l \in {m \in Listed(subs) : m[1] # id}
  <2>1. PICK p \in Pulled(subs, id) : l = <<p[2], p[3]>>
    BY <1>2 DEF Listed
  <2>2. PICK s \in subs : s[2] # id /\ p = <<Place(s), s[2], s[3]>>
    BY <1>1, <2>1
  <2>3. l = <<s[2], s[3]>> /\ l[1] # id
    BY <2>1, <2>2
  <2> QED
    BY <2>2, <2>3 DEF Listed
<1>3. ASSUME NEW l \in Listed(subs), l[1] # id PROVE l \in Listed(Pulled(subs, id))
  <2>1. PICK s \in subs : l = <<s[2], s[3]>>
    BY <1>3 DEF Listed
  <2>2. s[2] # id
    BY <1>3, <2>1
  <2>3. PICK p \in Pulled(subs, id) : p = <<Place(s), s[2], s[3]>>
    BY <1>1, <2>2
  <2>4. l = <<p[2], p[3]>>
    BY <2>1, <2>3
  <2> QED
    BY <2>4 DEF Listed
<1> QED
  BY <1>2, <1>3

(* Nothing is set where nothing is given.                                  *)
LEMMA ListedKept ==
  ASSUME NEW subs
  PROVE  Listed(ValuesSet(subs, {})) = Listed(subs)
<1>1. ValuesSet(subs, {}) = {<<s[1], s[2], s[3]>> : s \in subs}
  BY DEF ValuesSet
<1>2. ASSUME NEW l \in Listed(ValuesSet(subs, {})) PROVE l \in Listed(subs)
  <2>1. PICK p \in ValuesSet(subs, {}) : l = <<p[2], p[3]>>
    BY <1>2 DEF Listed
  <2>2. PICK s \in subs : p = <<s[1], s[2], s[3]>>
    BY <1>1, <2>1
  <2> QED
    BY <2>1, <2>2 DEF Listed
<1>3. ASSUME NEW l \in Listed(subs) PROVE l \in Listed(ValuesSet(subs, {}))
  <2>1. PICK s \in subs : l = <<s[2], s[3]>>
    BY <1>3 DEF Listed
  <2>2. PICK p \in ValuesSet(subs, {}) : p = <<s[1], s[2], s[3]>>
    BY <1>1
  <2>3. l = <<p[2], p[3]>>
    BY <2>1, <2>2
  <2> QED
    BY <2>3 DEF Listed
<1> QED
  BY <1>2, <1>3

(* A new document's array without elements has none for the callers.       *)
LEMMA ListedNew ==
  ASSUME NEW values, values = <<>>
  PROVE  Listed(Appended({}, values)) = {}
<1>1. DOMAIN values = {}
  OBVIOUS
<1>2. Appended({}, values) = {}
  BY <1>1 DEF Appended
<1> QED
  BY <1>2 DEF Listed

(* An entity with other fields and the next version.                       *)
WithFields(doc, fields) ==
  [name \in DOMAIN doc |-> IF name = "version" THEN doc.version + 1
                           ELSE IF name \in DOMAIN fields THEN fields[name] ELSE doc[name]]

(* Its fields.                                                             *)
LEMMA WithFieldsFields ==
  ASSUME NEW doc, IsDocument(doc), doc.version # NaN, NEW fields
  PROVE  LET new == WithFields(doc, fields)
         IN  /\ IsRecord(new)
             /\ new.version = NextVersion(doc.version)
             /\ new.owner = IF "owner" \in DOMAIN fields THEN fields["owner"] ELSE doc.owner
             /\ new.value = IF "value" \in DOMAIN fields THEN fields["value"] ELSE doc.value
             /\ new.subs = IF "subs" \in DOMAIN fields THEN fields["subs"] ELSE doc.subs
             /\ new.tags = IF "tags" \in DOMAIN fields THEN fields["tags"] ELSE doc.tags
             /\ new.links = IF "links" \in DOMAIN fields THEN fields["links"] ELSE doc.links
<1>1. DOMAIN doc = Fields
  BY DEF IsDocument, Fields
<1>2. WithFields(doc, fields) =
        [name \in Fields |-> IF name = "version" THEN doc.version + 1
                             ELSE IF name \in DOMAIN fields THEN fields[name] ELSE doc[name]]
  BY <1>1 DEF WithFields
<1>3. doc.version + 1 = NextVersion(doc.version)
  BY DEF NextVersion
<1> QED
  BY <1>2, <1>3 DEF IsRecord, Fields

(* A change that sets some fields and counts the version is, for callers,  *)
(* the entity with these fields.                                           *)
LEMMA PromiseKept ==
  ASSUME NEW doc, IsDocument(doc), doc.version # NaN, NEW fields, "owner" \notin DOMAIN fields,
         NEW new, IsRecord(new), new.version = NextVersion(doc.version), new.owner = doc.owner,
         new.value = IF "value" \in DOMAIN fields THEN fields["value"] ELSE doc.value,
         new.tags = IF "tags" \in DOMAIN fields THEN fields["tags"] ELSE doc.tags,
         new.links = IF "links" \in DOMAIN fields THEN fields["links"] ELSE doc.links,
         Listed(new.subs) = IF "subs" \in DOMAIN fields THEN fields["subs"] ELSE Listed(doc.subs)
  PROVE  Entity(new) = WithFields(Entity(doc), fields)
<1>1. /\ IsDocument(Entity(doc)) /\ Entity(doc).version = doc.version
      /\ Entity(doc).owner = doc.owner /\ Entity(doc).value = doc.value
      /\ Entity(doc).subs = Listed(doc.subs) /\ Entity(doc).tags = doc.tags /\ Entity(doc).links = doc.links
  BY EntityFields
<1>2. IsDocument(new)
  <2>1. doc.version \in Versions
    BY DEF IsDocument
  <2>2. NextVersion(doc.version) \in Versions
    BY <2>1 DEF NextVersion, Versions
  <2> QED
    BY <2>2, DocumentFacts
<1>3. /\ IsRecord(Entity(new)) /\ Entity(new).version = NextVersion(doc.version)
      /\ Entity(new).owner = doc.owner /\ Entity(new).value = new.value
      /\ Entity(new).subs = Listed(new.subs) /\ Entity(new).tags = new.tags /\ Entity(new).links = new.links
  BY <1>2, EntityFields, DocumentFacts
<1> DEFINE with == WithFields(Entity(doc), fields)
           old == Entity(doc)
<1>4. /\ IsRecord(with) /\ with.version = NextVersion(doc.version)
      /\ with.owner = old.owner
      /\ with.value = IF "value" \in DOMAIN fields THEN fields["value"] ELSE old.value
      /\ with.subs = IF "subs" \in DOMAIN fields THEN fields["subs"] ELSE old.subs
      /\ with.tags = IF "tags" \in DOMAIN fields THEN fields["tags"] ELSE old.tags
      /\ with.links = IF "links" \in DOMAIN fields THEN fields["links"] ELSE old.links
  <2> HIDE DEF old
  <2>1. IsDocument(old) /\ old.version # NaN /\ old.version = doc.version
    BY <1>1 DEF old
  <2>2. with = WithFields(old, fields)
    BY DEF old
  <2> HIDE DEF with
  <2> QED
    BY <2>1, <2>2, WithFieldsFields
<1> HIDE DEF with
<1>5. /\ with.value = new.value /\ with.tags = new.tags /\ with.links = new.links
      /\ with.subs = Listed(new.subs) /\ with.owner = doc.owner
  BY <1>1, <1>4
<1>6. Entity(new) = with
  <2> DEFINE other == Entity(new)
  <2>1. /\ IsRecord(other) /\ other.version = with.version /\ other.owner = with.owner
        /\ other.value = with.value /\ other.subs = with.subs /\ other.tags = with.tags
        /\ other.links = with.links
    BY <1>3, <1>4, <1>5
  <2> HIDE DEF other
  <2>2. other = with
    BY <1>4, <2>1, SameFields
  <2> QED
    BY <2>2 DEF other
<1> QED
  BY <1>6 DEF with

(* What an update gives an entity, and what a removal leaves it.            *)
Given(op, doc) == [value |-> IF op.value = 0 THEN doc.value ELSE op.value,
                   tags |-> IF op.tags = <<>> THEN doc.tags ELSE op.tags,
                   subs |-> IF op.subs = {} THEN Listed(doc.subs) ELSE op.subs]
LinksLeft(op, doc) == {l \in doc.links : ~op.all /\ l # op.sub}
SubsLeft(op, doc) == {sub \in Listed(doc.subs) : ~op.all /\ sub[1] # op.sub}

(* An update of an entity whose version is known gives it, for callers,    *)
(* the fields of the call.                                                 *)
LEMMA UpdatedAsPromised ==
  ASSUME NEW op, NEW doc, IsDocument(doc), doc.version # NaN, NEW version,
         op.kind = "update", version = doc.version,
         op.subs = {} \/ Listed(ValuesSet(doc.subs, op.subs)) = op.subs
  PROVE  Entity(Changed(op, doc, version)) = WithFields(Entity(doc), Given(op, doc))
<1>0. doc.version # 0
  BY DEF IsDocument, Versions, NaN
<1> DEFINE fields == Given(op, doc)
           new == updateEntity(op, doc, version)
<1>1. /\ "owner" \notin DOMAIN fields /\ "links" \notin DOMAIN fields
      /\ "value" \in DOMAIN fields /\ fields["value"] = IF op.value = 0 THEN doc.value ELSE op.value
      /\ "tags" \in DOMAIN fields /\ fields["tags"] = IF op.tags = <<>> THEN doc.tags ELSE op.tags
      /\ "subs" \in DOMAIN fields /\ fields["subs"] = IF op.subs = {} THEN Listed(doc.subs) ELSE op.subs
  BY DEF Given
<1>2. /\ IsRecord(new) /\ new.version = NextVersion(doc.version)
      /\ new.owner = doc.owner /\ new.links = doc.links
      /\ new.value = (IF op.value = 0 THEN doc.value ELSE op.value)
      /\ new.tags = (IF op.tags = <<>> THEN doc.tags ELSE op.tags)
      /\ new.subs = ValuesSet(doc.subs, op.subs)
  BY <1>0, UpdatedFields
<1>3. Listed(new.subs) = IF op.subs = {} THEN Listed(doc.subs) ELSE op.subs
  BY <1>2, ListedKept
<1>4. Changed(op, doc, version) = new
  BY ChangedByKind
<1> HIDE DEF new, fields
<1>5. Entity(new) = WithFields(Entity(doc), fields)
  BY <1>1, <1>2, <1>3, PromiseKept
<1> QED
  BY <1>4, <1>5 DEF fields

(* Other changes are, for callers, what their kinds of call promise.       *)
LEMMA ChangedAsPromised ==
  ASSUME NEW op, NEW doc, IsDocument(doc), doc.version # NaN, NEW version
  PROVE  /\ op.kind = "addValues" =>
              Entity(Changed(op, doc, version)) = WithFields(Entity(doc), [tags |-> doc.tags \o op.tags])
         /\ op.kind = "removeValues" =>
              Entity(Changed(op, doc, version)) = WithFields(Entity(doc), [tags |-> Without(doc.tags, op.tags)])
         /\ op.kind = "addLinks" =>
              Entity(Changed(op, doc, version)) = WithFields(Entity(doc), [links |-> doc.links \union op.links])
         /\ op.kind = "removeLinks" /\ ~op.all =>
              Entity(Changed(op, doc, version)) = WithFields(Entity(doc), [links |-> LinksLeft(op, doc)])
         /\ op.kind \in {"removeSubs", "removeSubsByFilters"} /\ ~op.all =>
              Entity(Changed(op, doc, version)) = WithFields(Entity(doc), [subs |-> SubsLeft(op, doc)])
<1>2. ASSUME op.kind = "addValues"
      PROVE  Entity(Changed(op, doc, version)) = WithFields(Entity(doc), [tags |-> doc.tags \o op.tags])
  <2> DEFINE fields == [tags |-> doc.tags \o op.tags]
             new == addSimpleSubEntitiesOrValuesByEntityId(op, doc)
  <2>1. /\ "owner" \notin DOMAIN fields /\ "value" \notin DOMAIN fields /\ "links" \notin DOMAIN fields
        /\ "subs" \notin DOMAIN fields /\ "tags" \in DOMAIN fields /\ fields["tags"] = doc.tags \o op.tags
    OBVIOUS
  <2>2. /\ IsRecord(new) /\ new.version = NextVersion(doc.version)
        /\ new.owner = doc.owner /\ new.value = doc.value /\ new.links = doc.links
        /\ new.tags = doc.tags \o op.tags /\ new.subs = doc.subs
    BY <1>2, PushedFields
  <2>3. Changed(op, doc, version) = new
    BY <1>2, ChangedByKind DEF Pushes
  <2> HIDE DEF new, fields
  <2>4. Entity(new) = WithFields(Entity(doc), fields)
    BY <2>1, <2>2, PromiseKept
  <2> QED
    BY <2>3, <2>4 DEF fields
<1>3. ASSUME op.kind = "removeValues"
      PROVE  Entity(Changed(op, doc, version)) = WithFields(Entity(doc), [tags |-> Without(doc.tags, op.tags)])
  <2> DEFINE fields == [tags |-> Without(doc.tags, op.tags)]
             new == removeFieldValues(op, doc)
  <2>1. /\ "owner" \notin DOMAIN fields /\ "value" \notin DOMAIN fields /\ "links" \notin DOMAIN fields
        /\ "subs" \notin DOMAIN fields /\ "tags" \in DOMAIN fields
        /\ fields["tags"] = Without(doc.tags, op.tags)
    OBVIOUS
  <2>2. /\ IsRecord(new) /\ new.version = NextVersion(doc.version)
        /\ new.owner = doc.owner /\ new.value = doc.value /\ new.links = doc.links
        /\ new.tags = Without(doc.tags, op.tags) /\ new.subs = doc.subs
    BY <1>3, ValuesRemovedFields
  <2>3. Changed(op, doc, version) = new
    BY <1>3, ChangedByKind
  <2> HIDE DEF new, fields
  <2>4. Entity(new) = WithFields(Entity(doc), fields)
    BY <2>1, <2>2, PromiseKept
  <2> QED
    BY <2>3, <2>4 DEF fields
<1>4. ASSUME op.kind = "addLinks"
      PROVE  Entity(Changed(op, doc, version)) = WithFields(Entity(doc), [links |-> doc.links \union op.links])
  <2> DEFINE fields == [links |-> doc.links \union op.links]
             new == addSimpleSubEntitiesOrValuesByEntityId(op, doc)
  <2>1. /\ "owner" \notin DOMAIN fields /\ "value" \notin DOMAIN fields /\ "tags" \notin DOMAIN fields
        /\ "subs" \notin DOMAIN fields /\ "links" \in DOMAIN fields
        /\ fields["links"] = doc.links \union op.links
    OBVIOUS
  <2>2. /\ IsRecord(new) /\ new.version = NextVersion(doc.version)
        /\ new.owner = doc.owner /\ new.value = doc.value /\ new.tags = doc.tags
        /\ new.links = doc.links \union op.links /\ new.subs = doc.subs
    BY <1>4, PushedFields
  <2>3. Changed(op, doc, version) = new
    BY <1>4, ChangedByKind DEF Pushes
  <2> HIDE DEF new, fields
  <2>4. Entity(new) = WithFields(Entity(doc), fields)
    BY <2>1, <2>2, PromiseKept
  <2> QED
    BY <2>3, <2>4 DEF fields
<1>5. ASSUME op.kind = "removeLinks", ~op.all
      PROVE  Entity(Changed(op, doc, version)) = WithFields(Entity(doc), [links |-> LinksLeft(op, doc)])
  <2> DEFINE fields == [links |-> LinksLeft(op, doc)]
             new == removeSimpleSubEntityById(op, doc)
  <2>1. /\ "owner" \notin DOMAIN fields /\ "value" \notin DOMAIN fields /\ "tags" \notin DOMAIN fields
        /\ "subs" \notin DOMAIN fields /\ "links" \in DOMAIN fields
        /\ fields["links"] = LinksLeft(op, doc)
    OBVIOUS
  <2>2. /\ IsRecord(new) /\ new.version = NextVersion(doc.version)
        /\ new.owner = doc.owner /\ new.value = doc.value /\ new.tags = doc.tags
        /\ new.links = doc.links \ {op.sub} /\ new.subs = doc.subs
    BY <1>5, PulledFields
  <2>3. LinksLeft(op, doc) = doc.links \ {op.sub}
    BY <1>5 DEF LinksLeft
  <2>4. Changed(op, doc, version) = new
    BY <1>5, ChangedByKind DEF Pulls
  <2> HIDE DEF new, fields
  <2>5. Entity(new) = WithFields(Entity(doc), fields)
    BY <2>1, <2>2, <2>3, PromiseKept
  <2> QED
    BY <2>4, <2>5 DEF fields
<1>6. ASSUME op.kind \in {"removeSubs", "removeSubsByFilters"}, ~op.all
      PROVE  Entity(Changed(op, doc, version)) = WithFields(Entity(doc), [subs |-> SubsLeft(op, doc)])
  <2> DEFINE fields == [subs |-> SubsLeft(op, doc)]
             new == removeSimpleSubEntityById(op, doc)
  <2>1. /\ "owner" \notin DOMAIN fields /\ "value" \notin DOMAIN fields /\ "tags" \notin DOMAIN fields
        /\ "links" \notin DOMAIN fields /\ "subs" \in DOMAIN fields
        /\ fields["subs"] = SubsLeft(op, doc)
    OBVIOUS
  <2>2. /\ IsRecord(new) /\ new.version = NextVersion(doc.version)
        /\ new.owner = doc.owner /\ new.value = doc.value /\ new.tags = doc.tags
        /\ new.links = doc.links /\ new.subs = Pulled(doc.subs, op.sub)
    BY <1>6, PulledFields
  <2>3. Listed(Pulled(doc.subs, op.sub)) = SubsLeft(op, doc)
    <3>1. SubsLeft(op, doc) = {l \in Listed(doc.subs) : l[1] # op.sub}
      BY <1>6 DEF SubsLeft
    <3> QED
      BY <3>1, ListedPulled
  <2>4. Changed(op, doc, version) = new
    BY <1>6, ChangedByKind DEF Pulls
  <2> HIDE DEF new, fields
  <2>5. Entity(new) = WithFields(Entity(doc), fields)
    BY <2>1, <2>2, <2>3, PromiseKept
  <2> QED
    BY <2>4, <2>5 DEF fields
<1> QED
  BY <1>2, <1>3, <1>4, <1>5, <1>6

----------------------------------------------------------------------------
(* Steps of EntityStore                                                    *)

(* The calls that EntityStore has not answered.                            *)
Asking == [c \in Callers |-> IF answer[c] = NoAnswer THEN call[c] ELSE NoCall]

(* What a caller asks for changes by its own steps.                        *)
LEMMA AskingOfOne ==
  ASSUME TypeInv, NEW c \in Callers, Step(c)
  PROVE  Asking' = [Asking EXCEPT ![c] = IF answer'[c] = NoAnswer THEN call'[c] ELSE NoCall]
<1>1. \A d \in Callers \ {c} : call'[d] = call[d] /\ answer'[d] = answer[d]
  BY ContextOfOthers DEF TypeInv
<1> QED
  BY <1>1 DEF Asking

(* Some document of any that are found is the first.                       *)
LEMMA FirstExists ==
  ASSUME NEW ids \in SUBSET EntityIds, ids # {}
  PROVE  First(ids) # {}
<1>0. ids \subseteq Nat
  BY ConstantsAssumption
<1>1. PICK i \in ids : \A j \in ids : <<j, i>> \notin OpToRel(<, Nat)
  BY <1>0, NatLessThanWellFounded, WFMin
<1>2. ASSUME NEW j \in ids PROVE i <= j
  <2>1. <<j, i>> \notin OpToRel(<, Nat)
    BY <1>1
  <2>2. ~(j < i)
    BY <1>0, <2>1 DEF OpToRel
  <2> QED
    BY <1>0, <2>2
<1> QED
  BY <1>2 DEF First

(* A call by _id finds one document at most, and it is the first.          *)
LEMMA OneById ==
  ASSUME NEW op \in Ops, op.kind \in ById, NEW i \in Where(op)
  PROVE  Where(op) = {i} /\ First(Where(op)) = Where(op)
<1>1. op.id \in EntityIds /\ i \in Nat
  BY OpsAssumption, FoundAreIds, ConstantsAssumption
<1>2. \A j \in Where(op) : j = op.id
  BY <1>1, ConstantsAssumption DEF Where
<1>3. Where(op) = {i}
  BY <1>2
<1> QED
  BY <1>1, <1>3 DEF First

(* What an operation is about is stored as the collection has it.          *)
LEMMA StoredReached ==
  ASSUME StoreInv, StoreInv', NEW c \in Callers, phase[c] \in {"start", "read", "write", "query"},
         call[c].kind # "create", ~Departs(c), NEW op, op = call[c],
         NEW i \in EntityIds, op.id \in {0, i}
  PROVE  (\A d \in Callers : i \notin todo[d]) /\ Stored[i] = Entity(docs[i])
<1>1. TypeInv /\ TodoInv /\ TodoInv'
  BY DEF StoreInv
<1>2. \A d \in Callers : i \notin todo[d]
  BY <1>1, Reached
<1> QED
  BY <1>1, <1>2, StoredNow

(* The entities that a call is about are the documents it finds.           *)
LEMMA MatchingIsWhere ==
  ASSUME IsCollection(docs), NEW op \in Ops,
         \A i \in EntityIds : op.id \in {0, i} => Stored[i] = Entity(docs[i])
  PROVE  /\ Store!Matching(op) = Where(op) /\ Store!First(Store!Matching(op)) = First(Where(op))
         /\ \A i \in Where(op) : Stored[i] = Entity(docs[i]) /\ IsDocument(docs[i])
<1>1. op.as = NoAccount
  BY OpsAssumption
<1>2. Store!Matching(op) = {i \in EntityIds : /\ Stored[i] # Absent /\ op.id \in {0, i}
                                              /\ op.filter \in {0, Stored[i].value}}
  BY <1>1 DEF Store!Matching, Store!Owned, Store!Absent, Absent
<1>3. ASSUME NEW i \in EntityIds, op.id \in {0, i}
      PROVE  /\ Stored[i] # Absent <=> docs[i] # Absent
             /\ docs[i] # Absent => Stored[i].value = docs[i].value
  <2>1. Stored[i] = Entity(docs[i]) /\ (docs[i] = Absent \/ IsDocument(docs[i]))
    BY <1>3 DEF IsCollection
  <2> QED
    BY <2>1, EntityFields
<1>4. Store!Matching(op) = Where(op)
  BY <1>2, <1>3 DEF Where
<1>5. \A i \in Where(op) : Stored[i] = Entity(docs[i]) /\ IsDocument(docs[i])
  BY FoundAreDocuments DEF Where
<1> QED
  BY <1>4, <1>5 DEF Store!First, First

(* What remains of an array without some values.                           *)
LEMMA StoreWithout ==
  ASSUME NEW s, NEW values
  PROVE  Store!Without(s, values) = Without(s, values)
BY DEF Store!Without, Without, Store!Nth, Nth, Store!Cardinality, Cardinality, Store!IsFiniteSet, IsFiniteSet

(* An entity gets other fields.                                            *)
LEMMA StoreUpdated ==
  ASSUME NEW i, NEW fields, Stored' = [Stored EXCEPT ![i] = WithFields(Stored[i], fields)]
  PROVE  Store!Updated(i, fields)
  BY DEF Store!Updated, WithFields

(* Nothing happens.                                                        *)
LEMMA StoreStutters ==
  ASSUME Stored' = Stored, answer' = answer, Asking' = Asking
  PROVE  UNCHANGED Store!vars
  BY DEF Store!vars, Asking

(* A call is answered with an error and has changed nothing.               *)
LEMMA StoreRefuses ==
  ASSUME TypeOK, NEW c \in Callers, answer[c] = NoAnswer, call[c] # NoCall,
         Stored' = Stored, answer' = [answer EXCEPT ![c] = Failed],
         Asking' = [Asking EXCEPT ![c] = NoCall]
  PROVE  Store!Next
<1>1. Asking[c] # Store!NoCall
  BY DEF Asking, Store!NoCall, NoCall
<1>2. Store!Refuse(c)
  BY <1>1 DEF Store!Refuse, Asking, Store!NoCall, NoCall, Store!Failed, Failed
<1> QED
  BY <1>2 DEF Store!Next

(* A call that has had its effect is answered with an error.               *)
LEMMA StoreDenies ==
  ASSUME NEW c \in Callers, answer[c].status = "ok",
         Stored' = Stored, answer' = [answer EXCEPT ![c] = Failed], Asking' = Asking
  PROVE  Store!Deny(c)
<1>1. answer[c] # NoAnswer
  BY DEF NoAnswer
<1>2. Asking[c] = Store!NoCall
  BY <1>1 DEF Asking, Store!NoCall, NoCall
<1> QED
  BY <1>2 DEF Store!Deny, Asking, Store!Failed, Failed

(* A call has its effect and its answer.                                   *)
LEMMA StorePerforms ==
  ASSUME TypeOK, NEW c \in Callers, answer[c] = NoAnswer, call[c] # NoCall,
         NEW op, op = call[c], Store!Performed(c, op),
         Asking' = [Asking EXCEPT ![c] = NoCall]
  PROVE  Store!Next
<1>1. Asking[c] # Store!NoCall /\ Asking[c] = op
  BY DEF Asking, Store!NoCall, NoCall
<1>2. Store!Perform(c)
  BY <1>1 DEF Store!Perform, Asking, Store!NoCall, NoCall
<1> QED
  BY <1>2 DEF Store!Next

(* A call is made.                                                         *)
LEMMA StoreAsks ==
  ASSUME TypeOK, NEW c \in Callers, NEW op \in Ops, Asking[c] = NoCall,
         Stored' = Stored, answer' = [answer EXCEPT ![c] = NoAnswer],
         Asking' = [Asking EXCEPT ![c] = op]
  PROVE  Store!Next
<1>1. Store!Ask(c, op)
  BY DEF Store!Ask, Asking, Store!NoCall, NoCall, Store!NoAnswer, NoAnswer
<1> QED
  BY <1>1 DEF Store!Next

(* insertOne does what EntityStore says of creating.                       *)
LEMMA InsertPerforms ==
  ASSUME StoreInv, StoreInv', ~Deviations, NEW c \in Callers, Step(c), InsertOne(c),
         NEW op \in Ops, op = call[c]
  PROVE  Store!Performed(c, op)
<1>0. /\ TypeInv /\ DocsInv /\ TodoInv /\ TodoInv' /\ IsCollection(docs)
      /\ At(c, "write") /\ todo' = todo /\ todo[c] = {}
  BY DEF StoreInv, TypeInv, TypeOK, InsertOne, At
<1>1. PICK i \in EntityIds : \E doc :
        /\ doc = NewDocument(op) /\ IsDocument(doc)
        /\ docs[i] = Absent
        /\ docs' = [docs EXCEPT ![i] = doc]
        /\ answer' = [answer EXCEPT ![c] = Answered({i})]
  BY <1>0, Inserted
<1>2. op.as = NoAccount /\ op.kind = "create" /\ op.values = <<>>
  BY OpsAssumption DEF InsertOne, Permitted, Departs, MissesSubEntities
<1> DEFINE doc == NewDocument(op)
<1>3. \A d \in Callers : i \notin todo[d]
  BY <1>0, <1>1 DEF TodoInv, Where
<1>4. Stored[i] = Absent /\ Stored' = [Stored EXCEPT ![i] = Entity(doc)]
  <2> HIDE DEF doc
  <2>1. docs' = [docs EXCEPT ![i] = doc]
    BY <1>1 DEF doc
  <2>2. Stored[i] = Entity(docs[i]) /\ Stored' = [Stored EXCEPT ![i] = Entity(doc)]
    BY <1>0, <1>3, <2>1, StoredChanged
  <2> QED
    BY <1>1, <2>2, EntityFields
<1>5. Entity(doc) = [owner |-> op.owner, version |-> 1, value |-> op.value,
                     subs |-> {<<k - 1, op.values[k]>> : k \in DOMAIN op.values},
                     tags |-> op.tags, links |-> op.links]
  <2>1. IsDocument(doc)
    BY <1>1
  <2>2. /\ doc.owner = op.owner /\ doc.version = 1 /\ doc.value = op.value
        /\ doc.subs = Appended({}, op.values) /\ doc.tags = op.tags /\ doc.links = op.links
    BY DEF NewDocument
  <2>3. Listed(doc.subs) = {<<k - 1, op.values[k]>> : k \in DOMAIN op.values}
    <3>1. DOMAIN op.values = {}
      BY <1>2
    <3> QED
      BY <1>2, <2>2, <3>1, ListedNew
  <2> DEFINE new == [owner |-> op.owner, version |-> 1, value |-> op.value,
                     subs |-> {<<k - 1, op.values[k]>> : k \in DOMAIN op.values},
                     tags |-> op.tags, links |-> op.links]
             old == Entity(doc)
  <2>4. /\ IsRecord(new) /\ new.owner = op.owner /\ new.version = 1 /\ new.value = op.value
        /\ new.subs = {<<k - 1, op.values[k]>> : k \in DOMAIN op.values}
        /\ new.tags = op.tags /\ new.links = op.links
    BY DEF IsRecord, Fields
  <2> HIDE DEF new, doc
  <2>5. /\ IsRecord(old) /\ old.owner = op.owner /\ old.version = 1 /\ old.value = op.value
        /\ old.subs = {<<k - 1, op.values[k]>> : k \in DOMAIN op.values}
        /\ old.tags = op.tags /\ old.links = op.links
    BY <2>1, <2>2, <2>3, EntityFields, DocumentFacts
  <2> HIDE DEF old
  <2>6. old = new
    BY <2>4, <2>5, SameFields
  <2> QED
    BY <2>6 DEF old, new
<1>6. Store!Created(c, op)
  BY <1>1, <1>2, <1>4, <1>5 DEF Store!Created, Store!Absent, Absent, Store!Answered, Answered
<1> QED
  BY <1>2, <1>6 DEF Store!Performed

(* Entities are removed.                                                   *)
LEMMA StoreRemoved ==
  ASSUME NEW ids
  PROVE  /\ \A i \in EntityIds : ids = {i} /\ Stored' = [Stored EXCEPT ![i] = Absent] => Store!Removed(ids)
         /\ ids = {} /\ Stored' = Stored => Store!Removed(ids)
<1>1. Stored = [i \in EntityIds |-> Stored[i]]
  BY DEF Stored
<1>2. ASSUME NEW i \in EntityIds, ids = {i}, Stored' = [Stored EXCEPT ![i] = Absent] PROVE Store!Removed(ids)
  <2>1. Stored' = [j \in EntityIds |-> IF j \in ids THEN Absent ELSE Stored[j]]
    BY <1>1, <1>2
  <2> QED
    BY <2>1 DEF Store!Removed, Store!Absent, Absent
<1>3. ASSUME ids = {}, Stored' = Stored PROVE Store!Removed(ids)
  <2>1. Stored' = [j \in EntityIds |-> IF j \in ids THEN Absent ELSE Stored[j]]
    BY <1>1, <1>3
  <2> QED
    BY <2>1 DEF Store!Removed, Store!Absent, Absent
<1> QED
  BY <1>2, <1>3

(* A write of one document does what EntityStore says of its call.         *)
LEMMA WritePerforms ==
  ASSUME StoreInv, StoreInv', ~Deviations, NEW c \in Callers, Step(c),
         At(c, "write"), Permitted(c), NEW op \in Ops, op = call[c], op.kind \notin ManyKinds \union {"create"},
         ~Throws(op), NEW i \in Targets(op), todo' = todo,
         docs' = [docs EXCEPT ![i] = Changed(op, docs[i], seen[c])],
         answer' = [answer EXCEPT ![c] = Answered({})]
  PROVE  Store!Performed(c, op)
<1>0. TypeInv /\ DocsInv /\ TodoInv /\ TodoInv' /\ IsCollection(docs) /\ ~Departs(c) /\ todo[c] = {}
  BY DEF StoreInv, TypeInv, TypeOK, Permitted, At
<1> DEFINE doc == docs[i]
           new == Changed(op, docs[i], seen[c])
<1>1. /\ i \in EntityIds /\ i \in Where(op) /\ IsDocument(doc) /\ doc.version # NaN
      /\ op.kind = "update" => seen[c] = doc.version /\ op.expect \in {0, doc.version}
      /\ op.kind \notin Queries \union {"create"}
      /\ op.kind \in Deleters => new = Absent
      /\ op.id \in {0, i}
  BY <1>0, WriterKnowsVersion
<1>r. \A j \in EntityIds : op.id \in {0, j} =>
        (\A d \in Callers : j \notin todo[d]) /\ Stored[j] = Entity(docs[j])
  BY <1>0, StoredReached DEF At
<1>2. Store!Matching(op) = Where(op) /\ Store!First(Store!Matching(op)) = First(Where(op))
  BY <1>0, <1>r, MatchingIsWhere
<1>3. /\ op.kind \notin {"addSubs", "addSubsByFilters"} /\ (op.kind \in Pulls => ~op.all)
      /\ op.kind = "update" => op.subs = {} \/ Listed(ValuesSet(doc.subs, op.subs)) = op.subs
  <2>1. ~MissesSubEntities(c)
    BY <1>0 DEF Departs
  <2>2. op.kind \in {"addSubs", "addSubsByFilters"} => ~op.all
    BY DEF Throws, addSubEntitiesToEntityById, addSubEntitiesToEntityByFilters
  <2> QED
    BY <1>1, <2>1, <2>2 DEF MissesSubEntities
<1>4. Stored[i] = Entity(doc) /\ Stored' = [Stored EXCEPT ![i] = Entity(new)]
  <2>1. \A d \in Callers : i \notin todo[d]
    BY <1>1, <1>r
  <2>2. docs' = [docs EXCEPT ![i] = new]
    OBVIOUS
  <2> HIDE DEF new
  <2> QED
    BY <1>0, <1>1, <2>1, <2>2, StoredChanged
<1>a. answer' = [answer EXCEPT ![c] = Store!Answered({})]
  BY DEF Answered, Store!Answered
<1>5. op.kind \notin Deleters => i \in First(Where(op))
  BY DEF Targets, Deleters, ManyKinds
<1>6. ASSUME Store!OneChanged(c, op) PROVE Store!Performed(c, op)
  BY <1>6 DEF Store!Performed
<1>f. /\ Stored[i].version = doc.version /\ Stored[i].value = doc.value
      /\ Stored[i].subs = Listed(doc.subs) /\ Stored[i].tags = doc.tags /\ Stored[i].links = doc.links
  BY <1>1, <1>4, EntityFields
<1>p. ASSUME NEW fields, Entity(new) = WithFields(Entity(doc), fields) PROVE Store!Updated(i, fields)
  <2>1. Stored' = [Stored EXCEPT ![i] = WithFields(Stored[i], fields)]
    BY <1>4, <1>p
  <2> QED
    BY <2>1, StoreUpdated
<1>q. /\ op.kind = "update" => Entity(new) = WithFields(Entity(doc), Given(op, doc))
      /\ op.kind = "addValues" => Entity(new) = WithFields(Entity(doc), [tags |-> doc.tags \o op.tags])
      /\ op.kind = "removeValues" =>
           Entity(new) = WithFields(Entity(doc), [tags |-> Without(doc.tags, op.tags)])
      /\ op.kind = "addLinks" => Entity(new) = WithFields(Entity(doc), [links |-> doc.links \union op.links])
      /\ op.kind = "removeLinks" => Entity(new) = WithFields(Entity(doc), [links |-> LinksLeft(op, doc)])
      /\ op.kind \in {"removeSubs", "removeSubsByFilters"} =>
           Entity(new) = WithFields(Entity(doc), [subs |-> SubsLeft(op, doc)])
  <2>1. PICK d, version : d = doc /\ version = seen[c]
    OBVIOUS
  <2>2. /\ op.kind = "update" => version = d.version
        /\ op.kind = "update" => op.subs = {} \/ Listed(ValuesSet(d.subs, op.subs)) = op.subs
        /\ op.kind \in {"removeLinks", "removeSubs", "removeSubsByFilters"} => ~op.all
        /\ IsDocument(d) /\ d.version # NaN
    BY <1>1, <1>3, <2>1 DEF Pulls
  <2>3. /\ op.kind = "update" => Entity(Changed(op, d, version)) = WithFields(Entity(d), Given(op, d))
        /\ op.kind = "addValues" =>
             Entity(Changed(op, d, version)) = WithFields(Entity(d), [tags |-> d.tags \o op.tags])
        /\ op.kind = "removeValues" =>
             Entity(Changed(op, d, version)) = WithFields(Entity(d), [tags |-> Without(d.tags, op.tags)])
        /\ op.kind = "addLinks" =>
             Entity(Changed(op, d, version)) = WithFields(Entity(d), [links |-> d.links \union op.links])
        /\ op.kind = "removeLinks" =>
             Entity(Changed(op, d, version)) = WithFields(Entity(d), [links |-> LinksLeft(op, d)])
        /\ op.kind \in {"removeSubs", "removeSubsByFilters"} =>
             Entity(Changed(op, d, version)) = WithFields(Entity(d), [subs |-> SubsLeft(op, d)])
    <3>1. ASSUME op.kind = "update" PROVE Entity(Changed(op, d, version)) = WithFields(Entity(d), Given(op, d))
      BY <2>2, <3>1, UpdatedAsPromised
    <3>2. ASSUME op.kind = "addValues"
          PROVE  Entity(Changed(op, d, version)) = WithFields(Entity(d), [tags |-> d.tags \o op.tags])
      BY <2>2, <3>2, ChangedAsPromised
    <3>3. ASSUME op.kind = "removeValues"
          PROVE  Entity(Changed(op, d, version)) = WithFields(Entity(d), [tags |-> Without(d.tags, op.tags)])
      BY <2>2, <3>3, ChangedAsPromised
    <3>4. ASSUME op.kind = "addLinks"
          PROVE  Entity(Changed(op, d, version)) = WithFields(Entity(d), [links |-> d.links \union op.links])
      BY <2>2, <3>4, ChangedAsPromised
    <3>5. ASSUME op.kind = "removeLinks"
          PROVE  Entity(Changed(op, d, version)) = WithFields(Entity(d), [links |-> LinksLeft(op, d)])
      BY <2>2, <3>5, ChangedAsPromised
    <3>6. ASSUME op.kind \in {"removeSubs", "removeSubsByFilters"}
          PROVE  Entity(Changed(op, d, version)) = WithFields(Entity(d), [subs |-> SubsLeft(op, d)])
      BY <2>2, <3>6, ChangedAsPromised
    <3> QED
      BY <3>1, <3>2, <3>3, <3>4, <3>5, <3>6
  <2> QED
    BY <2>1, <2>3
<1>o. /\ op.kind \in Pushes \union Pulls \union {"update"} => i \in Store!First(Store!Matching(op))
  BY <1>2, <1>5 DEF Deleters, Pushes, Pulls
<1> HIDE DEF doc, new
<1>7. CASE op.kind = "update"
  <2>1. Store!Updated(i, Given(op, doc)) /\ op.expect \in {0, doc.version}
    BY <1>1, <1>7, <1>p, <1>q
  <2>2. Store!EntityUpdated(op, i)
    BY <1>f, <2>1 DEF Store!EntityUpdated, Given
  <2>3. Store!OneChanged(c, op)
    BY <1>7, <1>a, <1>o, <2>2 DEF Store!OneChanged
  <2> QED
    BY <1>6, <2>3
<1>8. CASE op.kind = "addValues"
  <2>1. Store!Updated(i, [tags |-> Stored[i].tags \o op.tags])
    BY <1>8, <1>f, <1>p, <1>q
  <2>2. Store!OneChanged(c, op)
    BY <1>8, <1>a, <1>o, <2>1 DEF Store!OneChanged, Pushes
  <2> QED
    BY <1>6, <2>2
<1>9. CASE op.kind = "removeValues"
  <2>1. Store!Updated(i, [tags |-> Without(Stored[i].tags, op.tags)])
    BY <1>9, <1>f, <1>p, <1>q
  <2>2. Store!OneChanged(c, op)
    BY <1>9, <1>a, <1>o, <2>1, StoreWithout DEF Store!OneChanged, Pulls
  <2> QED
    BY <1>6, <2>2
<1>10. CASE op.kind = "addLinks"
  <2>1. Store!Updated(i, [links |-> Stored[i].links \union op.links])
    BY <1>10, <1>f, <1>p, <1>q
  <2>2. Store!OneChanged(c, op)
    BY <1>10, <1>a, <1>o, <2>1 DEF Store!OneChanged, Pushes
  <2> QED
    BY <1>6, <2>2
<1>11. CASE op.kind = "removeLinks"
  <2>1. Store!Updated(i, [links |-> {l \in Stored[i].links : ~op.all /\ l # op.sub}])
    BY <1>11, <1>f, <1>p, <1>q DEF LinksLeft
  <2>2. Store!OneChanged(c, op)
    BY <1>11, <1>a, <1>o, <2>1 DEF Store!OneChanged, Pulls
  <2> QED
    BY <1>6, <2>2
<1>12. CASE op.kind \in {"removeSubs", "removeSubsByFilters"}
  <2>1. Store!SubEntitiesRemoved(op, i)
    BY <1>12, <1>f, <1>p, <1>q DEF SubsLeft, Store!SubEntitiesRemoved
  <2>2. Store!OneChanged(c, op)
    BY <1>12, <1>a, <1>o, <2>1 DEF Store!OneChanged, Pulls
  <2> QED
    BY <1>6, <2>2
<1>13. CASE op.kind \in {"delete", "deleteByFilters"}
  <2>1. Stored' = [Stored EXCEPT ![i] = Absent]
    BY <1>1, <1>4, <1>13, EntityFields DEF Deleters
  <2>2. Store!Removed({i})
    BY <1>1, <2>1, StoreRemoved
  <2>3. CASE op.kind = "delete"
    <3>1. Where(op) = {i}
      BY <1>1, <2>3, OneById DEF ById
    <3> QED
      BY <1>2, <1>a, <2>2, <2>3, <3>1 DEF Store!Performed
  <2>4. CASE op.kind = "deleteByFilters"
    <3>1. {i} \in SUBSET Store!Matching(op) /\ {i} # {}
      BY <1>1, <1>2
    <3>2. Store!SomeRemoved(op)
      BY <2>2, <3>1 DEF Store!SomeRemoved
    <3> QED
      BY <1>a, <2>4, <3>2 DEF Store!Performed
  <2> QED
    BY <1>13, <2>3, <2>4
<1> QED
  BY <1>1, <1>3, <1>7, <1>8, <1>9, <1>10, <1>11, <1>12, <1>13, OpsAreCalls
  DEF Kinds, ManyKinds, Updaters, Deleters, Pushes, Pulls

(* Some operations that find nothing change nothing, without an error.     *)
LEMMA NothingPerforms ==
  ASSUME IsCollection(docs), NEW c \in Callers, NEW op \in Ops, Where(op) = {},
         \A i \in EntityIds : op.id \in {0, i} => Stored[i] = Entity(docs[i]),
         op.kind \in {"delete", "deleteByFilters", "removeSubsByFilters"}, Stored' = Stored,
         answer' = [answer EXCEPT ![c] = Answered({})]
  PROVE  Store!Performed(c, op)
<1>1. Store!Matching(op) = {}
  BY MatchingIsWhere
<1>2. Store!Removed({})
  BY StoreRemoved
<1>3. Store!SomeRemoved(op)
  <2>1. {} \in SUBSET Store!Matching(op)
    OBVIOUS
  <2> QED
    BY <1>1, <1>2, <2>1 DEF Store!SomeRemoved
<1>4. answer' = [answer EXCEPT ![c] = Store!Answered({})] /\ Stored' = Stored
  BY DEF Answered, Store!Answered
<1>5. CASE op.kind = "delete"
  BY <1>1, <1>2, <1>4, <1>5 DEF Store!Performed
<1>6. CASE op.kind = "deleteByFilters"
  BY <1>3, <1>4, <1>6 DEF Store!Performed
<1>7. CASE op.kind = "removeSubsByFilters"
  BY <1>1, <1>4, <1>7 DEF Store!Performed
<1> QED
  BY <1>5, <1>6, <1>7

(* What a write finds nothing to do for.                                   *)
LEMMA MissedWrites ==
  ASSUME TypeInv, NEW c \in Callers, ~Departs(c), At(c, "write"),
         NEW op \in Ops, op = call[c], op.kind \notin ManyKinds \union {"create", "update"},
         Targets(op) = {}
  PROVE  Where(op) = {} /\ op.kind \in {"delete", "deleteByFilters", "removeSubsByFilters"}
<1>1. Where(op) \in SUBSET EntityIds
  BY FoundAreIds
<1>2. Where(op) # {} => First(Where(op)) # {}
  BY <1>1, FirstExists
<1>3. Targets(op) = Where(op) \/ Targets(op) = First(Where(op))
  BY DEF Targets, updateEntityByFilters, updateEntitiesByFilters, deleteEntityById, deleteEntityByFilters,
    deleteEntitiesByFilters, deleteAllEntities
<1>4. Where(op) = {}
  BY <1>2, <1>3
<1>5. op.kind \notin (Pushes \union Pulls) \ {"removeSubsByFilters"}
  BY <1>4 DEF Departs, AnswersMissing
<1>7. op.kind \notin Queries
  BY DEF TypeInv, PhaseInv
<1>8. op.kind \in Kinds
  BY OpsAreCalls
<1>9. op.kind \in Deleters => op.kind \in {"delete", "deleteByFilters"}
  BY DEF Deleters, ManyKinds
<1>11. op.kind \notin Updaters
  BY DEF Updaters, ManyKinds
<1> QED
  BY <1>4, <1>5, <1>7, <1>8, <1>9, <1>11 DEF Kinds

(* What an updateMany leaves of an entity.                                 *)
Revalued(op, doc) == [doc EXCEPT !.value = op.value, !.version = @ + 1]

(* It is what the driver is told.                                          *)
LEMMA RevaluedIsValueSet ==
  ASSUME NEW op, NEW doc, IsDocument(doc), doc.version # NaN
  PROVE  Entity(ValueSet(op, doc)) = Revalued(op, Entity(doc))
<1> DEFINE set == ValueSet(op, doc)
           new == Entity(set)
           old == Entity(doc)
           with == Revalued(op, old)
<1>1. /\ IsRecord(set) /\ set.version = doc.version + 1
      /\ set.owner = doc.owner /\ set.value = op.value
      /\ set.subs = doc.subs /\ set.tags = doc.tags /\ set.links = doc.links
  BY ValueSetFields DEF NextVersion
<1>2. doc.version \in Versions /\ doc.version + 1 \in Versions
  BY DEF IsDocument, Versions
<1>3. /\ IsDocument(old) /\ old.version = doc.version
      /\ old.owner = doc.owner /\ old.value = doc.value /\ old.subs = Listed(doc.subs)
      /\ old.tags = doc.tags /\ old.links = doc.links
  BY EntityFields
<1> HIDE DEF set
<1>4. /\ IsRecord(new) /\ new.version = doc.version + 1
      /\ new.owner = doc.owner /\ new.value = op.value
      /\ new.subs = Listed(doc.subs) /\ new.tags = doc.tags /\ new.links = doc.links
  BY <1>1, <1>2, DocumentFacts, EntityFields
<1> HIDE DEF old
<1>5. /\ IsRecord(with) /\ with.version = old.version + 1
      /\ with.owner = old.owner /\ with.value = op.value
      /\ with.subs = old.subs /\ with.tags = old.tags /\ with.links = old.links
  BY <1>3 DEF Revalued, IsDocument, IsRecord, Fields
<1> HIDE DEF new, with
<1>6. new = with
  BY <1>3, <1>4, <1>5, SameFields
<1> QED
  BY <1>6 DEF new, with, set, old

(* A change of many documents has its effect when it begins.               *)
LEMMA ManyPerforms ==
  ASSUME StoreInv, StoreInv', ~Deviations, NEW c \in Callers, Step(c), WriteMany(c),
         NEW op \in Ops, op = call[c]
  PROVE  Store!Performed(c, op)
<1>0. TypeInv /\ DocsInv /\ IsCollection(docs) /\ ~Departs(c)
  BY DEF StoreInv, TypeInv, TypeOK, WriteMany, Permitted
<1>1. /\ op.kind \in ManyKinds /\ At(c, "write") /\ op.kind # "create"
      /\ answer' = [answer EXCEPT ![c] = Store!Answered({})]
  BY DEF WriteMany, ManyKinds, Answered, Store!Answered
<1>2. Targets(op) = Where(op)
  BY <1>1 DEF Targets, ManyKinds, updateEntityByFilters, updateEntitiesByFilters, deleteEntitiesByFilters,
    deleteAllEntities
<1>3. Store!Matching(op) = Where(op)
  <2>1. \A j \in EntityIds : op.id \in {0, j} => Stored[j] = Entity(docs[j])
    BY <1>0, <1>1, StoredReached DEF At
  <2> QED
    BY <1>0, <2>1, MatchingIsWhere
<1>4. /\ \A i \in Where(op) : Stored[i] = Entity(docs[i])
      /\ Stored' = [i \in EntityIds |-> IF i \in Where(op) THEN Entity(Changed(op, docs[i], 0)) ELSE Stored[i]]
  BY <1>2, ManyBegun
<1>5. \A i \in Where(op) : IsDocument(docs[i]) /\ docs[i].version # NaN
  BY <1>0, FoundAreDocuments DEF DocsInv
<1>6. CASE op.kind \in {"updateByFilters", "updateEntities"}
  <2>1. \A i \in Where(op) : Entity(Changed(op, docs[i], 0)) = Revalued(op, Stored[i])
    BY <1>4, <1>5, <1>6, ChangedByKind, RevaluedIsValueSet
  <2>2. Stored' = [i \in EntityIds |-> IF i \in Where(op) THEN Revalued(op, Stored[i]) ELSE Stored[i]]
    BY <1>4, <2>1
  <2>3. Store!AllUpdated(op)
    BY <1>3, <2>2 DEF Store!AllUpdated, Revalued
  <2>4. op.kind = "updateByFilters" => Where(op) # {}
    BY <1>0, <1>1 DEF Departs, AnswersMissing, At
  <2> QED
    BY <1>1, <1>3, <1>6, <2>3, <2>4 DEF Store!Performed
<1>7. CASE op.kind \in {"deleteEntities", "deleteAll"}
  <2>1. \A i \in Where(op) : Entity(Changed(op, docs[i], 0)) = Absent
    BY <1>7, ChangedByKind, EntityFields DEF Deleters
  <2>2. Stored' = [i \in EntityIds |-> IF i \in Where(op) THEN Absent ELSE Stored[i]]
    BY <1>4, <2>1
  <2>3. Store!Removed(Store!Matching(op))
    BY <1>3, <2>2 DEF Store!Removed, Store!Absent, Absent
  <2> QED
    BY <1>1, <1>7, <2>3 DEF Store!Performed
<1> QED
  BY <1>1, <1>6, <1>7 DEF ManyKinds

(* A query answers what EntityStore says.                                  *)
LEMMA QueryPerforms ==
  ASSUME IsCollection(docs), NEW c \in Callers, NEW op \in Ops, op.kind \in Queries,
         \A i \in EntityIds : op.id \in {0, i} => Stored[i] = Entity(docs[i]),
         op.kind \in {"get", "getByFilters"} => QueryFinds(op) # {},
         Stored' = Stored, answer' = [answer EXCEPT ![c] = Answered(QueryFinds(op))]
  PROVE  Store!Performed(c, op)
<1>1. /\ Store!Matching(op) = Where(op) /\ Store!First(Store!Matching(op)) = First(Where(op))
      /\ \A i \in Where(op) : Stored[i].tags = docs[i].tags
  BY MatchingIsWhere, EntityFields
<1>2. Store!Found(op) = QueryFinds(op)
  <2>1. CASE op.kind = "get"
    <3>1. op.kind \in ById /\ QueryFinds(op) = Where(op)
      BY <2>1 DEF ById, QueryFinds, getEntityById
    <3>2. First(Where(op)) = Where(op)
      BY <2>1, <3>1, OneById
    <3> QED
      BY <1>1, <2>1, <3>1, <3>2 DEF Store!Found
  <2>2. CASE op.kind = "getByFilters"
    BY <1>1, <2>2 DEF Store!Found, QueryFinds, getEntityByFilters
  <2>3. CASE op.kind = "contains"
    BY <1>1, <2>3 DEF Store!Found, QueryFinds, doesArrayFieldContainValueInEntityById
  <2>4. CASE op.kind \in {"getEntities", "getByIds", "getAll", "count"}
    BY <1>1, <2>4 DEF Store!Found, QueryFinds, getEntitiesByFilters, getEntitiesByIds, getAllEntities,
      getEntityCount
  <2> QED
    BY <2>1, <2>2, <2>3, <2>4 DEF Queries
<1>3. answer' = [answer EXCEPT ![c] = Store!Answered(Store!Found(op))] /\ Stored' = Stored
  BY <1>2 DEF Answered, Store!Answered
<1> QED
  BY <1>2, <1>3 DEF Store!Performed, Queries

----------------------------------------------------------------------------
(* Refinement                                                              *)

(* The initial states are those of EntityStore.                            *)
LEMMA InitRefines == Init => Store!Init
<1> SUFFICES ASSUME Init PROVE Store!Init
  OBVIOUS
<1>1. Stored = [i \in EntityIds |-> Entity(docs[i])]
  BY DEF Init, Stored
<1>2. docs \in InitialDocs
  BY DEF Init
<1>3. \A c \in Callers : call[c] = NoCall
  BY DEF Init
<1> QED
  BY <1>1, <1>2, <1>3 DEF Init, Store!Init, Store!NoCall, NoCall, Store!NoAnswer, NoAnswer

Refined == Store!Next \/ (\E c \in Callers : Store!Deny(c)) \/ UNCHANGED Store!vars

(* Every step is a step of EntityStore, or changes nothing of it.          *)
LEMMA StepRefines ==
  ASSUME StoreInv, StoreInv', ~Deviations, NEW c \in Callers, Step(c)
  PROVE  Refined
<1>0. PICK op : op = call[c]
  OBVIOUS
<1>1. /\ TypeInv /\ TypeOK /\ DocsInv /\ TodoInv /\ AnswerFits(c) /\ IsCollection(docs)
      /\ ~At(c, "idle") => op \in Ops /\ op = call[c] /\ call[c] # NoCall
      /\ ~At(c, "many") => todo[c] = {}
      /\ At(c, "idle") => call[c] = NoCall
      /\ answer \in [Callers -> [status : {"none", "ok", "error"}, found : SUBSET EntityIds]]
  BY <1>0 DEF StoreInv, TypeInv, TypeOK, AnswersInv
<1>2. Asking' = [Asking EXCEPT ![c] = IF answer'[c] = NoAnswer THEN call'[c] ELSE NoCall]
  BY <1>1, AskingOfOne
<1>3. Failed # NoAnswer /\ \A ids : Answered(ids) # NoAnswer /\ Answered(ids).status = "ok"
  BY DEF Failed, NoAnswer, Answered
<1>4. ASSUME answer'[c] # NoAnswer PROVE Asking' = [Asking EXCEPT ![c] = NoCall]
  BY <1>2, <1>4
<1>5. ASSUME docs' = docs, todo' = todo, todo[c] = {} PROVE Stored' = Stored
  BY <1>5, StoredStays
<1>6. ASSUME phase[c] \in {"start", "read", "write", "query"}, op.kind # "create", Permitted(c)
      PROVE  \A i \in EntityIds : op.id \in {0, i} => Stored[i] = Entity(docs[i])
  BY <1>0, <1>6, StoredReached DEF Permitted
(* A refusal, an answer and a step that shows nothing.                     *)
<1>7. ASSUME answer[c] = NoAnswer, ~At(c, "idle"), todo[c] = {}, docs' = docs, todo' = todo,
             answer' = [answer EXCEPT ![c] = Failed]
      PROVE  Refined
  <2>1. answer'[c] = Failed
    BY <1>1, <1>7
  <2> QED
    BY <1>1, <1>3, <1>4, <1>5, <1>7, <2>1, StoreRefuses DEF Refined
<1>8. ASSUME answer[c].status = "ok", todo[c] = {}, docs' = docs, todo' = todo,
             answer' = [answer EXCEPT ![c] = Failed]
      PROVE  Refined
  <2>1. answer'[c] = Failed
    BY <1>1, <1>8
  <2>2. answer[c] # NoAnswer
    BY <1>8 DEF NoAnswer
  <2>3. Asking' = Asking
    BY <1>3, <1>4, <2>1, <2>2 DEF Asking
  <2> QED
    BY <1>5, <1>8, <2>3, StoreDenies DEF Refined
<1>9. ASSUME answer[c] = NoAnswer, ~At(c, "idle"), NEW ids, answer' = [answer EXCEPT ![c] = Answered(ids)],
             Store!Performed(c, op)
      PROVE  Refined
  <2>1. answer'[c] = Answered(ids)
    BY <1>1, <1>9
  <2> QED
    BY <1>1, <1>3, <1>4, <1>9, <2>1, StorePerforms DEF Refined
<1>10. ASSUME Stored' = Stored, answer' = answer, answer[c] # NoAnswer \/ call'[c] = call[c]
       PROVE  Refined
  <2>1. Asking' = Asking
    BY <1>2, <1>10 DEF Asking
  <2> QED
    BY <1>10, <2>1, StoreStutters DEF Refined
<1>11. ASSUME NEW result, Finish(c, result)
       PROVE  todo' = todo /\ answer' = [answer EXCEPT ![c] = result]
  BY <1>11 DEF Finish
<1>12. ASSUME NEW result, Finish(c, result), answer[c] = result, result # NoAnswer, docs' = docs, todo[c] = {}
       PROVE  Refined
  <2>1. answer' = answer /\ todo' = todo
    BY <1>1, <1>11, <1>12
  <2> QED
    BY <1>5, <1>10, <1>12, <2>1
<1>13. ASSUME AfterChange(c) PROVE todo' = todo /\ answer' = [answer EXCEPT ![c] = Answered({})]
  BY <1>13 DEF AfterChange, Finish
<1>20. ASSUME NEW o \in Ops, Ask(c, o) PROVE Refined
  <2>1. /\ At(c, "idle") /\ docs' = docs /\ todo' = todo /\ todo[c] = {}
        /\ answer' = [answer EXCEPT ![c] = NoAnswer] /\ call'[c] = o
    BY <1>1, <1>20 DEF Ask, At, TypeOK
  <2>2. Asking[c] = NoCall
    BY <1>1, <2>1 DEF Asking
  <2>3. Asking' = [Asking EXCEPT ![c] = o]
    BY <1>1, <1>2, <2>1
  <2> QED
    BY <1>1, <1>5, <2>1, <2>2, <2>3, StoreAsks DEF Refined
<1>21. CASE Start(c) \/ PreHooksPass(c)
  <2>1. docs' = docs /\ todo' = todo /\ todo[c] = {} /\ answer' = answer /\ call' = call
    BY <1>1, <1>21 DEF Start, PreHooksPass, At
  <2> QED
    BY <1>5, <1>10, <2>1
<1>22. CASE ReadEntity(c)
  <2>1. /\ docs' = docs /\ At(c, "read") /\ ~At(c, "idle") /\ todo[c] = {} /\ answer[c] = NoAnswer
        /\ Permitted(c) /\ op.kind # "create"
    BY <1>0, <1>1, <1>22 DEF ReadEntity, At, AnswerFits, TypeInv, PhaseInv
  <2>2. CASE UNCHANGED <<call, todo, answer>>
    BY <1>5, <1>10, <2>1, <2>2
  <2>3. CASE Finish(c, Failed)
    BY <1>7, <1>11, <2>1, <2>3
  <2>4. CASE MissingIsAnswered(op) /\ Where(op) = {} /\ Finish(c, Answered({}))
    <3>1. op.kind # "updateByFilters"
      BY <1>0, <2>1, <2>4 DEF Permitted, Departs, AnswersMissing, At
    <3>2. op.kind \in {"delete", "deleteByFilters", "removeSubsByFilters"}
      BY <2>4, <3>1 DEF MissingIsAnswered
    <3>3. todo' = todo /\ answer' = [answer EXCEPT ![c] = Answered({})]
      BY <1>11, <2>4
    <3>4. Stored' = Stored /\ \A i \in EntityIds : op.id \in {0, i} => Stored[i] = Entity(docs[i])
      BY <1>5, <1>6, <2>1, <3>3 DEF At
    <3>5. Store!Performed(c, op)
      BY <1>1, <2>1, <2>4, <3>2, <3>3, <3>4, NothingPerforms
    <3> QED
      BY <1>9, <2>1, <3>3, <3>5
  <2> QED
    BY <1>0, <1>22, <2>2, <2>3, <2>4 DEF ReadEntity
<1>23. CASE PreHookRefuses(c)
  <2>1. docs' = docs /\ ~At(c, "idle") /\ todo[c] = {} /\ answer[c] = NoAnswer /\ Finish(c, Failed)
    BY <1>1, <1>23 DEF PreHookRefuses, At, AnswerFits
  <2> QED
    BY <1>7, <1>11, <2>1
<1>24. CASE InsertOne(c)
  <2>1. /\ ~At(c, "idle") /\ answer[c] = NoAnswer
        /\ \E i \in EntityIds : answer' = [answer EXCEPT ![c] = Answered({i})]
    BY <1>1, <1>24 DEF InsertOne, At, AnswerFits
  <2>2. Store!Performed(c, op)
    BY <1>1, <1>24, <2>1, InsertPerforms
  <2> QED
    BY <1>9, <2>1, <2>2
<1>25. CASE WriteOne(c)
  <2>1. /\ At(c, "write") /\ ~At(c, "idle") /\ answer[c] = NoAnswer /\ todo[c] = {} /\ Permitted(c)
        /\ op \in Ops /\ op = call[c] /\ op.kind \notin ManyKinds \union {"create"}
    BY <1>0, <1>1, <1>25 DEF WriteOne, At, AnswerFits
  <2>2. CASE Finish(c, Failed) /\ docs' = docs
    BY <1>7, <1>11, <2>1, <2>2
  <2>3. CASE /\ ~Throws(op) /\ AfterChange(c)
             /\ \E i \in Targets(op) : docs' = [docs EXCEPT ![i] = Changed(op, docs[i], seen[c])]
    <3>1. todo' = todo /\ answer' = [answer EXCEPT ![c] = Answered({})]
      BY <1>13, <2>3
    <3>2. Store!Performed(c, op)
      BY <2>1, <2>3, <3>1, WritePerforms
    <3> QED
      BY <1>9, <2>1, <3>1, <3>2
  <2>4. CASE ~Throws(op) /\ op.kind # "update" /\ AfterChange(c) /\ Targets(op) = {} /\ docs' = docs
    <3>1. todo' = todo /\ answer' = [answer EXCEPT ![c] = Answered({})]
      BY <1>13, <2>4
    <3>2. Stored' = Stored /\ \A i \in EntityIds : op.id \in {0, i} => Stored[i] = Entity(docs[i])
      BY <1>5, <1>6, <2>1, <2>4, <3>1 DEF At
    <3>3. Where(op) = {} /\ op.kind \in {"delete", "deleteByFilters", "removeSubsByFilters"}
      BY <1>1, <2>1, <2>4, MissedWrites DEF Permitted
    <3>4. Store!Performed(c, op)
      BY <1>1, <2>1, <2>4, <3>1, <3>2, <3>3, NothingPerforms
    <3> QED
      BY <1>9, <2>1, <3>1, <3>4
  <2> QED
    BY <1>0, <1>25, <2>2, <2>3, <2>4 DEF WriteOne
<1>26. CASE WriteMany(c)
  <2>1. /\ ~At(c, "idle") /\ answer[c] = NoAnswer
        /\ answer' = [answer EXCEPT ![c] = Answered({})]
    BY <1>1, <1>26 DEF WriteMany, At, AnswerFits
  <2>2. Store!Performed(c, op)
    BY <1>1, <1>26, <2>1, ManyPerforms
  <2> QED
    BY <1>9, <2>1, <2>2
<1>27. CASE WriteNext(c)
  <2>1. Stored' = Stored
    BY <1>27, ManyGoesOn
  <2> QED
    BY <1>10, <1>27, <2>1 DEF WriteNext
<1>28. CASE ManyWritten(c)
  <2>1. docs' = docs /\ todo[c] = {} /\ answer[c] = Answered({}) /\ AfterChange(c)
    BY <1>1, <1>28 DEF ManyWritten, At, AnswerFits
  <2>2. todo' = todo /\ answer' = answer
    BY <1>1, <1>13, <2>1
  <2> QED
    BY <1>3, <1>5, <1>10, <2>1, <2>2
<1>29. CASE ReadBack(c)
  <2>1. /\ docs' = docs /\ todo[c] = {} /\ answer[c] = Answered(found[c])
        /\ answer[c] # NoAnswer /\ answer[c].status = "ok"
    BY <1>1, <1>3, <1>29 DEF ReadBack, At, AnswerFits
  <2>2. CASE Finish(c, Failed)
    BY <1>8, <1>11, <2>1, <2>2
  <2>3. CASE UNCHANGED <<todo, answer>>
    BY <1>5, <1>10, <2>1, <2>3
  <2>4. CASE Finish(c, Answered(found[c]))
    BY <1>12, <2>1, <2>4
  <2> QED
    BY <1>29, <2>2, <2>3, <2>4 DEF ReadBack
<1>30. CASE Query(c)
  <2>1. /\ docs' = docs /\ At(c, "query") /\ ~At(c, "idle") /\ todo[c] = {} /\ answer[c] = NoAnswer
        /\ op.kind \in Queries /\ op.kind # "create" /\ Permitted(c)
    BY <1>0, <1>1, <1>30 DEF Query, At, AnswerFits, TypeInv, PhaseInv, Queries
  <2>2. CASE Finish(c, Failed)
    BY <1>7, <1>11, <2>1, <2>2
  <2>3. CASE /\ ~(op.kind \in {"get", "getByFilters"} /\ QueryFinds(op) = {})
             /\ todo' = todo /\ answer' = [answer EXCEPT ![c] = Answered(QueryFinds(op))]
    <3>1. Stored' = Stored /\ \A i \in EntityIds : op.id \in {0, i} => Stored[i] = Entity(docs[i])
      BY <1>5, <1>6, <2>1, <2>3 DEF At
    <3>2. Store!Performed(c, op)
      BY <1>1, <2>1, <2>3, <3>1, QueryPerforms
    <3> QED
      BY <1>9, <2>1, <2>3, <3>2
  <2>4. CASE /\ ~(op.kind \in {"get", "getByFilters"} /\ QueryFinds(op) = {})
             /\ Finish(c, Answered(QueryFinds(op)))
    BY <1>11, <2>3, <2>4
  <2> QED
    BY <1>0, <1>30, <2>2, <2>3, <2>4 DEF Query
<1>31. CASE AnswerBare(c)
  <2>1. /\ docs' = docs /\ At(c, "start") /\ ~At(c, "idle") /\ todo[c] = {} /\ answer[c] = NoAnswer
        /\ op = call[c] /\ op \in Ops /\ op.kind = "get" /\ op.bare /\ Permitted(c)
        /\ Finish(c, Answered({op.id}))
    BY <1>0, <1>1, <1>31 DEF AnswerBare, At, AnswerFits
  <2>2. op.kind \in ById /\ op.kind \in Queries /\ op.kind # "create"
    BY <2>1 DEF ById, Queries
  <2>3. Where(op) # {}
    BY <2>1 DEF Permitted, Departs, AnswersMissing
  <2>4. QueryFinds(op) = {op.id}
    <3>1. op.id \in EntityIds /\ op.id # 0
      BY <2>1, <2>2, OpsAssumption, ConstantsAssumption
    <3>2. PICK i \in Where(op) : i = op.id
      BY <2>3, <3>1 DEF Where
    <3>3. Where(op) = {op.id}
      BY <2>1, <2>2, <3>2, OneById
    <3> QED
      BY <2>1, <3>3 DEF QueryFinds, getEntityById
  <2>5. todo' = todo /\ answer' = [answer EXCEPT ![c] = Answered(QueryFinds(op))]
    BY <1>11, <2>1, <2>4
  <2>6. Stored' = Stored /\ \A i \in EntityIds : op.id \in {0, i} => Stored[i] = Entity(docs[i])
    BY <1>5, <1>6, <2>1, <2>2, <2>5 DEF At
  <2>7. Store!Performed(c, op)
    BY <1>1, <2>1, <2>2, <2>4, <2>5, <2>6, QueryPerforms
  <2> QED
    BY <1>9, <2>1, <2>5, <2>7
<1>32. CASE PostHookPasses(c)
  <2>1. /\ docs' = docs /\ todo[c] = {} /\ Finish(c, Answered(found[c])) /\ answer[c] = Answered(found[c])
    BY <1>1, <1>32 DEF PostHookPasses, At, AnswerFits
  <2> QED
    BY <1>3, <1>12, <2>1
<1>33. CASE PostHookRefuses(c)
  <2>1. docs' = docs /\ todo[c] = {} /\ answer[c].status = "ok" /\ Finish(c, Failed)
    BY <1>1, <1>3, <1>33 DEF PostHookRefuses, At, AnswerFits
  <2> QED
    BY <1>8, <1>11, <2>1
<1>34. CASE OperationFails(c)
  <2>1. /\ phase[c] \in {"start", "read", "write", "many", "readback", "query"} /\ docs' = docs
        /\ todo[c] = {} /\ todo' = [todo EXCEPT ![c] = {}] /\ answer' = [answer EXCEPT ![c] = Failed]
    BY <1>34 DEF OperationFails
  <2>2. ~At(c, "idle") /\ todo' = todo
    BY <1>1, <2>1 DEF At, TypeOK
  <2>3. CASE phase[c] \in {"start", "read", "write", "query"}
    BY <1>1, <1>7, <2>1, <2>2, <2>3 DEF AnswerFits
  <2>4. CASE phase[c] \in {"many", "readback"}
    <3>1. answer[c].status = "ok"
      BY <1>1, <1>3, <2>4 DEF AnswerFits, At
    <3> QED
      BY <1>8, <2>1, <2>2, <3>1
  <2> QED
    BY <2>1, <2>3, <2>4
<1>35. CASE ExecuteInsideTransaction(c) \/ ExecutableReturns(c) \/ ExecutableThrows(c)
  <2>1. docs' = docs /\ todo' = todo /\ todo[c] = {} /\ answer' = answer /\ call' = call
    BY <1>1, <1>35 DEF ExecuteInsideTransaction, ExecutableReturns, ExecutableThrows, At
  <2> QED
    BY <1>5, <1>10, <2>1
<1> QED
  BY <1>20, <1>21, <1>22, <1>23, <1>24, <1>25, <1>26, <1>27, <1>28, <1>29, <1>30, <1>31, <1>32, <1>33, <1>34,
     <1>35
  DEF Step
(* Operations of several callers that overlap in any way, each outside a   *)
(* transaction, do to the stored entities what EntityStore says, each at   *)
(* one moment: for every set of callers, calls and documents, every number *)
(* of failures, before an operation has taken effect or after, as long as  *)
(* no operation takes one of the steps that Departs names.                 *)
THEOREM Refinement ==
  ASSUME ~Deviations
  PROVE  Spec => ImplementsEntityStore
<1>1. /\ StoreInv /\ StoreInv' /\ [Next]_vars
      => [Store!Next \/ \E c \in Callers : Store!Deny(c)]_(Store!vars)
  <2>1. ASSUME UNCHANGED vars PROVE UNCHANGED Store!vars
    BY <2>1 DEF vars, Store!vars, Stored, Changed
  <2>2. ASSUME StoreInv, StoreInv', NEW c \in Callers, Step(c)
        PROVE  [Store!Next \/ \E d \in Callers : Store!Deny(d)]_(Store!vars)
    BY <2>2, StepRefines DEF Refined
  <2> QED
    BY <2>1, <2>2 DEF Next
<1> QED
  BY <1>1, InitRefines, StoreInvariant, PTL DEF Spec, ImplementsEntityStore, Store!SpecWithoutUndo
=============================================================================
