---------------------------- MODULE MongoDbQuery ----------------------------
(***************************************************************************)
(* The same queries as a MongoDB data store answers them                   *)
(* (src/datastore/mongodb): one aggregation on the collection of the root  *)
(* entities, a query more for each many-to-many relation, and pages of     *)
(* sub-entities cut out of what was read.  The server is external; where   *)
(* no order is asked for it answers documents by id.                       *)
(***************************************************************************)
EXTENDS EntityQuery

Nested(t) == t # <<>> /\ t \notin Links

(* The names of the root entity's properties.                              *)
getDefaultIncludeFieldsMap == {SubSeq(p, 1, 1) : p \in LeafPaths}

getIncludeFieldsMap == ToSet(query.include)
getExcludeFieldsMap == ToSet(query.exclude)

getProjection ==
  (IF query.include = <<>> THEN getDefaultIncludeFieldsMap ELSE getIncludeFieldsMap) \ getExcludeFieldsMap

(* Paths of properties, as getRootProjection counts them: below a sub-     *)
(* entity it forgets what is above it.                                     *)
PropertyPaths ==
  getDefaultIncludeFieldsMap
    \union {<<p[Len(p) - 1], p[Len(p)]>> : p \in {q \in LeafPaths \union Tables : Len(q) > 1 /\ Nested(Front(q))}}

(* Of an entity that refers to the table of another one, all properties    *)
(* are added to a projection that names none of them.                      *)
PropertiesOf(t) ==
  LET path == IF Len(t) = 1 THEN t ELSE <<t[Len(t) - 1], Last(t)>>
  IN {Append(path, Last(p)) : p \in {q \in LeafPaths \union Tables : q # <<>> /\ Front(q) = t}}

projectionOf(tables) == getProjection \union UNION {PropertiesOf(t) : t \in tables}

(* Mutant of projection: what is projected of such an entity is not looked *)
(* at.                                                                     *)
ProjectionOfAllReferences == projectionOf(references)

projection == projectionOf({t \in references : getProjection \intersect PropertiesOf(t) = {}})

(* A property is projected if the text of a path in the map starts so.     *)
Projected ==
  LET map == projection IN {p \in PropertyPaths : \E m \in map : TextStartsWith(m, p)}

getRootProjection ==
  LET projected == Projected IN {p \in projected : Len(p) > 1 \/ ~\E q \in projected : IsStrictPrefix(p, q)}

(* $project: the paths and _id, or everything if there are none.           *)
InDocument(p) ==
  LET projected == getRootProjection
  IN p = <<"_id">> \/ projected = {} \/ \E m \in projected : IsPrefix(m, p)

(* The projection of the query for a many-to-many relation.                *)
replaceFieldPathNames(paths, t) ==
  {SubSeq(p, Len(t) + 1, Len(p)) : p \in {q \in ToSet(paths) : TextStartsWith(q, t)}}

(* An empty name is no property of the entity: everything is projected.    *)
InLinkedDocument(p, t) ==
  LET include == replaceFieldPathNames(query.include, t)
      exclude == replaceFieldPathNames(query.exclude, t)
      field == SubSeq(p, Len(t) + 1, Len(p))
      map == (IF include = {} THEN {<<name>> : name \in Leaves[t]} ELSE include) \ exclude
  IN \/ field = <<"_id">>
     \/ map \ {<<>>} = {}
     \/ \E m \in map \ {<<>>} : TextStartsWith(m, field)

FetchesLinks(t) ==
  \/ \E m \in projection : Len(m) > 1 /\ TextStartsWith(m, t)
  \/ t \in getRootProjection

removePrivateProperties(fields) == {p \in fields : ~Denied(p)}

tryFetchAndAssignSubEntitiesForManyToManyRelationships(p) ==
  FetchesLinks(Front(p)) /\ InLinkedDocument(p, Front(p))

performPostQueryOperations ==
  removePrivateProperties({p \in LeafPaths :
    IF Front(p) \in Links THEN tryFetchAndAssignSubEntitiesForManyToManyRelationships(p) ELSE InDocument(p)})

----------------------------------------------------------------------------
(* Filters, sortings and paginations for the root collection: the root's   *)
(* and those of sub-entities in its documents, one level down.             *)
getRootOperations(operations) ==
  SelectSeq(operations, LAMBDA o : o.path \in {<<>>, All}) \o
  SelectSeq(operations, LAMBDA o : Nested(o.path) /\ Len(o.path) = 1 /\ o.path # All)

(* Properties and conditions of $match: one condition for a property, its  *)
(* path left out; an OR drops what came before it.                         *)
Condition(f) == IF f.op = "OR" THEN <<"$or", f>> ELSE <<f.field, f>>

AddCondition(conditions, f) ==
  {c \in conditions : c[1] # Condition(f)[1]} \union {Condition(f)}

convertUserDefinedFiltersToMatchExpression(filters) ==
  FoldLeft(LAMBDA conditions, f : IF Ignored(f) THEN conditions
                                  ELSE IF f.op = "OR" THEN {Condition(f)} ELSE AddCondition(conditions, f),
           {}, filters)

convertMongoDbQueriesToMatchExpression(filters) == FoldLeft(AddCondition, {}, filters)

MatchExpression(filters) ==
  LET objects == convertMongoDbQueriesToMatchExpression(SelectSeq(filters, LAMBDA f : f.kind = "object"))
      users == convertUserDefinedFiltersToMatchExpression(SelectSeq(filters, LAMBDA f : f.kind = "user"))
  IN objects \union {u \in users : \A o \in objects : o[1] # u[1]}

Matches(conditions, t, key) ==
  \A c \in conditions :
    IF c[1] = "$or" THEN Satisfies(c[2], t, key)
    ELSE c[1] \in DOMAIN Val[t] /\ Val[t][c[1]][key] \in ToSet(c[2].values)

(* The sort object: one direction for a property, at its first place.      *)
SortObject(operations) ==
  FoldLeft(LAMBDA sorting, s :
             IF \E k \in DOMAIN sorting : sorting[k].field = s.field
             THEN [k \in DOMAIN sorting |-> IF sorting[k].field = s.field THEN s ELSE sorting[k]]
             ELSE Append(sorting, s),
           <<>>, operations)

(* $sort comes after $project: what is not in the documents sorts nothing. *)
Sorted(operations, t, keys) ==
  LET InDocuments(field) ==
        IF t = <<>> THEN InDocument(<<field>>) ELSE InLinkedDocument(Append(t, field), t)
  IN SortedBy(SelectSeq(SortObject(operations), LAMBDA s : s.field \in Leaves[t] /\ InDocuments(s.field)), t, keys)

----------------------------------------------------------------------------
(* The operations of the query for a many-to-many relation.                *)
replaceSubEntityPaths(operations, t) == SelectSeq(operations, LAMBDA o : o.path \in {t, All})

FirstPage == [page |-> 1, size |-> 100]
PaginationFor(given) == IF given = <<>> THEN FirstPage ELSE Head(given)
PageOf(rows, p) == Window(rows, (p.page - 1) * p.size, p.size)

getEntitiesByFilters(t, parent) ==
  LET conditions == MatchExpression(replaceSubEntityPaths(query.filters, t))
      rows == {k \in Children(t, parent) : Matches(conditions, t, k)}
  IN PageOf(Sorted(replaceSubEntityPaths(sortBys, t), t, rows),
            PaginationFor(replaceSubEntityPaths(paginations, t)))

rootPagination == SelectSeq(paginations, LAMBDA p : p.path = <<>>) \o SelectSeq(paginations, LAMBDA p : p.path = All)

RootList ==
  LET rows == {k \in Keys[<<>>] : Matches(MatchExpression(getRootOperations(query.filters)), <<>>, k)}
  IN PageOf(Sorted(getRootOperations(sortBys), <<>>, rows), PaginationFor(rootPagination))

(* A page of sub-entities in their stored order.  The first page is never  *)
(* cut, paths of more than one name are not found, and of a list in a list *)
(* only the first one is cut.                                              *)
paginateSubEntities(t, parent) ==
  LET stored == SetToSortSeq(Children(t, parent), LAMBDA k, l : Last(k) < Last(l))
      exact == SelectSeq(paginations, LAMBDA p : Len(t) = 1 /\ p.path = t)
      p == PaginationFor(exact \o SelectSeq(paginations, LAMBDA o : o.path = All))
      cut == Len(t) = 1 \/ \A k \in Keys[Front(t)] : Front(k) = Front(parent) => Last(parent) <= Last(k)
  IN IF cut /\ p.page # 1 THEN PageOf(stored, p) ELSE stored

MongoDbList(t, parent) ==
  IF t = <<>> THEN RootList
  ELSE IF t \in Links THEN getEntitiesByFilters(t, parent)
  ELSE paginateSubEntities(t, parent)

MongoDbAnswer == Answer(performPostQueryOperations, MongoDbList)

----------------------------------------------------------------------------
(* Where an answer is not what was asked for: _id is shown unasked; a path *)
(* has more than two names, or is excluded from an included one, or is     *)
(* included besides it, or starts another one; an operation is for sub-    *)
(* entities; two filters are for one property, or an OR comes after a      *)
(* filter; properties are added of a sub-entity of which others or none    *)
(* were asked for.                                                         *)
IdShown ==
  \E t \in Links \union {<<>>} :
    /\ Append(t, "_id") \notin Asked
    /\ t = <<>> \/ \E p \in Asked : IsStrictPrefix(t, p)
NameOfAskedStartsSo == \E p \in LeafPaths \ Asked : \E q \in Asked : TextStartsWith(q, p)
PartlyExcluded ==
  \E e \in ToSet(query.exclude) :
    \E i \in IF query.include = <<>> THEN getDefaultIncludeFieldsMap ELSE ToSet(query.include) :
      IsStrictPrefix(i, e) \/ IsStrictPrefix(e, i)
IncludedTwice == \E p, q \in ToSet(query.include) : IsStrictPrefix(p, q)
DeepInclude == \E p \in ToSet(query.include) : Len(p) > 2
SubEntityOperation ==
  \E name \in {"filters", "sortBys", "paginations"} : \E o \in ToSet(query[name]) : Nested(o.path)
ConditionReplaced ==
  \E i, j \in DOMAIN query.filters :
    /\ i < j
    /\ query.filters[i].path = query.filters[j].path
    /\ \/ query.filters[i].field = query.filters[j].field
       \/ query.filters[j].op = "OR"

PropertiesAdded ==
  \E t \in references : getProjection \intersect PropertiesOf(t) = {} /\ ~\E m \in getProjection : IsPrefix(m, t)

OtherwiseAnswered ==
  IdShown \/ DeepInclude \/ IncludedTwice \/ PartlyExcluded \/ NameOfAskedStartsSo
    \/ SubEntityOperation \/ ConditionReplaced \/ PropertiesAdded

(* Entities are sorted by a property that is not among the fields asked    *)
(* for: it is projected away before, and their pages are cut unsorted.     *)
SortedAway ==
  \E t \in Links \union {<<>>} : \E s \in ToSet(sortBys) :
    s.path \in {t, All} /\ s.field \in Leaves[t] \ {"_id"} /\ Append(t, s.field) \notin Asked

(* The aggregation with what is done to its result answers what the query  *)
(* asked for, like an SQL data store, except in the cases above            *)
(* (getEntitiesByFilters and performPostQueryOperations).                  *)
MongoDbAnswersAsAsked ==
  OtherwiseAnswered \/ SortedAway \/ MongoDbAnswer = AskedAnswer

(* The documented sorting: root entities are answered in the order of the  *)
(* sortings, whichever of their properties are asked for                   *)
(* (docs/api/POST_QUERY_OPERATIONS).  performPostQueryOperations adds      *)
(* $project before $sort, $skip and $limit.                                *)
MongoDbSortsAsAsked ==
  OtherwiseAnswered \/ RootList = AskedList(<<>>, <<>>)
=============================================================================
