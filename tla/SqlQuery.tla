------------------------------ MODULE SqlQuery ------------------------------
(***************************************************************************)
(* The statement that an SQL data store builds from a query and the        *)
(* entities that it makes of the rows (src/datastore/sql/operations/dql).  *)
(*                                                                         *)
(* The outer statement is SELECT columns FROM (SELECT * FROM root WHERE    *)
(* .. ORDER BY .. LIMIT ..) LEFT JOIN LATERAL (SELECT * FROM sub WHERE ..  *)
(* ORDER BY .. LIMIT ..) .. ORDER BY columns of the joined tables.  The    *)
(* database is external: a subselect without ORDER BY yields rows by id.   *)
(***************************************************************************)
EXTENDS EntityQuery, FiniteSets, TLC

shouldIncludeField(p, include, exclude) ==
  /\ \/ include = <<>>
     \/ \E i \in ToSet(include) : p = i \/ IsStrictPrefix(p, i) \/ (Len(p) > 1 /\ TextStartsWith(p, i))
  /\ ~\E e \in ToSet(exclude) : TextStartsWith(p, e)

getFieldsForEntity(include, exclude) ==
  {p \in LeafPaths :
     /\ ~Denied(p)
     /\ shouldIncludeField(p, include, exclude)
     /\ p \in Arrays /\ include # <<>> => ~(Len(include[1]) > 1 /\ Last(include[1]) = "_id")}

(* Columns of the select list, and the check of the given fields, which    *)
(* sees only an invalid first one.                                         *)
tryGetProjection == getFieldsForEntity(query.include, query.exclude)
InvalidFields(paths) == paths # <<>> /\ getFieldsForEntity(<<Head(paths)>>, <<>>) = {}

(* Mutant of getJoinClauses: every table is joined as a many-to-many       *)
(* relation is, if its id is selected.                                     *)
JoinsOfSelectedIds ==
  {t \in (Tables \union Arrays) \ {<<>>} :
     t \notin ReadDenied /\ shouldIncludeField(Append(t, "_id"), query.include, query.exclude)}

(* The joined tables.                                                      *)
getJoinClauses ==
  {t \in (Tables \union Arrays) \ {<<>>} :
     /\ t \notin ReadDenied
     /\ shouldIncludeField(IF t \in Links THEN Append(t, "_id") ELSE t, query.include, query.exclude)}

InStatement(path) == path = <<>> \/ path \in getJoinClauses

----------------------------------------------------------------------------
ValidSort(t, s) == getFieldsForEntity(<<Append(t, s.field)>>, <<>>) # {}
InvalidSort == \E s \in ToSet(sortBys) : s.path # All /\ InStatement(s.path) /\ ~ValidSort(s.path, s)

(* Mutant of tryGetOrderByClause: sortings for all paths come first.       *)
SortsForAllFirst(t) ==
  SelectSeq(sortBys, LAMBDA s : s.path = All /\ ValidSort(t, s)) \o
  SelectSeq(sortBys, LAMBDA s : s.path = t)

tryGetOrderByClause(t) ==
  SelectSeq(sortBys, LAMBDA s : s.path = t) \o
  SelectSeq(sortBys, LAMBDA s : s.path = All /\ ValidSort(t, s))

(* The outer ORDER BY: columns of the joined tables, those that are higher *)
(* up and one-to-many relations first.  (The rows of a table of array      *)
(* values count from 0 in each entity and order no entities.)              *)
JoinOrder ==
  SetToSortSeq(getJoinClauses \ Arrays,
    LAMBDA t, u : Len(t) < Len(u) \/ (Len(t) = Len(u) /\ t \notin Links /\ u \in Links))

outerSortBys ==
  FoldLeft(LAMBDA columns, t :
             columns \o [n \in DOMAIN tryGetOrderByClause(t) |-> [table |-> t, by |-> tryGetOrderByClause(t)[n]]],
           <<>>, JoinOrder)

(* LIMIT and OFFSET, none for sub-entities without a pagination.           *)
getPaginationClause(t) ==
  LET first(path) == SelectInSeq(paginations, LAMBDA p : p.path = path)
      found == IF first(t) # 0 THEN first(t) ELSE first(All)
  IN IF found = 0 THEN <<>>
     ELSE <<[limit |-> paginations[found].size, offset |-> (paginations[found].page - 1) * paginations[found].size]>>

Paginated(clause, rows) == IF clause = <<>> THEN rows ELSE Window(rows, clause[1].offset, clause[1].limit)
MissingPagination == ~\E p \in ToSet(paginations) : p.path \in {<<>>, All}

----------------------------------------------------------------------------
(* The text of a condition names its parameters; index counts the user     *)
(* defined filters.                                                        *)
Users == SelectSeq(query.filters, LAMBDA f : f.kind = "user")
IndexOf(f) == SelectInSeq(Users, LAMBDA g : g = f) - 1

convertUserDefinedFilterToSqlExpression(f) ==
  CASE f.op = "IN" -> [k \in DOMAIN f.values |-> <<f.path, f.field, k>>]
    [] f.op = "OR" -> [k \in DOMAIN f.or |-> <<f.path, f.or[k].field, IndexOf(f), k - 1>>]
    [] OTHER -> <<<<f.path, f.field, IndexOf(f)>>>>

convertFilterObjectToSqlEquals(f) == <<<<f.path, f.field>>>>

ParametersOf(f) ==
  IF f.kind = "user" THEN convertUserDefinedFilterToSqlExpression(f) ELSE convertFilterObjectToSqlEquals(f)

(* The values that a filter contributes, by the names it gives to them:    *)
(* those of an IN have no path in their names.                             *)
ValuesOf(f) ==
  LET name(k) == IF f.kind = "user" /\ f.op = "IN" THEN <<<<>>, f.field, k>> ELSE ParametersOf(f)[k]
  IN IF f.op = "OR" THEN {} ELSE {<<name(k), f.values[k]>> : k \in DOMAIN f.values}

Assign(values, f) == {v \in values : \A w \in ValuesOf(f) : w[1] # v[1]} \union ValuesOf(f)

(* An OR contributes nothing and forgets the values gathered before it:    *)
(* the copies of its parts are no instances of UserDefinedFilter.          *)
AssignUser(values, f) == IF f.op = "OR" THEN {} ELSE Assign(values, f)

getFilterValues ==
  LET objects == FoldLeft(Assign, {}, SelectSeq(query.filters, LAMBDA f : f.kind = "object"))
      users == FoldLeft(AssignUser, {}, Users)
  IN users \union {v \in objects : \A w \in users : w[1] # v[1]}

Given(name) == {v[2] : v \in {w \in getFilterValues : w[1] = name}}

(* Filters of the WHERE clause of a table.                                 *)
tryGetWhereClause(t) == {f \in ToSet(query.filters) : f.path = t /\ ~(f.kind = "user" /\ Ignored(f))}

MissingParameter ==
  \E f \in ToSet(query.filters) :
    /\ InStatement(f.path) /\ f \in tryGetWhereClause(f.path)
    /\ \E k \in DOMAIN ParametersOf(f) : Given(ParametersOf(f)[k]) = {}

Fulfils(f, t, key) == \E k \in DOMAIN ParametersOf(f) : Val[t][f.field][key] \in Given(ParametersOf(f)[k])

----------------------------------------------------------------------------
TableOf(p) == IF p \in Arrays THEN p ELSE Front(p)

(* A column or a join condition names a table that is not in the statement.*)
UnknownTable ==
  \/ \E p \in tryGetProjection : ~InStatement(TableOf(p))
  \/ \E t \in getJoinClauses : ~InStatement(Front(t))

(* A table of array values has no other column to sort by than its id.     *)
UnknownColumn == \E t \in Arrays \intersect getJoinClauses : \E s \in ToSet(tryGetOrderByClause(t)) : s.field # "id"

getSqlSelectStatementPartsThrows ==
  InvalidFields(query.include) \/ InvalidFields(query.exclude) \/ InvalidSort \/ MissingPagination

SqlRefuses == getSqlSelectStatementPartsThrows \/ MissingParameter \/ UnknownTable \/ UnknownColumn

(* Rows of one subselect; there is one for each link of a many-to-many     *)
(* relation, and each is limited on its own.                               *)
Lateral(t, parent) ==
  LET matching == {k \in Children(t, parent) : \A f \in tryGetWhereClause(t) : Fulfils(f, t, k)}
      sorted == SortedBy(tryGetOrderByClause(t), t, matching)
  IN IF t \in Links
     THEN IF getPaginationClause(t) # <<>> /\ getPaginationClause(t)[1].offset > 0 THEN <<>> ELSE sorted
     ELSE Paginated(getPaginationClause(t), sorted)

(* The rows of a root entity, given those of the subselects: an entity of  *)
(* every joined table, or none.                                            *)
None == <<0>>
RowsOf(lateral, key) ==
  LET Joined(parent, t) == IF parent = None \/ lateral[t][parent] = <<>> THEN {None} ELSE ToSet(lateral[t][parent])
      Join(rows, t) == UNION {{(t :> k) @@ row : k \in Joined(row[Front(t)], t)} : row \in rows}
  IN FoldLeft(Join, {<<>> :> key}, JoinOrder)

(* The place of a row in a column of the outer ORDER BY: how many values   *)
(* come before its own; NULL is the largest value (PostgreSQL).            *)
PlaceIn(column, row) ==
  LET Smaller(value, key) == {l \in Keys[column.table] : key = None \/ value[l] < value[key]}
      before == Cardinality(Smaller(Val[column.table][column.by.field], row[column.table]))
  IN IF column.by.desc THEN -before ELSE before
PlacesOf(columns, row) == [n \in DOMAIN columns |-> PlaceIn(columns[n], row)]
Before(places, others) ==
  \E n \in DOMAIN places : places[n] < others[n] /\ \A m \in 1..(n - 1) : places[m] = others[m]

(* The order of root entities is that of their first rows; of rows that    *)
(* tie it is that of the subselect.                                        *)
InOrder(keys, rows) ==
  LET Precedes(i, j) ==
        \E row \in rows : row[1] = keys[i] /\ \A other \in rows : other[1] = keys[j] => Before(row[2], other[2])
      order == SetToSortSeq(DOMAIN keys, LAMBDA i, j : Precedes(i, j) \/ (~Precedes(j, i) /\ i < j))
  IN [n \in DOMAIN keys |-> keys[order[n]]]

InOrderOfRows(keys, lateral, columns) ==
  InOrder(keys, UNION {{<<key, PlacesOf(columns, row)>> : row \in RowsOf(lateral, key)} : key \in ToSet(keys)})

(* join-js tells the rows of one entity by its id: entities whose id is    *)
(* not selected become one, of which nothing more is said here.            *)
MergedEntity == <<>>
transformRowsToObjects(t, parent) ==
  LET laterals == [u \in ToSet(JoinOrder) |-> [k \in Keys[Front(u)] |-> Lateral(u, k)]]
      entities == IF t = <<>> THEN InOrderOfRows(Lateral(t, parent), laterals, outerSortBys) ELSE Lateral(t, parent)
  IN IF Append(t, Id[t]) \in tryGetProjection \/ (t = <<>> /\ entities = <<>>)
     THEN entities ELSE <<MergedEntity>>

removeReadDeniedProperties(fields) == {p \in fields : ~Denied(p)}

createResultMaps ==
  {p \in tryGetProjection : \A n \in 1..Len(p) : shouldIncludeField(SubSeq(p, 1, n), query.include, query.exclude)}

SqlAnswer == Answer(removeReadDeniedProperties(createResultMaps), transformRowsToObjects)

----------------------------------------------------------------------------
(* Where an answer is not what was asked for: the id of a shown entity is  *)
(* not among the fields; a many-to-many relation is paginated; filters     *)
(* share the name of a parameter; a name has another one as its start.     *)
IdNotSelected ==
  \E t \in Tables :
    /\ t = <<>> \/ \E p \in tryGetProjection : IsStrictPrefix(t, p)
    /\ Append(t, Id[t]) \notin tryGetProjection
LinksPaginated ==
  \E t \in Links : InStatement(t) /\ \E p \in ToSet(query.paginations) : p.path \in {t, All}
ParameterShared ==
  \E f \in ToSet(query.filters) : \E v \in ValuesOf(f) : Given(v[1]) \ {v[2]} # {}
NameContinued ==
  \E p \in LeafPaths : \E q \in ToSet(query.include) \union ToSet(query.exclude) :
    TextStartsWith(p, q) /\ ~IsPrefix(q, p)

OtherwiseAsked == IdNotSelected \/ LinksPaginated \/ ParameterShared \/ NameContinued

(* The root entities lose their order where joined tables are sorted too:  *)
(* the outer ORDER BY names columns of these only.                         *)
RootOrderLost == outerSortBys # <<>> /\ Len(Lateral(<<>>, <<>>)) > 1

Unordered(lists) == {[l EXCEPT ![3] = IF l[1] = <<>> THEN ToSet(@) ELSE @] : l \in lists}
SameAnswers(sql, asked) ==
  /\ sql.fields = asked.fields
  /\ sql.lists = asked.lists \/ (RootOrderLost /\ Unordered(sql.lists) = Unordered(asked.lists))

(* A statement that the database accepts answers what the query asked for: *)
(* the named properties of the entities that fulfil its filters, cut to    *)
(* its pages and in the order of its sortings, except in the cases above;  *)
(* where RootOrderLost, sub-entities alone are in order                    *)
(* (getSqlSelectStatementParts and transformRowsToObjects).                *)
SqlAnswersAsAsked ==
  \/ SqlRefuses
  \/ OtherwiseAsked
  \/ SameAnswers(SqlAnswer, AskedAnswer)

(* The documented sorting of root entities: they are answered in the order *)
(* of the sortings for the root and for all paths, whatever is sorted      *)
(* besides (docs/api/POST_QUERY_OPERATIONS).  The outer ORDER BY of        *)
(* getSqlSelectStatementParts sorts them by their sub-entities.            *)
SqlKeepsRootOrder ==
  \/ SqlRefuses
  \/ OtherwiseAsked
  \/ transformRowsToObjects(<<>>, <<>>) = AskedList(<<>>, <<>>)

(* What a client can do to be refused: ask for unknown fields or sort by   *)
(* them, paginate only sub-entities, use an OR, compare a property of a    *)
(* sub-entity with IN, ask for properties of a many-to-many relation       *)
(* without its ids, sort everything by a property that the tables of       *)
(* arrays do not have.                                                     *)
UnknownField == \E p \in ToSet(query.include) \union ToSet(query.exclude) : ~\E q \in LeafPaths : IsPrefix(p, q) /\ ~Denied(q)
OrFilter == \E f \in ToSet(query.filters) : f.op = "OR"
InOfSubEntity == \E f \in ToSet(query.filters) : f.op = "IN" /\ f.path # <<>>
LinkWithoutId == \E t \in Links : Append(t, "_id") \notin Asked /\ \E p \in Asked : IsStrictPrefix(t, p)
SortsEverything == \E s \in ToSet(query.sortBys) : s.path = All
PaginatesNotTheRoot == query.paginations # <<>> /\ ~\E p \in ToSet(query.paginations) : p.path \in {<<>>, All}

(* No other query is refused: every table, column and parameter that the   *)
(* text of the statement names is joined, exists and has a value.          *)
SqlRefusesOnly ==
  SqlRefuses => \/ UnknownField \/ InvalidSort \/ PaginatesNotTheRoot
                \/ OrFilter \/ InOfSubEntity \/ LinkWithoutId \/ SortsEverything
=============================================================================
