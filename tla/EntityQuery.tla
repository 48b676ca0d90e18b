---------------------------- MODULE EntityQuery ----------------------------
(***************************************************************************)
(* A query that a client composes for getEntitiesByFilters, and what it    *)
(* asks for (docs/api/POST_QUERY_OPERATIONS, USER_DEFINED_FILTERS).        *)
(*                                                                         *)
(* A path is a sequence of property names from the root entity; the paths  *)
(* in Tables are the root and the properties that hold entities.  A stored *)
(* (sub-)entity has a key: the ids from its root entity down to it.        *)
(***************************************************************************)
EXTENDS Integers, Sequences, SequencesExt

CONSTANTS Tables,       \* paths of the root entity (<<>>) and of sub-entities
          Links,        \* those of many-to-many relations
          Arrays,       \* paths of properties with an array of values
          Leaves,       \* names of the other properties, by table
          Id,           \* name of the id property, by table
          ReadDenied,   \* paths of properties that no client may read
          NamePrefixes, \* pairs of names, the first being a prefix of the second
          Keys,         \* keys of the stored entities, by table
          Val,          \* stored values, by table, name and key
          MayRefer,     \* one-to-many relations whose class may refer to the table of another one
          Parts,        \* what a client may put into a query
          MaxParts      \* bound: parts of a query

VARIABLES query,
          references    \* those of MayRefer whose class does, chosen once

All == <<"*">>

(* A part that a client leaves out of its DefaultPostQueryOperationsImpl.  *)
DefaultSortBys == <<[path |-> All, field |-> "_id", desc |-> FALSE], [path |-> All, field |-> "id", desc |-> FALSE]>>
DefaultPaginations == <<[path |-> <<>>, page |-> 1, size |-> 50], [path |-> All, page |-> 1, size |-> 50]>>

sortBys == IF query.sortBys = <<>> THEN DefaultSortBys ELSE query.sortBys
paginations == IF query.paginations = <<>> THEN DefaultPaginations ELSE query.paginations

Init ==
  /\ query = [include |-> <<>>, exclude |-> <<>>, filters |-> <<>>, sortBys |-> <<>>, paginations |-> <<>>]
  /\ references \in SUBSET MayRefer

Size == Len(query.include) + Len(query.exclude) + Len(query.filters) + Len(query.sortBys) + Len(query.paginations)

Compose(name) ==
  \E part \in Parts[name] :
    /\ Size < MaxParts
    /\ ~Contains(query[name], part)
    /\ query' = [query EXCEPT ![name] = Append(@, part)]
    /\ UNCHANGED references

Next == \E name \in DOMAIN query : Compose(name)

Spec == Init /\ [][Next]_<<query, references>>

----------------------------------------------------------------------------
(* The text of path p starts with the text of path q.                      *)
TextStartsWith(p, q) ==
  /\ Len(q) <= Len(p)
  /\ SubSeq(p, 1, Len(q) - 1) = Front(q)
  /\ p[Len(q)] = Last(q) \/ <<Last(q), p[Len(q)]>> \in NamePrefixes

LeafPaths == Arrays \union UNION {{Append(t, name) : name \in Leaves[t]} : t \in Tables}
Denied(p) == \E d \in ReadDenied : IsPrefix(d, p)

(* Fields that the query asks for: included ones that are not excluded.    *)
Asked ==
  {p \in LeafPaths : /\ query.include = <<>> \/ \E i \in ToSet(query.include) : IsPrefix(i, p)
                     /\ ~\E e \in ToSet(query.exclude) : IsPrefix(e, p)
                     /\ ~Denied(p)}

(* An entity satisfies a filter; one on a property of a sub-entity that is *)
(* denied is ignored.                                                      *)
Ignored(filter) == filter.path # <<>> /\ filter.op # "OR" /\ Denied(Append(filter.path, filter.field))
Satisfies(filter, t, key) ==
  CASE filter.op = "OR" -> \E f \in ToSet(filter.or) : Val[t][f.field][key] \in ToSet(f.values)
    [] OTHER -> Ignored(filter) \/ Val[t][filter.field][key] \in ToSet(filter.values)

(* Entities of one parent in the order that was asked for: a property that *)
(* they do not have sorts nothing.                                         *)
Sorting(t) ==
  SelectSeq(SelectSeq(sortBys, LAMBDA s : s.path = t) \o SelectSeq(sortBys, LAMBDA s : s.path = All),
            LAMBDA s : s.field \in Leaves[t])

SortedBy(sorting, t, keys) ==
  LET Smaller(k, l) ==
        \E i \in DOMAIN sorting :
          LET value == Val[t][sorting[i].field] IN
          /\ IF sorting[i].desc THEN value[k] > value[l] ELSE value[k] < value[l]
          /\ \A j \in 1..(i - 1) : Val[t][sorting[j].field][k] = Val[t][sorting[j].field][l]
      Same(k, l) == \A i \in DOMAIN sorting : Val[t][sorting[i].field][k] = Val[t][sorting[i].field][l]
  IN SetToSortSeq(keys, LAMBDA k, l : Smaller(k, l) \/ (Same(k, l) /\ Last(k) < Last(l)))

(* The page of them: entities by their places in the pagination of the     *)
(* path, or else in the one for all; without one of these, all entities.   *)
AskedPage(t, seq) ==
  LET given == SelectSeq(paginations, LAMBDA p : p.path = t) \o SelectSeq(paginations, LAMBDA p : p.path = All)
      OnPage(i) == (i - 1) \div Head(given).size = Head(given).page - 1
      places == SelectSeq([i \in DOMAIN seq |-> i], OnPage)
  IN IF given = <<>> THEN seq ELSE [n \in DOMAIN places |-> seq[places[n]]]

(* What a database leaves of rows: it skips some and limits the others.    *)
Window(seq, skip, limit) ==
  SubSeq(seq, skip + 1, IF skip + limit < Len(seq) THEN skip + limit ELSE Len(seq))

Children(t, parent) == {k \in Keys[t] : Front(k) = parent}

AskedList(t, parent) ==
  LET matching == {k \in Children(t, parent) : \A f \in ToSet(query.filters) : f.path = t => Satisfies(f, t, k)}
  IN AskedPage(t, SortedBy(Sorting(t), t, matching))

(* What is shown of a table of sub-entities, given the list of each parent *)
(* of it: those of parents that are shown themselves.                      *)
Shown(List(_, _), tables) ==
  LET parents(t) == IF t = <<>> THEN {<<>>} ELSE Keys[Front(t)]
      within == UNION {{SubSeq(t, 1, n) : n \in 0..Len(t)} : t \in tables \union {<<>>}}
      lists == UNION {{<<t, parent, List(t, parent)>> : parent \in parents(t)} : t \in within}
      IsShown(t, parent) == \A n \in 1..Len(t) : \E list \in lists :
        /\ list[1] = SubSeq(t, 1, n - 1) /\ list[2] = SubSeq(parent, 1, n - 1)
        /\ Contains(list[3], SubSeq(parent, 1, n))
  IN {list \in lists : list[1] \in tables \union {<<>>} /\ IsShown(list[1], list[2])}

(* An answer: the fields of the entities, and the lists they are in.  A    *)
(* sub-entity of which no field is asked for is not shown.                 *)
Answer(fields, List(_, _)) ==
  [fields |-> fields,
   lists |-> Shown(List, {t \in Tables : \E p \in fields : IsStrictPrefix(t, p)})]

AskedAnswer == Answer(Asked, AskedList)
=============================================================================
