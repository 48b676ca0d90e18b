--------------------- MODULE MongoDbEntityOperationsMC ---------------------
(* Small instances of MongoDbEntityOperations.                             *)
EXTENDS MongoDbEntityOperations, TLC

CONSTANTS c1, c2

Symmetry == Permutations({c1, c2})

Document(value, subs, tags, links) ==
  [owner |-> NoAccount, version |-> 1, value |-> value, subs |-> subs, tags |-> tags, links |-> links]

MCInitialDocs ==
  {[i \in EntityIds |->
     CASE i = 1 -> Document(1, {<<0, 0, 1>>}, <<1>>, {2})
       [] i = 2 -> Document(1, {<<0, 1, 1>>}, <<>>, {})
       [] OTHER -> Absent]}

Call(fields) ==
  fields @@ [id |-> 0, filter |-> 0, hooked |-> FALSE, owner |-> NoAccount, as |-> NoAccount, value |-> 0,
             values |-> <<>>, all |-> FALSE, sub |-> 0, expect |-> 0, bare |-> FALSE, tags |-> <<>>, subs |-> {}, links |-> {}]

MCQueries ==
  {Call([kind |-> "get", id |-> 1, hooked |-> ~b, bare |-> b]) : b \in BOOLEAN}
  \union {Call([kind |-> "getByFilters", filter |-> 1])}
  \union {Call([kind |-> k, filter |-> 1]) : k \in {"getEntities", "count"}}
  \union {Call([kind |-> "getAll"]), Call([kind |-> "contains", id |-> 1, value |-> 1]),
          Call([kind |-> "getByIds", id |-> 2])}

MCChangesOfOne ==
  {Call([kind |-> "update", id |-> 1, value |-> 2, expect |-> e, hooked |-> e = 0]) : e \in {0, 1}}
  \union {Call([kind |-> "update", id |-> i, subs |-> {<<0, 2>>}, hooked |-> TRUE]) : i \in {1, 2}}
  \union {Call([kind |-> "addValues", id |-> 1, tags |-> <<2>>]),
          Call([kind |-> "addValues", id |-> 2, tags |-> <<2>>, hooked |-> TRUE]),
          Call([kind |-> "removeValues", id |-> 1, tags |-> <<1>>, hooked |-> TRUE])}
  \union {Call([kind |-> "addLinks", id |-> 1, links |-> {1}]), Call([kind |-> "removeLinks", id |-> 1, sub |-> 2])}
  \union {Call([kind |-> "removeSubs", id |-> 1, sub |-> 0, all |-> a]) : a \in BOOLEAN}
  \union {Call([kind |-> "removeSubsByFilters", filter |-> 1, sub |-> 0])}
  \union {Call([kind |-> "addSubs", id |-> 1, values |-> <<2>>, all |-> a]) : a \in BOOLEAN}
  \union {Call([kind |-> "addSubsByFilters", filter |-> 1, values |-> <<2>>, all |-> TRUE])}
  \union {Call([kind |-> "delete", id |-> 1, hooked |-> h]) : h \in BOOLEAN}
  \union {Call([kind |-> "create", value |-> 1, values |-> v, tags |-> <<1>>, hooked |-> v = <<>>]) : v \in {<<>>, <<1>>}}

MCChangesOfMany ==
  {Call([kind |-> k, filter |-> 1, value |-> 2]) : k \in {"updateByFilters", "updateEntities"}}
  \union {Call([kind |-> k, filter |-> 1]) : k \in {"deleteByFilters", "deleteEntities"}}
  \union {Call([kind |-> "deleteAll"])}

MCOps == MCQueries \union MCChangesOfOne \union MCChangesOfMany
=============================================================================
