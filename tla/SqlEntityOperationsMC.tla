----------------------- MODULE SqlEntityOperationsMC -----------------------
(* Small instances of SqlEntityOperations.                                 *)
EXTENDS SqlEntityOperations

CONSTANTS alice, bob

NoTables == [root |-> [i \in EntityIds |-> Absent], subs |-> {}, vals |-> {}, links |-> {}]

(* Two entities of two accounts; the first has a child of every kind.      *)
TwoEntities ==
  [root |-> [i \in EntityIds |->
       CASE i = 1 -> [owner |-> alice, version |-> 1, value |-> 1]
         [] i = 2 -> [owner |-> bob, version |-> 1, value |-> 1]
         [] OTHER -> Absent],
   subs |-> {[row |-> 1, fk |-> 1, id |-> 0, value |-> 1]},
   vals |-> {[row |-> 1, fk |-> 1, id |-> 0, value |-> 1]},
   links |-> {[fk |-> 1, link |-> 2], [fk |-> 2, link |-> 2]}]

MCAccounts == {alice}

MCInitialTables == {NoTables, TwoEntities}

Call(fields) ==
  fields @@ [id |-> 0, filter |-> 0, hooked |-> FALSE, owner |-> alice, value |-> 0, values |-> <<>>,
             all |-> FALSE, sub |-> 0, expect |-> 0, tags |-> <<>>, subs |-> {}, links |-> {}]

Users == {alice, NoAccount}

CallsOnOne ==
  {Call([kind |-> k, as |-> u, id |-> 1, hooked |-> h, value |-> 1]) :
     k \in {"get", "delete"}, u \in Users, h \in BOOLEAN}
  \union {Call([kind |-> "update", as |-> u, id |-> i, value |-> 2, expect |-> e, tags |-> <<2, 1>>]) :
     u \in Users, i \in {1, 2}, e \in {0, 1}}
  \union {Call([kind |-> k, as |-> u, id |-> i, tags |-> <<2>>]) :
     k \in {"addValues", "removeValues"}, u \in Users, i \in {1}}
  \union {Call([kind |-> "addSubs", as |-> u, id |-> i, values |-> v]) :
     u \in Users, i \in {1, 2}, v \in {<<1, 2>>, <<1, 1, 1, 1>>}}
  \union {Call([kind |-> "removeSubs", as |-> u, id |-> i, all |-> a]) :
     u \in Users, i \in {1, 2}, a \in BOOLEAN}
  \union {Call([kind |-> "addLinks", as |-> u, id |-> 1, links |-> l]) : u \in Users, l \in {{1, 2}, {2, 3}, {1}}}
  \union {Call([kind |-> "removeLinks", as |-> u, id |-> 1, all |-> a, sub |-> 2]) : u \in Users, a \in BOOLEAN}
  \union {Call([kind |-> "contains", as |-> u, id |-> i, value |-> 1]) : u \in Users, i \in {1, 2}}
  \union {Call([kind |-> "create", as |-> u, owner |-> o, hooked |-> TRUE, value |-> 1,
                values |-> <<1, 2>>, tags |-> <<2, 1>>, links |-> {2}]) : u \in Users, o \in {alice, bob}}

CallsByFilters ==
  {Call([kind |-> k, as |-> u, filter |-> f, hooked |-> h]) :
     k \in {"getByFilters", "getEntities", "deleteByFilters"}, u \in Users, f \in {1, 2}, h \in BOOLEAN}
  \union {Call([kind |-> k, as |-> u, filter |-> 1, value |-> 2]) :
     k \in {"updateByFilters", "updateEntities"}, u \in Users}
  \union {Call([kind |-> k, as |-> u, filter |-> 1]) : k \in {"deleteEntities", "getByIds"}, u \in Users}
  \union {Call([kind |-> k, as |-> u]) : k \in {"deleteAll", "getAll"}, u \in Users}
  \union {Call([kind |-> "addSubsByFilters", as |-> u, filter |-> 1, values |-> <<1>>]) : u \in Users}
  \union {Call([kind |-> "removeSubsByFilters", as |-> u, filter |-> f, all |-> TRUE]) : u \in Users, f \in {1, 2}}

MCOps == CallsOnOne \union CallsByFilters
=============================================================================
