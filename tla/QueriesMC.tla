----------------------------- MODULE QueriesMC -----------------------------
(* A class with an array of values, sub-entities two levels deep and a     *)
(* many-to-many relation: two root entities, the first with two items, one *)
(* of which has two parts, and two labels.  The class of the items may     *)
(* refer to the table of another one.                                      *)
EXTENDS SqlQuery, MongoDbQuery

Root == <<>>
Items == <<"items">>
PartsOfItems == <<"items", "parts">>
Labels == <<"labels">>

MCTables == {Root, Items, PartsOfItems, Labels}
MCLinks == {Labels}
MCMayRefer == {Items}
MCArrays == {<<"tags">>}
MCLeaves == Root :> {"_id", "name", "nameTag"} @@ Items :> {"id", "name", "secret"}
            @@ PartsOfItems :> {"id", "code"} @@ Labels :> {"_id", "name"}
MCId == Root :> "_id" @@ Items :> "id" @@ PartsOfItems :> "id" @@ Labels :> "_id"
MCReadDenied == {<<"items", "secret">>}
MCNamePrefixes == {<<"name", "nameTag">>}
MCKeys == Root :> {<<1>>, <<2>>} @@ Items :> {<<1, 1>>, <<1, 2>>, <<2, 1>>}
          @@ PartsOfItems :> {<<1, 1, 1>>, <<1, 1, 2>>, <<1, 2, 1>>} @@ Labels :> {<<1, 1>>, <<1, 2>>, <<2, 1>>}

(* Ids grow with the keys and the other values fall.                       *)
Values(t) ==
  [name \in MCLeaves[t] |->
     [key \in MCKeys[t] |-> IF name = MCId[t] THEN Last(key) ELSE 10 - Last(key)]]
MCVal == [t \in MCTables |-> Values(t)]

User(path, field, values) == [path |-> path, kind |-> "user", op |-> "=", field |-> field, values |-> values, or |-> <<>>]
In(path, field, values) == [User(path, field, values) EXCEPT !.op = "IN"]
Or(path, f, g) == [User(path, "", <<>>) EXCEPT !.op = "OR", !.or = <<f, g>>]
Equals(path, field, value) == [User(path, field, <<value>>) EXCEPT !.kind = "object"]
Field(field, value) == [field |-> field, values |-> <<value>>]

Sort(path, field, desc) == [path |-> path, field |-> field, desc |-> desc]
Page(path, page, size) == [path |-> path, page |-> page, size |-> size]

MCParts ==
  [include |-> {<<"_id">>, <<"name">>, <<"nameTag">>, <<"tags">>, Items, <<"items", "id">>, <<"items", "name">>,
                <<"items", "secret">>, <<"items", "parts", "code">>, Labels, <<"labels", "name">>, <<"nope">>},
   exclude |-> {<<"_id">>, <<"name">>, <<"tags">>, Items, <<"items", "id">>, <<"items", "parts">>, <<"labels", "_id">>},
   filters |-> {User(Root, "name", <<9>>), In(Root, "name", <<8, 9>>), In(Root, "name", <<9, 10>>), In(Root, "_id", <<1>>),
                Or(Root, Field("name", 8), Field("_id", 1)), Equals(Root, "nameTag", 9),
                User(Items, "name", <<9>>), In(Items, "name", <<9>>), User(Items, "secret", <<7>>),
                User(Labels, "name", <<8>>)},
   sortBys |-> {Sort(Root, "name", FALSE), Sort(Root, "_id", TRUE), Sort(Items, "name", FALSE), Sort(Labels, "_id", TRUE),
                Sort(All, "name", TRUE), Sort(Root, "nope", FALSE)},
   paginations |-> {Page(Root, 1, 1), Page(Root, 2, 1), Page(Items, 1, 1), Page(Items, 2, 1), Page(Labels, 1, 1),
                    Page(All, 1, 1), Page(PartsOfItems, 2, 1)}]
=============================================================================
