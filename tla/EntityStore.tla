---------------------------- MODULE EntityStore ----------------------------
(***************************************************************************)
(* What a data store promises its caller (docs/api): an operation either   *)
(* does to the stored entities what its description says and answers       *)
(* without an error, or it answers an error and has changed nothing.       *)
(* A caller (a service function execution) makes its calls one at a time;  *)
(* calls of different callers overlap, and each takes effect at one moment *)
(* between its question and its answer.                                    *)
(*                                                                         *)
(* An entity has an owner, a version, a field value, sub-entities          *)
(* (pairs of id and value), the values of an array field, and links to     *)
(* other root entities (a many-to-many relation).                          *)
(***************************************************************************)
EXTENDS Integers, Sequences, FiniteSets, Order

CONSTANTS EntityIds,    \* ids of root entities, positive numbers
          NoAccount,    \* no user account restricts the operation
          Callers,      \* executions of service functions
          Calls,        \* the calls that may be made
          Initial,      \* the stored entities at the start
          MaxSubId      \* bound on ids of sub-entities

VARIABLES entities, call, answer

vars == <<entities, call, answer>>

NoCall == [kind |-> "none"]
Absent == [version |-> 0]
NoAnswer == [status |-> "none", found |-> {}]
Failed == [status |-> "error", found |-> {}]
Answered(ids) == [status |-> "ok", found |-> ids]

Init ==
  /\ entities \in Initial
  /\ call = [c \in Callers |-> NoCall]
  /\ answer = [c \in Callers |-> NoAnswer]

----------------------------------------------------------------------------
(* Entities that a call may touch: its own account's, if it has one.       *)
Owned(op) == {i \in EntityIds : /\ entities[i] # Absent
                                /\ op.as \in {NoAccount, entities[i].owner}}

(* Entities that a call is about, by id or by a filter on the value field; *)
(* zero is no restriction.                                                 *)
Matching(op) == {i \in Owned(op) : /\ op.id \in {0, i}
                                   /\ op.filter \in {0, entities[i].value}}

(* The entity that a call for one entity is about.                         *)
First(ids) == {i \in ids : \A j \in ids : i <= j}

(* One entity changes and gets the next version.                           *)
Updated(i, fields) ==
  entities' = [entities EXCEPT ![i] =
    [name \in DOMAIN @ |-> IF name = "version" THEN @.version + 1
                           ELSE IF name \in DOMAIN fields THEN fields[name] ELSE @[name]]]

Removed(ids) == entities' = [i \in EntityIds |-> IF i \in ids THEN Absent ELSE entities[i]]

(* A new entity; ids of sub-entities count from zero.                      *)
Created(c, op) ==
  /\ op.as \in {NoAccount, op.owner}
  /\ \E i \in EntityIds :
       /\ entities[i] = Absent
       /\ entities' = [entities EXCEPT ![i] =
            [owner |-> op.owner, version |-> 1, value |-> op.value,
             subs |-> {<<k - 1, op.values[k]>> : k \in DOMAIN op.values},
             tags |-> op.tags, links |-> op.links]]
       /\ answer' = [answer EXCEPT ![c] = Answered({i})]

(* Added sub-entities get ids, in their order, that no other one has.      *)
SubEntitiesAdded(op, i) ==
  \E first \in 0..MaxSubId :
    /\ \A sub \in entities[i].subs, k \in DOMAIN op.values : sub[1] < first + k - 1
    /\ Updated(i, [subs |-> entities[i].subs \union
                     {<<first + k - 1, op.values[k]>> : k \in DOMAIN op.values}])

(* The one sub-entity with the id, or all of them.                         *)
SubEntitiesRemoved(op, i) ==
  Updated(i, [subs |-> {sub \in entities[i].subs : ~op.all /\ sub[1] # op.sub}])

(* Given fields replace the stored ones, if the version is the expected.   *)
EntityUpdated(op, i) ==
  /\ op.expect \in {0, entities[i].version}
  /\ Updated(i, [value |-> IF op.value = 0 THEN entities[i].value ELSE op.value,
                 tags |-> IF op.tags = <<>> THEN entities[i].tags ELSE op.tags,
                 subs |-> IF op.subs = {} THEN entities[i].subs ELSE op.subs])

(* Every matching entity gets the value.                                   *)
AllUpdated(op) ==
  entities' = [i \in EntityIds |->
    IF i \in Matching(op)
    THEN [entities[i] EXCEPT !.value = op.value, !.version = @ + 1] ELSE entities[i]]

(* The entity that was asked for, changed as the kind of the call says.    *)
OneChanged(c, op) ==
  \E i \in First(Matching(op)) :
    /\ \/ op.kind \in {"addSubs", "addSubsByFilters"} /\ SubEntitiesAdded(op, i)
       \/ op.kind \in {"removeSubs", "removeSubsByFilters"} /\ SubEntitiesRemoved(op, i)
       \/ op.kind = "update" /\ EntityUpdated(op, i)
       \/ op.kind = "addValues" /\ Updated(i, [tags |-> entities[i].tags \o op.tags])
       \/ op.kind = "removeValues" /\ Updated(i, [tags |-> Without(entities[i].tags, op.tags)])
       \/ op.kind = "addLinks" /\ Updated(i, [links |-> entities[i].links \union op.links])
       \/ op.kind = "removeLinks" /\ Updated(i, [links |-> {l \in entities[i].links : ~op.all /\ l # op.sub}])
    /\ answer' = [answer EXCEPT ![c] = Answered({})]

(* An entity that matches is deleted; whether the others that match are    *)
(* deleted with it differs between the data stores.                        *)
SomeRemoved(op) ==
  \E ids \in SUBSET Matching(op) : (ids = {} => Matching(op) = {}) /\ Removed(ids)

(* The entities that a reading call answers.                               *)
Found(op) ==
  CASE op.kind \in {"get", "getByFilters"} -> First(Matching(op))
    [] op.kind = "contains" -> {i \in Matching(op) : \E k \in DOMAIN entities[i].tags :
                                                        entities[i].tags[k] = op.value}
    [] OTHER -> Matching(op)

Performed(c, op) ==
  \/ op.kind = "create" /\ Created(c, op)
  \/ OneChanged(c, op)
  \/ /\ answer' = [answer EXCEPT ![c] = Answered({})]
     /\ \/ op.kind = "removeSubsByFilters" /\ Matching(op) = {} /\ UNCHANGED entities
        \/ op.kind = "updateByFilters" /\ Matching(op) # {} /\ AllUpdated(op)
        \/ op.kind = "updateEntities" /\ AllUpdated(op)
        \/ op.kind \in {"delete", "deleteEntities", "deleteAll"} /\ Removed(Matching(op))
        \/ op.kind = "deleteByFilters" /\ SomeRemoved(op)
  \/ /\ op.kind \in {"get", "getByFilters", "getEntities", "getByIds", "getAll", "count", "contains"}
     /\ op.kind \in {"get", "getByFilters"} => Found(op) # {}
     /\ answer' = [answer EXCEPT ![c] = Answered(Found(op))]
     /\ UNCHANGED entities

----------------------------------------------------------------------------
Ask(c, op) ==
  /\ call[c] = NoCall
  /\ call' = [call EXCEPT ![c] = op]
  /\ answer' = [answer EXCEPT ![c] = NoAnswer]
  /\ UNCHANGED entities

Perform(c) ==
  /\ call[c] # NoCall
  /\ Performed(c, call[c])
  /\ call' = [call EXCEPT ![c] = NoCall]

Refuse(c) ==
  /\ call[c] # NoCall
  /\ call' = [call EXCEPT ![c] = NoCall]
  /\ answer' = [answer EXCEPT ![c] = Failed]
  /\ UNCHANGED entities

Next == \E c \in Callers : (\E op \in Calls : Ask(c, op)) \/ Perform(c) \/ Refuse(c)

Spec == Init /\ [][Next]_vars

----------------------------------------------------------------------------
(* What remains of the promise where nothing is undone: an operation that  *)
(* has taken effect may still be answered with an error.                   *)
Deny(c) ==
  /\ call[c] = NoCall /\ answer[c].status = "ok"
  /\ answer' = [answer EXCEPT ![c] = Failed]
  /\ UNCHANGED <<entities, call>>

SpecWithoutUndo == Init /\ [][Next \/ \E c \in Callers : Deny(c)]_vars
=============================================================================
