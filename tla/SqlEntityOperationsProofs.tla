--------------------- MODULE SqlEntityOperationsProofs ---------------------
(***************************************************************************)
(* Proofs about SqlEntityOperations, for all operations, entities, rows    *)
(* and numbers of calls and failing statements.                            *)
(***************************************************************************)
EXTENDS SqlEntityOperations, TLAPS, FiniteSetTheorems, SequenceTheorems, WellFoundedInduction

AccountType == Accounts \union {NoAccount}

(* Phases of an operation that has sent BEGIN, if it sends one.            *)
Begun == {"check", "read", "hooks", "insert", "version", "send", "run", "query",
          "posthook", "commit", "failing"}

(* What the phase tells of the kind of the operation and its transaction.  *)
PhaseInv ==
  /\ user \in AccountType /\ saved \in AccountType
  /\ call \in Ops \union {NoCall}
  /\ phase \in {"check", "insert"} => call.kind = "create"
  /\ phase = "read" => call.kind \notin (Queries \ {"contains"}) \union {"create"}
  /\ phase = "version" => call.kind \in AddingOrRemovingSubs
  /\ phase \in {"check", "hooks", "insert", "version", "send", "run"} => call.kind \notin Queries
  /\ phase \in {"posthook", "commit", "failing"} => InTransaction(call)
  /\ phase \in Begun /\ InTransaction(call) => tx # "none"
  /\ phase \in {"begin", "check", "hooks", "insert"} /\ call.kind = "create" =>
       serial.root \in EntityIds

TypeInv == TypeOK /\ PhaseInv

----------------------------------------------------------------------------
(* Types                                                                   *)

(* No call of a service function is "no call".                             *)
LEMMA OpsAreCalls ==
  ASSUME NEW op \in Ops
  PROVE  /\ op # NoCall /\ op.kind \in Kinds /\ op.hooked \in BOOLEAN
         /\ op.kind \notin Queries => InTransaction(op)
<1>1. op.kind \in Kinds /\ op.hooked \in BOOLEAN
  BY OpsAssumption
<1>2. "none" \notin Kinds
  BY DEF Kinds, Queries, AddingOrRemovingSubs, AddingSubs, RemovingSubs, ChangingValues, Deleting, DeletingOne
<1>3. NoCall.kind = "none"
  BY DEF NoCall
<1> QED
  BY <1>1, <1>2, <1>3 DEF InTransaction

(* The initial state.                                                      *)
LEMMA TypeInvInit == Init => TypeInv
<1> SUFFICES ASSUME Init PROVE TypeInv
  OBVIOUS
<1>1. TypeOK
  BY DEF Init, TypeOK
<1>2. PhaseInv
  BY DEF Init, PhaseInv, AccountType, Begun
<1> QED
  BY <1>1, <1>2 DEF TypeInv

(* An operation that fails before it has sent its parallel statements, or  *)
(* after they are answered, is answered or waits for the ROLLBACK.         *)
LEMMA FailStep ==
  ASSUME Fail, call \in Ops
  PROVE  \/ phase' = "idle" /\ call' = NoCall /\ answer' = Failed /\ queue' = queue
            /\ (tx = "none" \/ ~InTransaction(call))
         \/ phase' = "failing" /\ call' = call /\ answer' = answer /\ tx # "none"
            /\ InTransaction(call) /\ queue' = Append(queue, Rollback)
  BY DEF Fail, Answer

(* Every step keeps TypeInv.                                               *)
LEMMA TypeInvStep ==
  ASSUME TypeInv, [Next]_vars
  PROVE  TypeInv'
<1> USE DEF TypeInv, TypeOK, PhaseInv, Begun, AccountType
<1>0. phase # "idle" => call \in Ops /\ call # NoCall
  OBVIOUS
<1>00. phase # "idle" /\ call.kind \notin Queries => InTransaction(call)
  BY <1>0, OpsAreCalls
<1>1. ASSUME NEW op \in Ops, Ask(op) PROVE TypeInv'
  BY <1>1, OpsAreCalls DEF Ask
<1>2. CASE Begin
  BY <1>0, <1>00, <1>2, OpsAreCalls DEF Begin, ReadsFirst, Kinds, Queries, InTransaction,
    ChangingValues, AddingOrRemovingSubs, AddingSubs, RemovingSubs, DeletingOne
<1>3. CASE BeginFails
  BY <1>3 DEF BeginFails, AStatementFails, Answer
<1>4. CASE CheckOwner
  BY <1>0, <1>4, FailStep DEF CheckOwner, Queries
<1>5. CASE ReadEntity
  <2>1. /\ call \in Ops /\ call # NoCall /\ call.kind \notin (Queries \ {"contains"}) \union {"create"}
        /\ InTransaction(call) => tx # "none"
    BY <1>0, <1>5 DEF ReadEntity
  <2>2. ASSUME seen' \in First(Where(work, call, account)),
               phase' = IF call.kind = "contains" THEN "query" ELSE "hooks",
               UNCHANGED <<call, queue, answer>>
        PROVE  TypeInv'
    <3>1. seen' \in EntityIds
      BY <2>2 DEF First, Where
    <3>2. phase' = "query" \/ (phase' = "hooks" /\ call.kind \notin Queries)
      BY <2>1, <2>2 DEF Queries
    <3> QED
      BY <1>5, <2>1, <2>2, <3>1, <3>2 DEF ReadEntity
  <2>3. CASE seen' = 0 /\ call.kind = "removeSubsByFilters" /\ phase' = "send"
             /\ UNCHANGED <<call, queue, answer>>
    BY <1>5, <2>1, <2>3 DEF ReadEntity, Queries
  <2>4. CASE seen' = 0 /\ Fail
    BY <1>5, <2>1, <2>4, FailStep DEF ReadEntity
  <2> QED
    BY <1>5, <2>2, <2>3, <2>4 DEF ReadEntity
<1>6. CASE ReadEntityFails
  BY <1>0, <1>6, FailStep DEF ReadEntityFails, Queries, AStatementFails
<1>7. CASE PreHooksPass
  BY <1>0, <1>7, FailStep DEF PreHooksPass
<1>8. CASE PreHookRefuses
  BY <1>0, <1>8, FailStep DEF PreHookRefuses
<1>9. CASE InsertRoot
  BY <1>0, <1>00, <1>9 DEF InsertRoot
<1>10. CASE UpdateVersion
  BY <1>0, <1>00, <1>10, FailStep DEF UpdateVersion
<1>11. CASE WriteFails
  BY <1>0, <1>11, FailStep DEF WriteFails, AStatementFails
<1>12. CASE Send
  BY <1>0, <1>12 DEF Send
<1>13. CASE Execute
  BY <1>0, <1>13 DEF Execute
<1>14. CASE ExecuteFails
  BY <1>0, <1>00, <1>14 DEF ExecuteFails, BranchFails, AStatementFails
<1>15. CASE ExecuteRollback
  BY <1>0, <1>15 DEF ExecuteRollback, Answer
<1>16. CASE AllAnswered
  BY <1>0, <1>00, <1>16 DEF AllAnswered
<1>17. CASE ReadBackFails
  BY <1>0, <1>00, <1>17 DEF ReadBackFails, AStatementFails
<1>18. CASE PostHookPasses
  BY <1>0, <1>18 DEF PostHookPasses
<1>19. CASE PostHookRefuses
  BY <1>0, <1>19, FailStep DEF PostHookRefuses
<1>20. CASE PostHookThrows
  BY <1>0, <1>20, FailStep DEF PostHookThrows
<1>21. CASE Commit
  BY <1>0, <1>21 DEF Commit, Answer
<1>22. CASE CommitFails
  BY <1>0, <1>22, FailStep DEF CommitFails, AStatementFails
<1>23. CASE Query
  BY <1>0, <1>23 DEF Query, Answer
<1>24. CASE QueryFindsNothing
  BY <1>0, <1>24 DEF QueryFindsNothing, Answer
<1>25. CASE QueryFails
  BY <1>0, <1>25, FailStep DEF QueryFails, AStatementFails
<1>26. CASE UNCHANGED vars
  BY <1>26 DEF vars, InTransaction
<1> QED
  BY <1>1, <1>2, <1>3, <1>4, <1>5, <1>6, <1>7, <1>8, <1>9, <1>10, <1>11, <1>12, <1>13, <1>14, <1>15,
     <1>16, <1>17, <1>18, <1>19, <1>20, <1>21, <1>22, <1>23, <1>24, <1>25, <1>26
  DEF Next, DataStoreStep

(* TypeInv is an invariant.                                                *)
THEOREM TypeInvariant == Spec => []TypeInv
  BY TypeInvInit, TypeInvStep, PTL DEF Spec

(* Every variable keeps its type, and rows that no transaction has changed *)
(* are the committed ones, whatever statement fails.                       *)
THEOREM TypeCorrect == Spec => []TypeOK
<1>1. TypeInv => TypeOK
  BY DEF TypeInv
<1> QED
  BY <1>1, TypeInvariant, PTL
----------------------------------------------------------------------------
(* Sequences of statements                                                 *)

Elements(q) == {q[k] : k \in DOMAIN q}

IsSequence(q) == q \in Seq(Elements(q))

(* What a sequence of statements is.                                       *)
LEMMA SequenceFacts ==
  ASSUME NEW q, IsSequence(q)
  PROVE  /\ Len(q) \in Nat /\ DOMAIN q = 1..Len(q)
         /\ q # <<>> <=> Len(q) # 0
         /\ q # <<>> => /\ Head(q) = q[1]
                        /\ IsSequence(Tail(q)) /\ Len(Tail(q)) = Len(q) - 1
                        /\ \A k \in 1..(Len(q) - 1) : Tail(q)[k] = q[k + 1]
<1> DEFINE S == Elements(q)
<1>1. q \in Seq(S)
  BY DEF IsSequence
<1>2. Len(q) \in Nat /\ DOMAIN q = 1..Len(q)
  BY <1>1, LenProperties
<1>3. q # <<>> <=> Len(q) # 0
  BY <1>1, EmptySeq
<1>4. ASSUME q # <<>>
      PROVE  /\ Head(q) = q[1]
             /\ IsSequence(Tail(q)) /\ Len(Tail(q)) = Len(q) - 1
             /\ \A k \in 1..(Len(q) - 1) : Tail(q)[k] = q[k + 1]
  <2>1. /\ Tail(q) \in Seq(S) /\ Len(Tail(q)) = Len(q) - 1
        /\ \A k \in 1..(Len(q) - 1) : Tail(q)[k] = q[k + 1]
    BY <1>1, <1>4, HeadTailProperties
  <2>2. Head(q) = q[1]
    BY <1>1, <1>4
  <2>3. Tail(q) \in [1..Len(Tail(q)) -> S] /\ Len(Tail(q)) \in Nat
    BY <2>1, LenProperties
  <2>4. Tail(q) \in [1..Len(Tail(q)) -> Elements(Tail(q))]
    BY <2>3 DEF Elements
  <2>5. IsSequence(Tail(q))
    BY <2>3, <2>4, SeqDef DEF IsSequence
  <2> QED
    BY <2>1, <2>2, <2>5
<1> QED
  BY <1>2, <1>3, <1>4

(* What is on 1..n is a sequence.                                          *)
LEMMA FunctionIsSequence ==
  ASSUME NEW n \in Nat, NEW q, q = [k \in 1..n |-> q[k]]
  PROVE  IsSequence(q) /\ Len(q) = n
<1>1. q \in [1..n -> Elements(q)]
  BY DEF Elements
<1>2. q \in Seq(Elements(q))
  BY <1>1, SeqDef
<1>3. DOMAIN q = 1..n /\ DOMAIN q = 1..Len(q) /\ Len(q) \in Nat
  BY <1>1, <1>2, LenProperties
<1> QED
  BY <1>2, <1>3 DEF IsSequence

(* One more statement at the end.                                          *)
LEMMA AppendFacts ==
  ASSUME NEW q, IsSequence(q), NEW s
  PROVE  /\ IsSequence(Append(q, s)) /\ Len(Append(q, s)) = Len(q) + 1
         /\ \A k \in 1..Len(q) : Append(q, s)[k] = q[k]
         /\ Append(q, s)[Len(q) + 1] = s
         /\ q \o <<s>> = Append(q, s)
         /\ q \o <<>> = q
<1> DEFINE S == Elements(q) \union {s}
<1>1. q \in Seq(S) /\ s \in S
  BY SeqMonotonic DEF IsSequence
<1>2. /\ Append(q, s) \in Seq(S) /\ Len(Append(q, s)) = Len(q) + 1
      /\ \A k \in 1..Len(q) : Append(q, s)[k] = q[k]
      /\ Append(q, s)[Len(q) + 1] = s
  BY <1>1, AppendProperties
<1>3. /\ Append(q, s) = [k \in 1..(Len(q) + 1) |-> Append(q, s)[k]]
      /\ Len(q) + 1 \in Nat
  BY <1>1, <1>2, LenProperties
<1>4. IsSequence(Append(q, s))
  BY <1>3, FunctionIsSequence
<1>5. q \o <<s>> = Append(q, s)
  BY <1>1, AppendIsConcat
<1>6. q \o <<>> = q
  BY <1>1, ConcatEmptySeq
<1> QED
  BY <1>2, <1>4, <1>5, <1>6

(* Two sequences, one after the other.                                     *)
LEMMA ConcatFacts ==
  ASSUME NEW q, IsSequence(q), NEW p, IsSequence(p)
  PROVE  /\ IsSequence(q \o p) /\ Elements(q \o p) = Elements(q) \union Elements(p)
<1> DEFINE S == Elements(q) \union Elements(p)
<1>1. q \in Seq(S) /\ p \in Seq(S)
  BY SeqMonotonic DEF IsSequence
<1>2. /\ q \o p \in Seq(S) /\ Len(q \o p) = Len(q) + Len(p)
      /\ \A k \in 1..(Len(q) + Len(p)) :
           (q \o p)[k] = IF k <= Len(q) THEN q[k] ELSE p[k - Len(q)]
  BY <1>1, ConcatProperties
<1>3. /\ Len(q) \in Nat /\ Len(p) \in Nat /\ DOMAIN q = 1..Len(q) /\ DOMAIN p = 1..Len(p)
      /\ DOMAIN (q \o p) = 1..(Len(q) + Len(p))
      /\ q \o p \in [1..(Len(q) + Len(p)) -> S]
  BY <1>1, <1>2, LenProperties
<1>4. IsSequence(q \o p)
  <2> DEFINE n == Len(q) + Len(p)
  <2>1. n \in Nat /\ q \o p \in [1..n -> S]
    BY <1>3
  <2> HIDE DEF n, S
  <2>2. q \o p = [k \in 1..n |-> (q \o p)[k]]
    BY <2>1
  <2> QED
    BY <2>1, <2>2, FunctionIsSequence
<1>5. ASSUME NEW x \in Elements(q \o p) PROVE x \in S
  BY <1>3 DEF Elements
<1>6. ASSUME NEW k \in 1..Len(q) PROVE q[k] \in Elements(q \o p)
  BY <1>2, <1>3 DEF Elements
<1>7. ASSUME NEW k \in 1..Len(p) PROVE p[k] \in Elements(q \o p)
  <2>1. Len(q) + k \in 1..(Len(q) + Len(p)) /\ ~(Len(q) + k <= Len(q)) /\ Len(q) + k - Len(q) = k
    BY <1>3
  <2>2. (q \o p)[Len(q) + k] = p[k]
    BY <1>2, <2>1
  <2> QED
    BY <1>3, <2>1, <2>2 DEF Elements
<1>8. S \subseteq Elements(q \o p)
  BY <1>3, <1>6, <1>7 DEF Elements
<1> QED
  BY <1>4, <1>5, <1>8

(* SetToSeq makes a sequence of the elements of a finite set.              *)
LEMMA SetToSeqFacts ==
  ASSUME NEW S, IsFiniteSet(S)
  PROVE  /\ IsSequence(SetToSeq(S)) /\ Elements(SetToSeq(S)) \subseteq S
         /\ DOMAIN SetToSeq(S) = 1..Cardinality(S) /\ Cardinality(S) \in Nat
<1>1. Cardinality(S) \in Nat /\ ExistsBijection(1..Cardinality(S), S)
  BY FS_CardinalityType
<1>2. \E f \in [1..Cardinality(S) -> S] : IsInjective(f)
  BY <1>1 DEF ExistsBijection, Bijection, Injection
<1>3. SetToSeq(S) \in [1..Cardinality(S) -> S]
  BY <1>2 DEF SetToSeq
<1>4. IsSequence(SetToSeq(S))
  BY <1>1, <1>3, FunctionIsSequence
<1> QED
  BY <1>1, <1>3, <1>4 DEF Elements
----------------------------------------------------------------------------
(* What statements do to the rows                                          *)

(* Kinds whose statements name the entity that was read or created.        *)
Growing == {"create", "update"} \union ChangingValues \union AddingSubs

Children == {"deleteSubs", "deleteValues", "deleteLinks"}

StatementsOf(kind) ==
  CASE kind = "create" -> {"insertSub", "insertValue", "insertLink"}
    [] kind = "addSubs" -> {"insertSub"}
    [] kind = "addSubsByFilters" -> {"insertSub", "selectSub"}
    [] kind = "addLinks" -> {"selectLink", "insertLink"}
    [] kind = "update" -> {"replaceValue", "insertValue", "updateRoot"}
    [] kind = "addValues" -> {"insertValue", "updateRoot"}
    [] kind = "removeValues" -> {"deleteValue", "updateRoot"}
    [] kind \in RemovingSubs -> {"deleteSubRow", "deleteLink"}
    [] kind \in {"updateByFilters", "updateEntities"} -> {"updateRoots"}
    [] kind \in Deleting -> Children \union {"deleteRoots"}
    [] OTHER -> {}

(* s is a statement of op, which has read or created entity i.             *)
Fits(op, i, s) ==
  /\ s.do \in StatementsOf(op.kind)
  /\ op.kind \in Growing /\ s.do # "selectSub" => s.fk = i
  /\ s.do = "insertSub" /\ op.kind # "addSubsByFilters" => s.readBack = FALSE
  /\ s.do = "updateRoot" => s.version \in Nat \ {0}
  /\ op.kind = "addLinks" => /\ s.link \in op.links
                             /\ s.do = "insertLink" => s.link \in Linkable

Exists(t, i) == i \in EntityIds /\ t.root[i] # Absent

(* No row of a child table belongs to one of the entities.                 *)
ChildlessIn(rows, ids) == \A r \in rows : r.fk \notin ids

(* A change of one table, of rows that belong to entities.                 *)
LEMMA SubsReplaced ==
  ASSUME NEW t, WellFormed(t), NoOrphansIn(t), NEW x, IsFiniteSet(x), \A r \in x : Exists(t, r.fk)
  PROVE  LET u == [t EXCEPT !.subs = x] IN
           /\ WellFormed(u) /\ NoOrphansIn(u)
           /\ u.root = t.root /\ u.subs = x /\ u.vals = t.vals /\ u.links = t.links
<1> DEFINE u == [t EXCEPT !.subs = x]
<1>1. /\ DOMAIN u = {"root", "subs", "vals", "links"}
      /\ u.root = t.root /\ u.subs = x /\ u.vals = t.vals /\ u.links = t.links
  BY DEF WellFormed
<1> HIDE DEF u
<1>2. WellFormed(u) /\ NoOrphansIn(u)
  BY <1>1 DEF WellFormed, NoOrphansIn, Exists
<1> QED
  BY <1>1, <1>2 DEF u

(* Other rows of values, of stored entities.                               *)
LEMMA ValsReplaced ==
  ASSUME NEW t, WellFormed(t), NoOrphansIn(t), NEW x, \A r \in x : Exists(t, r.fk)
  PROVE  LET u == [t EXCEPT !.vals = x] IN
           /\ WellFormed(u) /\ NoOrphansIn(u)
           /\ u.root = t.root /\ u.subs = t.subs /\ u.vals = x /\ u.links = t.links
<1> DEFINE u == [t EXCEPT !.vals = x]
<1>1. /\ DOMAIN u = {"root", "subs", "vals", "links"}
      /\ u.root = t.root /\ u.subs = t.subs /\ u.vals = x /\ u.links = t.links
  BY DEF WellFormed
<1> HIDE DEF u
<1>2. WellFormed(u) /\ NoOrphansIn(u)
  BY <1>1 DEF WellFormed, NoOrphansIn, Exists
<1> QED
  BY <1>1, <1>2 DEF u

(* Other rows of links, of stored entities.                                *)
LEMMA LinksReplaced ==
  ASSUME NEW t, WellFormed(t), NoOrphansIn(t), NEW x, IsFiniteSet(x), \A r \in x : Exists(t, r.fk)
  PROVE  LET u == [t EXCEPT !.links = x] IN
           /\ WellFormed(u) /\ NoOrphansIn(u)
           /\ u.root = t.root /\ u.subs = t.subs /\ u.vals = t.vals /\ u.links = x
<1> DEFINE u == [t EXCEPT !.links = x]
<1>1. /\ DOMAIN u = {"root", "subs", "vals", "links"}
      /\ u.root = t.root /\ u.subs = t.subs /\ u.vals = t.vals /\ u.links = x
  BY DEF WellFormed
<1> HIDE DEF u
<1>2. WellFormed(u) /\ NoOrphansIn(u)
  BY <1>1 DEF WellFormed, NoOrphansIn, Exists
<1> QED
  BY <1>1, <1>2 DEF u

(* Other root rows, as long as no child loses its own.                     *)
LEMMA RootsReplaced ==
  ASSUME NEW t, WellFormed(t), NoOrphansIn(t), NEW x, x = [i \in EntityIds |-> x[i]],
         \A i \in EntityIds : x[i] = Absent \/
           ("version" \in DOMAIN x[i] /\ x[i].version \in Nat \ {0}),
         \A r \in t.subs \union t.vals \union t.links : x[r.fk] # Absent
  PROVE  LET u == [t EXCEPT !.root = x] IN
           /\ WellFormed(u) /\ NoOrphansIn(u)
           /\ u.root = x /\ u.subs = t.subs /\ u.vals = t.vals /\ u.links = t.links
<1> DEFINE u == [t EXCEPT !.root = x]
<1>1. /\ DOMAIN u = {"root", "subs", "vals", "links"}
      /\ u.root = x /\ u.subs = t.subs /\ u.vals = t.vals /\ u.links = t.links
  BY DEF WellFormed
<1> HIDE DEF u
<1>2. WellFormed(u) /\ NoOrphansIn(u)
  BY <1>1 DEF WellFormed, NoOrphansIn
<1> QED
  BY <1>1, <1>2 DEF u

(* What a statement leaves of the children of entities.                    *)
Cleared(t, s, u) ==
  /\ s.do \in Children => /\ u.subs \subseteq t.subs /\ u.vals \subseteq t.vals
                          /\ u.links \subseteq t.links
  /\ s.do = "deleteSubs" => ChildlessIn(u.subs, Targets(t, s.op, s.as))
  /\ s.do = "deleteValues" => ChildlessIn(u.vals, Targets(t, s.op, s.as))
  /\ s.do = "deleteLinks" => ChildlessIn(u.links, Targets(t, s.op, s.as))

(* Statements on children add rows of an entity that exists, or take rows  *)
(* away.                                                                   *)
LEMMA ChildrenChange ==
  ASSUME NEW t, WellFormed(t), NoOrphansIn(t), NEW s,
         s.do \in {"insertSub", "insertValue", "insertLink"} => Exists(t, s.fk),
         s.do \notin {"updateRoot", "updateRoots", "updateSubs", "deleteRoots"}
  PROVE  /\ WellFormed(Effect(t, s)) /\ NoOrphansIn(Effect(t, s))
         /\ Effect(t, s).root = t.root /\ Cleared(t, s, Effect(t, s))
<1>1. IsFiniteSet(t.subs) /\ IsFiniteSet(t.links)
  BY DEF WellFormed
<1>2. \A r \in t.subs \union t.vals \union t.links : Exists(t, r.fk)
  BY DEF NoOrphansIn, Exists
<1>3. CASE s.do = "insertSub"
  <2> DEFINE r == [row |-> serial.sub, fk |-> s.fk, id |-> s.id, value |-> s.value]
             x == t.subs \union {r}
  <2>1. Effect(t, s) = [t EXCEPT !.subs = x]
    BY <1>3 DEF Effect
  <2>2. r.fk = s.fk
    OBVIOUS
  <2> HIDE DEF r
  <2>3. IsFiniteSet(x) /\ \A q \in x : Exists(t, q.fk)
    BY <1>1, <1>2, <1>3, <2>2, FS_AddElement
  <2> HIDE DEF x
  <2>4. /\ WellFormed(Effect(t, s)) /\ NoOrphansIn(Effect(t, s)) /\ Effect(t, s).root = t.root
    BY <2>1, <2>3, SubsReplaced
  <2> QED
    BY <1>3, <2>4 DEF Cleared, Children
<1>4. CASE s.do = "insertValue"
  <2> DEFINE r == [row |-> serial.val, fk |-> s.fk, id |-> s.id, value |-> s.value]
             x == t.vals \union {r}
  <2>1. Effect(t, s) = [t EXCEPT !.vals = x]
    BY <1>4 DEF Effect
  <2>2. r.fk = s.fk
    OBVIOUS
  <2> HIDE DEF r
  <2>3. \A q \in x : Exists(t, q.fk)
    BY <1>2, <1>4, <2>2
  <2> HIDE DEF x
  <2>4. /\ WellFormed(Effect(t, s)) /\ NoOrphansIn(Effect(t, s)) /\ Effect(t, s).root = t.root
    BY <2>1, <2>3, ValsReplaced
  <2> QED
    BY <1>4, <2>4 DEF Cleared, Children
<1>5. CASE s.do = "insertLink"
  <2> DEFINE r == [fk |-> s.fk, link |-> s.link]
             x == t.links \union {r}
  <2>1. Effect(t, s) = [t EXCEPT !.links = x]
    BY <1>5 DEF Effect
  <2>2. r.fk = s.fk
    OBVIOUS
  <2> HIDE DEF r
  <2>3. IsFiniteSet(x) /\ \A q \in x : Exists(t, q.fk)
    BY <1>1, <1>2, <1>5, <2>2, FS_AddElement
  <2> HIDE DEF x
  <2>4. /\ WellFormed(Effect(t, s)) /\ NoOrphansIn(Effect(t, s)) /\ Effect(t, s).root = t.root
    BY <2>1, <2>3, LinksReplaced
  <2> QED
    BY <1>5, <2>4 DEF Cleared, Children
<1>6. ASSUME NEW x \in SUBSET t.subs, Effect(t, s) = [t EXCEPT !.subs = x],
             s.do \in {"deleteSubRow", "deleteSubs"},
             s.do = "deleteSubs" => ChildlessIn(x, Targets(t, s.op, s.as))
      PROVE  /\ WellFormed(Effect(t, s)) /\ NoOrphansIn(Effect(t, s))
             /\ Effect(t, s).root = t.root /\ Cleared(t, s, Effect(t, s))
  <2>1. IsFiniteSet(x) /\ \A q \in x : Exists(t, q.fk)
    BY <1>1, <1>2, FS_Subset
  <2>2. /\ WellFormed(Effect(t, s)) /\ NoOrphansIn(Effect(t, s)) /\ Effect(t, s).root = t.root
        /\ Effect(t, s).subs = x /\ Effect(t, s).vals = t.vals /\ Effect(t, s).links = t.links
    BY <1>6, <2>1, SubsReplaced
  <2> QED
    BY <1>6, <2>2 DEF Cleared
<1>7. ASSUME NEW x \in SUBSET t.vals, Effect(t, s) = [t EXCEPT !.vals = x],
             s.do \in {"deleteValue", "replaceValue", "deleteValues"},
             s.do = "deleteValues" => ChildlessIn(x, Targets(t, s.op, s.as))
      PROVE  /\ WellFormed(Effect(t, s)) /\ NoOrphansIn(Effect(t, s))
             /\ Effect(t, s).root = t.root /\ Cleared(t, s, Effect(t, s))
  <2>1. \A q \in x : Exists(t, q.fk)
    BY <1>2
  <2>2. /\ WellFormed(Effect(t, s)) /\ NoOrphansIn(Effect(t, s)) /\ Effect(t, s).root = t.root
        /\ Effect(t, s).subs = t.subs /\ Effect(t, s).vals = x /\ Effect(t, s).links = t.links
    BY <1>7, <2>1, ValsReplaced
  <2> QED
    BY <1>7, <2>2 DEF Cleared
<1>8. ASSUME NEW x \in SUBSET t.links, Effect(t, s) = [t EXCEPT !.links = x],
             s.do \in {"deleteLink", "deleteLinks"},
             s.do = "deleteLinks" => ChildlessIn(x, Targets(t, s.op, s.as))
      PROVE  /\ WellFormed(Effect(t, s)) /\ NoOrphansIn(Effect(t, s))
             /\ Effect(t, s).root = t.root /\ Cleared(t, s, Effect(t, s))
  <2>1. IsFiniteSet(x) /\ \A q \in x : Exists(t, q.fk)
    BY <1>1, <1>2, FS_Subset
  <2>2. /\ WellFormed(Effect(t, s)) /\ NoOrphansIn(Effect(t, s)) /\ Effect(t, s).root = t.root
        /\ Effect(t, s).subs = t.subs /\ Effect(t, s).vals = t.vals /\ Effect(t, s).links = x
    BY <1>8, <2>1, LinksReplaced
  <2> QED
    BY <1>8, <2>2 DEF Cleared
<1>9. CASE s.do = "deleteSubRow"
  <2> DEFINE x == {r \in t.subs : r.row # s.row}
  <2>1. Effect(t, s) = [t EXCEPT !.subs = x] /\ x \in SUBSET t.subs
    BY <1>9 DEF Effect
  <2> HIDE DEF x
  <2> QED
    BY <1>6, <1>9, <2>1
<1>10. CASE s.do = "deleteSubs"
  <2> DEFINE x == {r \in t.subs : r.fk \notin Targets(t, s.op, s.as)}
  <2>1. Effect(t, s) = [t EXCEPT !.subs = x]
    BY <1>10 DEF Effect
  <2>2. x \in SUBSET t.subs /\ ChildlessIn(x, Targets(t, s.op, s.as))
    BY DEF ChildlessIn
  <2> HIDE DEF x
  <2> QED
    BY <1>6, <1>10, <2>1, <2>2
<1>11. CASE s.do = "deleteValue"
  <2> DEFINE x == {v \in t.vals : v.fk # s.fk \/ v.value # s.value}
  <2>1. Effect(t, s) = [t EXCEPT !.vals = x] /\ x \in SUBSET t.vals
    BY <1>11 DEF Effect
  <2> HIDE DEF x
  <2> QED
    BY <1>7, <1>11, <2>1
<1>12. CASE s.do = "replaceValue"
  <2> DEFINE x == {v \in t.vals : v.fk # s.fk}
  <2>1. Effect(t, s) = [t EXCEPT !.vals = x] /\ x \in SUBSET t.vals
    BY <1>12 DEF Effect
  <2> HIDE DEF x
  <2> QED
    BY <1>7, <1>12, <2>1
<1>13. CASE s.do = "deleteValues"
  <2> DEFINE x == {v \in t.vals : v.fk \notin Targets(t, s.op, s.as)}
  <2>1. Effect(t, s) = [t EXCEPT !.vals = x]
    BY <1>13 DEF Effect
  <2>2. x \in SUBSET t.vals /\ ChildlessIn(x, Targets(t, s.op, s.as))
    BY DEF ChildlessIn
  <2> HIDE DEF x
  <2> QED
    BY <1>7, <1>13, <2>1, <2>2
<1>14. CASE s.do = "deleteLink"
  <2> DEFINE x == t.links \ {[fk |-> s.fk, link |-> s.link]}
  <2>1. Effect(t, s) = [t EXCEPT !.links = x]
    BY <1>14 DEF Effect
  <2>2. x \in SUBSET t.links
    OBVIOUS
  <2> HIDE DEF x
  <2> QED
    BY <1>8, <1>14, <2>1, <2>2
<1>15. CASE s.do = "deleteLinks"
  <2> DEFINE x == {l \in t.links : l.fk \notin Targets(t, s.op, s.as)}
  <2>1. Effect(t, s) = [t EXCEPT !.links = x]
    BY <1>15 DEF Effect
  <2>2. x \in SUBSET t.links /\ ChildlessIn(x, Targets(t, s.op, s.as))
    BY DEF ChildlessIn
  <2> HIDE DEF x
  <2> QED
    BY <1>8, <1>15, <2>1, <2>2
<1>16. CASE s.do \notin {"insertSub", "insertValue", "insertLink", "deleteSubRow", "deleteSubs",
         "deleteValue", "replaceValue", "deleteValues", "deleteLink", "deleteLinks"}
  <2>1. Effect(t, s) = t
    BY <1>16 DEF Effect
  <2> QED
    BY <1>16, <2>1 DEF Cleared
<1> QED
  BY <1>3, <1>4, <1>5, <1>9, <1>10, <1>11, <1>12, <1>13, <1>14, <1>15, <1>16

(* A change of root rows keeps them, with a version from 1 on.             *)
LEMMA RootsUpdated ==
  ASSUME NEW t, WellFormed(t), NoOrphansIn(t), NEW s,
         \/ s.do = "updateRoot" /\ Exists(t, s.fk) /\ s.version \in Nat \ {0}
         \/ s.do = "updateRoots"
  PROVE  /\ WellFormed(Effect(t, s)) /\ NoOrphansIn(Effect(t, s))
         /\ \A i \in EntityIds : t.root[i] # Absent => Effect(t, s).root[i] # Absent
<1>1. /\ t.root = [i \in EntityIds |-> t.root[i]]
      /\ \A i \in EntityIds : t.root[i] # Absent =>
           "version" \in DOMAIN t.root[i] /\ t.root[i].version \in Nat \ {0}
      /\ \A r \in t.subs \union t.vals \union t.links : r.fk \in EntityIds /\ t.root[r.fk] # Absent
  BY DEF WellFormed, NoOrphansIn
<1>2. ASSUME NEW x, Effect(t, s) = [t EXCEPT !.root = x], x = [i \in EntityIds |-> x[i]],
             \A i \in EntityIds :
               IF t.root[i] = Absent THEN x[i] = Absent
               ELSE "version" \in DOMAIN x[i] /\ x[i].version \in Nat \ {0}
      PROVE  /\ WellFormed(Effect(t, s)) /\ NoOrphansIn(Effect(t, s))
             /\ \A i \in EntityIds : t.root[i] # Absent => Effect(t, s).root[i] # Absent
  <2>1. \A i \in EntityIds : t.root[i] # Absent => x[i] # Absent
    BY <1>2 DEF Absent
  <2>2. /\ \A i \in EntityIds : x[i] = Absent \/
             ("version" \in DOMAIN x[i] /\ x[i].version \in Nat \ {0})
        /\ \A r \in t.subs \union t.vals \union t.links : x[r.fk] # Absent
    BY <1>1, <1>2, <2>1
  <2>3. WellFormed(Effect(t, s)) /\ NoOrphansIn(Effect(t, s)) /\ Effect(t, s).root = x
    BY <1>2, <2>2, RootsReplaced
  <2> QED
    BY <2>1, <2>3
<1>3. CASE s.do = "updateRoot" /\ Exists(t, s.fk) /\ s.version \in Nat \ {0}
  <2> DEFINE r == t.root[s.fk]
             v == s.version
             w == IF s.value = 0 THEN r.value ELSE s.value
             e == Changed(r, v, w)
             x == [t.root EXCEPT ![s.fk] = e]
  <2>1. Effect(t, s) = [t EXCEPT !.root = x]
    BY <1>1, <1>3 DEF Effect, Exists
  <2>2. "version" \in DOMAIN r /\ v \in Nat \ {0}
    BY <1>1, <1>3 DEF Exists
  <2>3. "version" \in DOMAIN e /\ e.version = v
    <3> HIDE DEF r, v, w
    <3> QED
      BY <2>2 DEF Changed
  <2> HIDE DEF e
  <2>4. /\ x = [i \in EntityIds |-> x[i]] /\ x[s.fk] = e
        /\ \A i \in EntityIds \ {s.fk} : x[i] = t.root[i]
    BY <1>1, <1>3 DEF Exists
  <2> HIDE DEF x
  <2>5. \A i \in EntityIds :
          IF t.root[i] = Absent THEN x[i] = Absent
          ELSE "version" \in DOMAIN x[i] /\ x[i].version \in Nat \ {0}
    BY <1>1, <1>3, <2>2, <2>3, <2>4 DEF Exists
  <2> QED
    BY <1>2, <2>1, <2>4, <2>5
<1>4. CASE s.do = "updateRoots"
  <2> DEFINE e(i) == Changed(t.root[i], t.root[i].version + 1, s.op.value)
             x == [i \in EntityIds |-> IF i \in Where(t, s.op, s.as) THEN e(i) ELSE t.root[i]]
  <2>1. Effect(t, s) = [t EXCEPT !.root = x]
    BY <1>1, <1>4 DEF Effect
  <2>2. ASSUME NEW i \in EntityIds
        PROVE  IF t.root[i] = Absent THEN x[i] = Absent
               ELSE "version" \in DOMAIN x[i] /\ x[i].version \in Nat \ {0}
    <3>1. CASE i \in Where(t, s.op, s.as)
      <4>1. t.root[i] # Absent
        BY <3>1 DEF Where
      <4>2. t.root[i].version + 1 \in Nat \ {0}
        BY <1>1, <4>1
      <4>3. "version" \in DOMAIN e(i) /\ e(i).version = t.root[i].version + 1
        BY <1>1, <4>1 DEF Changed
      <4> QED
        BY <3>1, <4>1, <4>2, <4>3
    <3>2. CASE i \notin Where(t, s.op, s.as)
      BY <1>1, <3>2
    <3> QED
      BY <3>1, <3>2
  <2>3. x = [i \in EntityIds |-> x[i]]
    OBVIOUS
  <2> HIDE DEF x
  <2> QED
    BY <1>2, <2>1, <2>2, <2>3
<1> QED
  BY <1>3, <1>4

(* Root rows are deleted when their children are gone.                     *)
LEMMA RootsDeleted ==
  ASSUME NEW t, WellFormed(t), NoOrphansIn(t), NEW s, s.do = "deleteRoots",
         ChildlessIn(t.subs \union t.vals \union t.links, Where(t, s.op, s.as))
  PROVE  WellFormed(Effect(t, s)) /\ NoOrphansIn(Effect(t, s))
<1> DEFINE x == [i \in EntityIds |-> IF i \in Where(t, s.op, s.as) THEN Absent ELSE t.root[i]]
<1>1. Effect(t, s) = [t EXCEPT !.root = x]
  BY DEF Effect, WellFormed
<1>2. \A i \in EntityIds : x[i] = Absent \/
        ("version" \in DOMAIN x[i] /\ x[i].version \in Nat \ {0})
  BY DEF WellFormed
<1>3. \A r \in t.subs \union t.vals \union t.links : x[r.fk] # Absent
  BY DEF NoOrphansIn, ChildlessIn
<1>4. x = [i \in EntityIds |-> x[i]]
  OBVIOUS
<1> HIDE DEF x
<1> QED
  BY <1>1, <1>2, <1>3, <1>4, RootsReplaced
----------------------------------------------------------------------------
(* What operations send                                                    *)

(* A sequence of statements that fit the operation.                        *)
Fitting(op, i, q) ==
  /\ IsSequence(q)
  /\ \A s \in Elements(q) : Fits(op, i, s) /\ s.do # "selectSub"

(* One statement for each value of a sequence.                             *)
LEMMA EachFits ==
  ASSUME NEW op, NEW i, NEW n \in Nat, NEW q, q = [k \in 1..n |-> q[k]],
         \A k \in 1..n : Fits(op, i, q[k]) /\ q[k].do # "selectSub"
  PROVE  Fitting(op, i, q)
<1>1. IsSequence(q)
  BY FunctionIsSequence
<1>2. DOMAIN q = 1..n
  OBVIOUS
<1> QED
  BY <1>1, <1>2 DEF Fitting, Elements

(* Statements that fit the call, one sequence after the other.             *)
LEMMA ConcatFits ==
  ASSUME NEW op, NEW i, NEW q, NEW p, Fitting(op, i, q), Fitting(op, i, p)
  PROVE  Fitting(op, i, q \o p)
  BY ConcatFacts DEF Fitting

(* The links of an entity.                                                 *)
LEMMA LinksFinite ==
  ASSUME NEW t, IsFiniteSet(t.links), NEW i
  PROVE  IsFiniteSet(LinksOf(t, i))
<1> DEFINE S == {m \in t.links : m.fk = i}
           f == [l \in S |-> l.link]
<1>1. IsFiniteSet(S)
  BY FS_Subset
<1>2. f \in Surjection(S, LinksOf(t, i))
  BY DEF LinksOf, Surjection
<1> QED
  BY <1>1, <1>2, FS_Surjection

(* The statements of each kind of operation.                               *)
LEMMA StatementsOfKinds ==
  /\ StatementsOf("create") = {"insertSub", "insertValue", "insertLink"}
  /\ StatementsOf("addSubs") = {"insertSub"}
  /\ StatementsOf("addSubsByFilters") = {"insertSub", "selectSub"}
  /\ StatementsOf("addLinks") = {"selectLink", "insertLink"}
  /\ StatementsOf("update") = {"replaceValue", "insertValue", "updateRoot"}
  /\ StatementsOf("addValues") = {"insertValue", "updateRoot"}
  /\ StatementsOf("removeValues") = {"deleteValue", "updateRoot"}
  /\ \A kind \in RemovingSubs : StatementsOf(kind) = {"deleteSubRow", "deleteLink"}
  /\ \A kind \in {"updateByFilters", "updateEntities"} : StatementsOf(kind) = {"updateRoots"}
  /\ \A kind \in Deleting : StatementsOf(kind) = Children \union {"deleteRoots"}
<1>1. /\ StatementsOf("create") = {"insertSub", "insertValue", "insertLink"}
      /\ StatementsOf("addSubs") = {"insertSub"}
      /\ StatementsOf("addSubsByFilters") = {"insertSub", "selectSub"}
      /\ StatementsOf("addLinks") = {"selectLink", "insertLink"}
  BY DEF StatementsOf, RemovingSubs, Deleting, DeletingOne
<1>2. /\ StatementsOf("update") = {"replaceValue", "insertValue", "updateRoot"}
      /\ StatementsOf("addValues") = {"insertValue", "updateRoot"}
      /\ StatementsOf("removeValues") = {"deleteValue", "updateRoot"}
  BY DEF StatementsOf, RemovingSubs, Deleting, DeletingOne
<1>3. \A kind \in RemovingSubs : StatementsOf(kind) = {"deleteSubRow", "deleteLink"}
  BY DEF StatementsOf, RemovingSubs, Deleting, DeletingOne
<1>4. \A kind \in {"updateByFilters", "updateEntities"} : StatementsOf(kind) = {"updateRoots"}
  BY DEF StatementsOf, RemovingSubs, Deleting, DeletingOne
<1>5. \A kind \in Deleting : StatementsOf(kind) = Children \union {"deleteRoots"}
  BY DEF StatementsOf, RemovingSubs, Deleting, DeletingOne
<1> QED
  BY <1>1, <1>2, <1>3, <1>4, <1>5

(* Every statement that an operation sends in parallel fits it.            *)
LEMMA StatementsFit ==
  ASSUME NEW op \in Ops, op.kind \notin Queries, op.kind = "update" => op.subs = {},
         WellFormed(work), NEW i, op.kind \in Growing => Exists(work, i)
  PROVE  /\ Fitting(op, i, Statements(op, i))
         /\ op.kind \in Deleting => Statements(op, i) =
              DeleteStatements(op, IF op.kind = "delete" THEN NoAccount ELSE account)
<1>1. /\ op.values \in Seq(Nat) /\ op.tags \in Seq(Nat) /\ IsFiniteSet(op.links)
      /\ op.kind \in Kinds
  BY OpsAssumption
<1>2. /\ DOMAIN op.values = 1..Len(op.values) /\ Len(op.values) \in Nat
      /\ DOMAIN op.tags = 1..Len(op.tags) /\ Len(op.tags) \in Nat
  BY <1>1, LenProperties
<1>3. op.kind \in Growing => work.root[i].version + 1 \in Nat \ {0}
  BY DEF WellFormed, Exists
<1> DEFINE links == SetToSeq(op.links)
           n == Cardinality(op.links)
<1>4. /\ n \in Nat /\ DOMAIN links = 1..n
      /\ \A k \in 1..n : links[k] \in op.links
  BY <1>1, SetToSeqFacts DEF Elements
<1> HIDE DEF links, n
<1>5. CASE op.kind = "create"
  <2> DEFINE q1 == [k \in DOMAIN op.values |-> InsertSub(i, k - 1, op.values[k])]
             q2 == [k \in DOMAIN op.tags |-> InsertValue(i, k - 1, op.tags[k])]
             q3 == [k \in DOMAIN links |-> InsertLink(i, links[k])]
  <2>0. Statements(op, i) = createEntity(op, i)
    BY <1>5 DEF Statements
  <2>1. createEntity(op, i) = (q1 \o q2) \o q3
    BY ZenonT(30) DEF createEntity, Each, links
  <2>2. \A k \in 1..Len(op.values) : Fits(op, i, q1[k]) /\ q1[k].do # "selectSub"
    BY <1>2, <1>5, StatementsOfKinds DEF Fits, InsertSub
  <2>3. \A k \in 1..Len(op.tags) : Fits(op, i, q2[k]) /\ q2[k].do # "selectSub"
    BY <1>2, <1>5, StatementsOfKinds DEF Fits, InsertValue
  <2>4. \A k \in 1..n : Fits(op, i, q3[k]) /\ q3[k].do # "selectSub"
    BY <1>4, <1>5, StatementsOfKinds DEF Fits, InsertLink
  <2>5. /\ q1 = [k \in 1..Len(op.values) |-> q1[k]]
        /\ q2 = [k \in 1..Len(op.tags) |-> q2[k]]
        /\ q3 = [k \in 1..n |-> q3[k]]
    BY <1>2, <1>4
  <2> HIDE DEF q1, q2, q3
  <2>6. Fitting(op, i, q1) /\ Fitting(op, i, q2) /\ Fitting(op, i, q3)
    BY <1>2, <1>4, <2>2, <2>3, <2>4, <2>5, EachFits
  <2> QED
    BY <1>5, <2>0, <2>1, <2>6, ConcatFits DEF Deleting, DeletingOne
<1>6. CASE op.kind = "addSubs"
  <2> DEFINE q == [k \in DOMAIN op.values |-> InsertSub(i, MaxSubItemId(i) + k, op.values[k])]
  <2>0. Statements(op, i) = addSubEntities(op, i)
    BY <1>6 DEF Statements
  <2>1. addSubEntities(op, i) = q
    BY <1>6 DEF addSubEntities, Each
  <2>2. \A k \in 1..Len(op.values) : Fits(op, i, q[k]) /\ q[k].do # "selectSub"
    BY <1>2, <1>6, StatementsOfKinds DEF Fits, InsertSub
  <2>3. q = [k \in 1..Len(op.values) |-> q[k]]
    BY <1>2
  <2> HIDE DEF q
  <2> QED
    BY <1>2, <1>6, <2>0, <2>1, <2>2, <2>3, EachFits DEF Deleting, DeletingOne
<1>7. CASE op.kind = "addLinks"
  <2> DEFINE q == [k \in DOMAIN links |-> [do |-> "selectLink", fk |-> i, link |-> links[k]]]
  <2>0. Statements(op, i) = addSubEntities(op, i)
    BY <1>7 DEF Statements
  <2>1. addSubEntities(op, i) = q
    BY <1>7 DEF addSubEntities, Each, links
  <2>2. \A k \in 1..n : Fits(op, i, q[k]) /\ q[k].do # "selectSub"
    BY <1>4, <1>7, StatementsOfKinds DEF Fits
  <2>3. q = [k \in 1..n |-> q[k]]
    BY <1>4
  <2> HIDE DEF q
  <2> QED
    BY <1>4, <1>7, <2>0, <2>1, <2>2, <2>3, EachFits DEF Deleting, DeletingOne
<1>8. CASE op.kind = "addSubsByFilters"
  <2> DEFINE p == [k \in DOMAIN op.values |-> InsertSub(i, MaxSubItemId(i) + k, op.values[k])]
             q == [k \in DOMAIN addSubEntities(op, i) |->
                     [addSubEntities(op, i)[k] EXCEPT !.readBack = TRUE]]
  <2>1. addSubEntities(op, i) = p
    BY <1>8 DEF addSubEntities, Each
  <2>2. Statements(op, i) = q
    BY <1>8 DEF Statements, addSubEntitiesByFilters
  <2>5. ASSUME NEW k \in 1..Len(op.values) PROVE q[k].do = "insertSub" /\ q[k].fk = i
    <3>1. p[k] = InsertSub(i, MaxSubItemId(i) + k, op.values[k])
      BY <1>2
    <3>2. q[k] = [p[k] EXCEPT !.readBack = TRUE]
      BY <1>2, <2>1
    <3> HIDE DEF p, q
    <3>3. p[k].do = "insertSub" /\ p[k].fk = i /\ {"do", "fk"} \subseteq DOMAIN p[k]
      BY <3>1 DEF InsertSub
    <3> QED
      BY <3>2, <3>3
  <2>4. q = [k \in 1..Len(op.values) |-> q[k]]
    BY <1>2, <2>1
  <2> HIDE DEF q, p
  <2>3. ASSUME NEW k \in 1..Len(op.values) PROVE Fits(op, i, q[k]) /\ q[k].do # "selectSub"
    BY <1>8, <2>3, <2>5, StatementsOfKinds DEF Fits
  <2> HIDE DEF q
  <2> QED
    BY <1>2, <1>8, <2>2, <2>3, <2>4, EachFits DEF Deleting, DeletingOne
<1>9. CASE op.kind = "update"
  <2> DEFINE q1 == [k \in DOMAIN op.tags |->
                      [do |-> "replaceValue", fk |-> i, id |-> k - 1, value |-> op.tags[k]]]
             q2 == <<SetVersion(i, work.root[i].version + 1, op.value)>>
  <2>1. updateSubEntities(op, i) = <<>>
    BY <1>9 DEF updateSubEntities
  <2>2. \A k \in 1..Len(op.tags) : Fits(op, i, q1[k]) /\ q1[k].do # "selectSub"
    BY <1>2, <1>9, StatementsOfKinds DEF Fits
  <2>3. q1 = [k \in 1..Len(op.tags) |-> q1[k]]
    BY <1>2
  <2>4. q2 = [k \in 1..1 |-> q2[k]] /\ q2[1] = SetVersion(i, work.root[i].version + 1, op.value)
    OBVIOUS
  <2>5. \A k \in 1..1 : Fits(op, i, q2[k]) /\ q2[k].do # "selectSub"
    <3>1. op.kind \in Growing /\ "updateRoot" \in StatementsOf(op.kind)
      BY <1>9, StatementsOfKinds DEF Growing, ChangingValues
    <3>2. Fits(op, i, SetVersion(i, work.root[i].version + 1, op.value))
      BY <1>3, <1>9, <3>1 DEF Fits, SetVersion
    <3>3. SetVersion(i, work.root[i].version + 1, op.value).do # "selectSub"
      BY DEF SetVersion
    <3> HIDE DEF q2
    <3> QED
      BY <2>4, <3>2, <3>3
  <2> HIDE DEF q1, q2
  <2>6. Fitting(op, i, q1) /\ Fitting(op, i, q2)
    BY <1>2, <2>2, <2>3, <2>4, <2>5, EachFits
  <2>0. Statements(op, i) = updateEntity(op, i)
    BY <1>9 DEF Statements
  <2>7. updateEntity(op, i) = (updateSubEntities(op, i) \o q1) \o q2
    BY ZenonT(30) DEF updateEntity, Each, q1, q2
  <2>8. <<>> \o q1 = q1
    BY <2>6, ConcatEmptySeq DEF Fitting, IsSequence
  <2> QED
    BY <1>9, <2>0, <2>1, <2>6, <2>7, <2>8, ConcatFits DEF Deleting, DeletingOne
<1>10. CASE op.kind = "addValues"
  <2> DEFINE q1 == [k \in DOMAIN op.tags |-> InsertValue(i, Len(ValuesOf(work, i)), op.tags[k])]
             q2 == <<SetVersion(i, work.root[i].version + 1, 0)>>
  <2>0. Statements(op, i) = addFieldValues(op, i)
    BY <1>10 DEF Statements
  <2>1. addFieldValues(op, i) = q1 \o q2
    BY ZenonT(30) DEF addFieldValues, Each
  <2>2. \A k \in 1..Len(op.tags) : Fits(op, i, q1[k]) /\ q1[k].do # "selectSub"
    BY <1>2, <1>10, StatementsOfKinds DEF Fits, InsertValue
  <2>3. q1 = [k \in 1..Len(op.tags) |-> q1[k]]
    BY <1>2
  <2>4. q2 = [k \in 1..1 |-> q2[k]] /\ q2[1] = SetVersion(i, work.root[i].version + 1, 0)
    OBVIOUS
  <2>5. \A k \in 1..1 : Fits(op, i, q2[k]) /\ q2[k].do # "selectSub"
    <3>1. op.kind \in Growing /\ "updateRoot" \in StatementsOf(op.kind)
      BY <1>10, StatementsOfKinds DEF Growing, ChangingValues
    <3>2. Fits(op, i, SetVersion(i, work.root[i].version + 1, 0))
      BY <1>3, <1>10, <3>1 DEF Fits, SetVersion
    <3>3. SetVersion(i, work.root[i].version + 1, 0).do # "selectSub"
      BY DEF SetVersion
    <3> HIDE DEF q2
    <3> QED
      BY <2>4, <3>2, <3>3
  <2> HIDE DEF q1, q2
  <2>6. Fitting(op, i, q1) /\ Fitting(op, i, q2)
    BY <1>2, <2>2, <2>3, <2>4, <2>5, EachFits
  <2> QED
    BY <1>10, <2>0, <2>1, <2>6, ConcatFits DEF Deleting, DeletingOne
<1>11. CASE op.kind = "removeValues"
  <2> DEFINE q1 == [k \in DOMAIN op.tags |-> [do |-> "deleteValue", fk |-> i, value |-> op.tags[k]]]
             q2 == <<SetVersion(i, work.root[i].version + 1, 0)>>
  <2>0. Statements(op, i) = removeFieldValues(op, i)
    BY <1>11 DEF Statements
  <2>1. removeFieldValues(op, i) = q1 \o q2
    BY ZenonT(30) DEF removeFieldValues, Each
  <2>2. \A k \in 1..Len(op.tags) : Fits(op, i, q1[k]) /\ q1[k].do # "selectSub"
    BY <1>2, <1>11, StatementsOfKinds DEF Fits
  <2>3. q1 = [k \in 1..Len(op.tags) |-> q1[k]]
    BY <1>2
  <2>4. q2 = [k \in 1..1 |-> q2[k]] /\ q2[1] = SetVersion(i, work.root[i].version + 1, 0)
    OBVIOUS
  <2>5. \A k \in 1..1 : Fits(op, i, q2[k]) /\ q2[k].do # "selectSub"
    <3>1. op.kind \in Growing /\ "updateRoot" \in StatementsOf(op.kind)
      BY <1>11, StatementsOfKinds DEF Growing, ChangingValues
    <3>2. Fits(op, i, SetVersion(i, work.root[i].version + 1, 0))
      BY <1>3, <1>11, <3>1 DEF Fits, SetVersion
    <3>3. SetVersion(i, work.root[i].version + 1, 0).do # "selectSub"
      BY DEF SetVersion
    <3> HIDE DEF q2
    <3> QED
      BY <2>4, <3>2, <3>3
  <2> HIDE DEF q1, q2
  <2>6. Fitting(op, i, q1) /\ Fitting(op, i, q2)
    BY <1>2, <2>2, <2>3, <2>4, <2>5, EachFits
  <2> QED
    BY <1>11, <2>0, <2>1, <2>6, ConcatFits DEF Deleting, DeletingOne
<1>12. CASE op.kind \in RemovingSubs
  <2>1. ASSUME NEW S, IsFiniteSet(S), NEW q, q = [k \in DOMAIN SetToSeq(S) |-> q[k]],
               \A k \in DOMAIN SetToSeq(S) : q[k].do \in {"deleteLink", "deleteSubRow"}
        PROVE  Fitting(op, i, q)
    <3> DEFINE m == Cardinality(S)
    <3>1. m \in Nat /\ DOMAIN SetToSeq(S) = 1..m
      BY <2>1, SetToSeqFacts
    <3> HIDE DEF m
    <3>2. ASSUME NEW k \in 1..m PROVE Fits(op, i, q[k]) /\ q[k].do # "selectSub"
      <4>1. q[k].do \in {"deleteLink", "deleteSubRow"}
        BY <2>1, <3>1
      <4>2. StatementsOf(op.kind) = {"deleteSubRow", "deleteLink"}
        BY <1>12, StatementsOfKinds
      <4>3. op.kind \notin Growing /\ op.kind # "addLinks"
        BY <1>12 DEF RemovingSubs, Growing, AddingSubs, ChangingValues
      <4> QED
        BY <4>1, <4>2, <4>3 DEF Fits
    <3>3. q = [k \in 1..m |-> q[k]]
      BY <2>1, <3>1
    <3> QED
      BY <3>1, <3>2, <3>3, EachFits
  <2>2. Fitting(op, i, removeSubEntities(op, i))
    <3>1. CASE op.kind = "removeLinks"
      <4> DEFINE S == {l \in LinksOf(work, i) : op.all \/ l = op.sub}
                 q == [k \in DOMAIN SetToSeq(S) |->
                         [do |-> "deleteLink", fk |-> i, link |-> SetToSeq(S)[k]]]
      <4>1. removeSubEntities(op, i) = q
        BY <3>1 DEF removeSubEntities, Each
      <4>2. IsFiniteSet(S)
        BY LinksFinite, FS_Subset DEF WellFormed
      <4>3. /\ q = [k \in DOMAIN SetToSeq(S) |-> q[k]]
            /\ \A k \in DOMAIN SetToSeq(S) : q[k].do \in {"deleteLink", "deleteSubRow"}
        OBVIOUS
      <4> HIDE DEF S, q
      <4> QED
        BY <2>1, <4>1, <4>2, <4>3
    <3>2. CASE op.kind # "removeLinks"
      <4> DEFINE S == {x \in SubsOf(work, i) : op.all \/ x.id = op.sub}
                 q == [k \in DOMAIN SetToSeq(S) |-> [do |-> "deleteSubRow", row |-> SetToSeq(S)[k].row]]
      <4>1. removeSubEntities(op, i) = q
        BY <3>2 DEF removeSubEntities, Each
      <4>2. IsFiniteSet(S)
        BY FS_Subset DEF WellFormed, SubsOf
      <4>3. /\ q = [k \in DOMAIN SetToSeq(S) |-> q[k]]
            /\ \A k \in DOMAIN SetToSeq(S) : q[k].do \in {"deleteLink", "deleteSubRow"}
        OBVIOUS
      <4> HIDE DEF S, q
      <4> QED
        BY <2>1, <4>1, <4>2, <4>3
    <3> QED
      BY <3>1, <3>2
  <2>3. Fitting(op, i, <<>>)
    <3> DEFINE q == <<>>
    <3>1. q = [k \in 1..0 |-> q[k]] /\ \A k \in 1..0 : Fits(op, i, q[k]) /\ q[k].do # "selectSub"
      OBVIOUS
    <3> HIDE DEF q
    <3>2. Fitting(op, i, q)
      BY <3>1, EachFits
    <3> QED
      BY <3>2 DEF q
  <2>4. Statements(op, i) \in {removeSubEntities(op, i), <<>>}
    <3>1. CASE op.kind \in {"removeSubs", "removeLinks"}
      BY <3>1 DEF Statements
    <3>2. CASE op.kind = "removeSubsByFilters"
      <4>1. Statements(op, i) = removeSubEntitiesByFilters(op, i)
        BY <3>2 DEF Statements
      <4> QED
        BY <4>1 DEF removeSubEntitiesByFilters
    <3> QED
      BY <1>12, <3>1, <3>2 DEF RemovingSubs
  <2> QED
    BY <1>12, <2>2, <2>3, <2>4 DEF RemovingSubs, Deleting, DeletingOne
<1>13. CASE op.kind \in {"updateByFilters", "updateEntities"}
  <2> DEFINE s == [do |-> "updateRoots", op |-> op, as |-> account]
             q == <<s>>
  <2>1. Statements(op, i) = q
    <3>1. CASE op.kind = "updateByFilters"
      <4>1. Statements(op, i) = updateEntityByFilters(op)
        BY <3>1 DEF Statements
      <4> QED
        BY <4>1 DEF updateEntityByFilters
    <3>2. CASE op.kind = "updateEntities"
      <4>1. Statements(op, i) = updateEntitiesByFilters(op)
        BY <3>2 DEF Statements
      <4> QED
        BY <4>1 DEF updateEntitiesByFilters
    <3> QED
      BY <1>13, <3>1, <3>2
  <2>2. q = [k \in 1..1 |-> q[k]] /\ q[1] = s
    OBVIOUS
  <2>3. Fits(op, i, s) /\ s.do # "selectSub"
    <3>1. StatementsOf(op.kind) = {"updateRoots"}
      BY <1>13, StatementsOfKinds
    <3>2. op.kind \notin Growing /\ op.kind # "addLinks"
      BY <1>13 DEF Growing, AddingSubs, ChangingValues
    <3> QED
      BY <3>1, <3>2 DEF Fits
  <2> HIDE DEF q, s
  <2>4. /\ q = [k \in 1..1 |-> q[k]]
        /\ \A k \in 1..1 : Fits(op, i, q[k]) /\ q[k].do # "selectSub"
    BY <2>2, <2>3
  <2> QED
    BY <1>13, <2>1, <2>4, EachFits DEF Deleting, DeletingOne
<1>14. CASE op.kind \in Deleting
  <2> DEFINE as == IF op.kind = "delete" THEN NoAccount ELSE account
             q == DeleteStatements(op, as)
  <2>1. Statements(op, i) = q
    <3>1. CASE op.kind = "delete"
      <4>1. Statements(op, i) = deleteEntityById(op)
        BY <3>1 DEF Statements
      <4> QED
        BY <3>1, <4>1 DEF deleteEntityById
    <3>2. CASE op.kind = "deleteByFilters"
      <4>1. Statements(op, i) = deleteEntityByFilters(op)
        BY <3>2 DEF Statements
      <4> QED
        BY <3>2, <4>1 DEF deleteEntityByFilters
    <3>3. CASE op.kind = "deleteEntities"
      <4>1. Statements(op, i) = deleteEntitiesByFilters(op)
        BY <3>3 DEF Statements
      <4> QED
        BY <3>3, <4>1 DEF deleteEntitiesByFilters
    <3>4. CASE op.kind = "deleteAll"
      <4>1. Statements(op, i) = deleteAllEntities(op)
        BY <3>4 DEF Statements
      <4> QED
        BY <3>4, <4>1 DEF deleteAllEntities
    <3> QED
      BY <1>14, <3>1, <3>2, <3>3, <3>4 DEF Deleting, DeletingOne
  <2>2. q = [k \in 1..4 |-> q[k]]
    BY DEF DeleteStatements
  <2>3. ASSUME NEW k \in 1..4 PROVE q[k].do \in Children \union {"deleteRoots"}
    BY <2>3 DEF DeleteStatements, DeleteWhere, Children
  <2> HIDE DEF q
  <2>4. ASSUME NEW k \in 1..4 PROVE Fits(op, i, q[k]) /\ q[k].do # "selectSub"
    <3>1. StatementsOf(op.kind) = Children \union {"deleteRoots"}
      BY <1>14, StatementsOfKinds
    <3>2. op.kind \notin Growing /\ op.kind # "addLinks"
      BY <1>14 DEF Growing, AddingSubs, ChangingValues, Deleting, DeletingOne
    <3> QED
      BY <2>3, <3>1, <3>2 DEF Fits, Children
  <2>5. Fitting(op, i, q)
    BY <2>2, <2>4, EachFits
  <2> QED
    BY <2>1, <2>5 DEF q
<1> QED
  BY <1>1, <1>5, <1>6, <1>7, <1>8, <1>9, <1>10, <1>11, <1>12, <1>13, <1>14
  DEF Kinds, AddingOrRemovingSubs, AddingSubs, ChangingValues
----------------------------------------------------------------------------
(* The invariant                                                           *)

(* The operation's transaction, and the statements on its connection.      *)
TransactionInv ==
  /\ phase \in {"idle", "begin"} \/ ~InTransaction(call) => tx = "none"
  /\ phase \notin {"run", "failing"} => queue = <<>>

(* The user account of the context.                                        *)
AccountInv ==
  /\ phase \in {"begin", "check", "read", "hooks", "insert", "version", "send", "query",
                "posthook", "commit"} => account = user
  /\ phase = "idle" /\ answer.status # "error" => account = user
  /\ phase = "run" => saved = user /\ account = IF ClearsAccount THEN NoAccount ELSE user

(* What is known of the calls that are made.                               *)
CallInv ==
  /\ call.kind = "addLinks" => call.links \subseteq Linkable \/ call.links \intersect Linkable = {}
  /\ call.kind = "update" => call.subs = {}
  /\ call.kind = "getByFilters" /\ call.hooked /\ phase \in {"begin", "query"} =>
       work = tables /\ Where(tables, call, user) # {}

(* The operation has read, or created, the entity it changes.              *)
HasEntity ==
  \/ phase \in {"hooks", "version"} /\ call.kind # "create"
  \/ phase \in {"send", "run"} /\ call.kind \in Growing

RowsInv ==
  /\ WellFormed(tables) /\ NoOrphansIn(tables)
  /\ WellFormed(work) /\ NoOrphansIn(work)
  /\ HasEntity => Exists(work, seen)

(* The statements that are left of a deletion: the children that the others *)
(* have deleted are gone.                                                  *)
DeletesLeft(op, who, t, q) ==
  \/ Len(q) = 0
  \/ /\ Len(q) = 1
     /\ q[1] = DeleteWhere("deleteRoots", op, who)
     /\ ChildlessIn(t.subs, Targets(t, op, who))
     /\ ChildlessIn(t.vals, Targets(t, op, who))
     /\ ChildlessIn(t.links, Targets(t, op, who))
  \/ /\ Len(q) = 2
     /\ q[1] = DeleteWhere("deleteLinks", op, who)
     /\ q[2] = DeleteWhere("deleteRoots", op, who)
     /\ ChildlessIn(t.subs, Targets(t, op, who))
     /\ ChildlessIn(t.vals, Targets(t, op, who))
  \/ /\ Len(q) = 3
     /\ q[1] = DeleteWhere("deleteValues", op, who)
     /\ q[2] = DeleteWhere("deleteLinks", op, who)
     /\ q[3] = DeleteWhere("deleteRoots", op, who)
     /\ ChildlessIn(t.subs, Targets(t, op, who))
  \/ /\ Len(q) = 4
     /\ q[1] = DeleteWhere("deleteSubs", op, who)
     /\ q[2] = DeleteWhere("deleteValues", op, who)
     /\ q[3] = DeleteWhere("deleteLinks", op, who)
     /\ q[4] = DeleteWhere("deleteRoots", op, who)

DeletesAs(op, as) == IF op.kind = "delete" THEN NoAccount ELSE as

(* The statements that are left of those sent in parallel: those that read *)
(* a new sub-entity back come last.                                        *)
RunInv ==
  phase = "run" =>
    /\ IsSequence(queue)
    /\ \A k \in 1..Len(queue) : Fits(call, seen, queue[k])
    /\ \A j, k \in 1..Len(queue) : j < k /\ queue[j].do = "selectSub" => queue[k].do = "selectSub"
    /\ call.kind \in Deleting => DeletesLeft(call, DeletesAs(call, account), work, queue)

(* A statement that changes nothing and makes its branch send nothing.     *)
Quiet(s) == s.do = "selectSub" \/ (s.do = "selectLink" /\ s.link \notin Linkable)

(* One ROLLBACK, behind statements that do nothing.                        *)
FailingInv ==
  phase = "failing" =>
    /\ IsSequence(queue) /\ queue # <<>>
    /\ \A k \in 1..Len(queue) : queue[k] = Rollback <=> k = Len(queue)
    /\ tx = "active" => \A k \in 1..Len(queue) : k = Len(queue) \/ Quiet(queue[k])

EntityInv ==
  TypeInv /\ TransactionInv /\ AccountInv /\ CallInv /\ RowsInv /\ RunInv /\ FailingInv

(* A query that finds something finds a first one.                         *)
LEMMA FirstExists ==
  ASSUME NEW S, S \subseteq Nat, S # {}
  PROVE  First(S) # {}
<1>1. PICK i \in S : \A j \in S : <<j, i>> \notin OpToRel(<, Nat)
  BY NatLessThanWellFounded, WFMin
<1>2. ASSUME NEW j \in S PROVE i <= j
  <2>1. <<j, i>> \notin OpToRel(<, Nat)
    BY <1>1
  <2>2. ~(j < i)
    BY <2>1 DEF OpToRel
  <2> QED
    BY <2>2
<1> QED
  BY <1>2 DEF First

(* The initial state.                                                      *)
LEMMA EntityInvInit == Init => EntityInv
<1> SUFFICES ASSUME Init PROVE EntityInv
  OBVIOUS
<1>1. TypeInv
  BY TypeInvInit
<1>2. TransactionInv /\ AccountInv
  BY DEF Init, TransactionInv, AccountInv
<1>3. NoCall.kind = "none" /\ call = NoCall /\ phase = "idle"
  BY DEF Init, NoCall
<1>4. CallInv
  BY <1>3 DEF CallInv
<1>5. RowsInv
  BY <1>3, ConstantsAssumption DEF Init, RowsInv, HasEntity
<1>6. RunInv /\ FailingInv
  BY <1>3 DEF RunInv, FailingInv
<1> QED
  BY <1>1, <1>2, <1>4, <1>5, <1>6 DEF EntityInv

(* Where the next statement is.                                            *)
LEMMA NextStatement ==
  ASSUME EntityInv, queue # <<>>
  PROVE  /\ phase \in {"run", "failing"} /\ call \in Ops /\ call # NoCall
         /\ IsSequence(queue) /\ Len(queue) \in Nat \ {0} /\ Head(queue) = queue[1]
         /\ phase = "run" => Fits(call, seen, Head(queue)) /\ Head(queue) # Rollback
         /\ phase = "failing" /\ Head(queue) = Rollback => Tail(queue) = <<>>
<1>1. phase \in {"run", "failing"} /\ call \in Ops /\ call # NoCall
  BY DEF EntityInv, TransactionInv, TypeInv, TypeOK, PhaseInv
<1>2. IsSequence(queue)
  BY <1>1 DEF EntityInv, RunInv, FailingInv
<1>3. Len(queue) \in Nat \ {0} /\ Head(queue) = queue[1] /\ 1 \in 1..Len(queue)
  BY <1>2, SequenceFacts
<1>4. ASSUME phase = "run" PROVE Fits(call, seen, Head(queue)) /\ Head(queue) # Rollback
  <2>1. Fits(call, seen, queue[1])
    BY <1>3, <1>4 DEF EntityInv, RunInv
  <2>2. Head(queue).do \in StatementsOf(call.kind)
    BY <1>3, <2>1 DEF Fits
  <2>3. call.kind \in Kinds /\ call.kind \notin Queries
    BY <1>1, <1>4, OpsAreCalls DEF EntityInv, TypeInv, PhaseInv
  <2>4. "rollback" \notin StatementsOf(call.kind)
    BY <2>3, StatementsOfKinds DEF Kinds, AddingOrRemovingSubs, AddingSubs, ChangingValues, Children
  <2>5. Rollback.do = "rollback"
    BY DEF Rollback
  <2> QED
    BY <1>3, <2>1, <2>2, <2>4, <2>5
<1>5. ASSUME phase = "failing", Head(queue) = Rollback PROVE Tail(queue) = <<>>
  <2>1. Len(queue) = 1
    BY <1>3, <1>5 DEF EntityInv, FailingInv
  <2>2. IsSequence(Tail(queue)) /\ Len(Tail(queue)) = 0
    BY <1>2, <2>1, SequenceFacts
  <2> QED
    BY <2>2, SequenceFacts
<1> QED
  BY <1>1, <1>2, <1>3, <1>4, <1>5

(* Every step keeps the operation's transaction and the context.           *)
LEMMA TransactionStep ==
  ASSUME EntityInv, [Next]_vars
  PROVE  TransactionInv' /\ AccountInv'
<1> USE DEF TypeInv, TypeOK, PhaseInv, Begun, TransactionInv, AccountInv
<1>a. /\ TypeInv /\ TransactionInv /\ AccountInv
      /\ CallInv /\ FailingInv /\ RunInv
  BY DEF EntityInv
<1>0. phase # "idle" => call \in Ops /\ call # NoCall
  BY <1>a
<1>00. phase # "idle" /\ call.kind \notin Queries => InTransaction(call)
  BY <1>0, OpsAreCalls
<1>01. InTransaction(NoCall)
  BY DEF NoCall, InTransaction, Queries
<1>1. ASSUME NEW op \in Ops, Ask(op) PROVE TransactionInv' /\ AccountInv'
  BY <1>a, <1>1 DEF Ask
<1>2. CASE Begin
  BY <1>a, <1>0, <1>2 DEF Begin, InTransaction
<1>3. CASE BeginFails
  BY <1>a, <1>3, <1>01 DEF BeginFails, AStatementFails, Answer, Failed
<1>4. CASE CheckOwner
  BY <1>a, <1>0, <1>01, <1>4, FailStep DEF CheckOwner, Failed, InTransaction
<1>5. CASE ReadEntity
  BY <1>a, <1>0, <1>01, <1>5, FailStep DEF ReadEntity, Failed, InTransaction
<1>6. CASE ReadEntityFails
  BY <1>a, <1>0, <1>01, <1>6, FailStep DEF ReadEntityFails, AStatementFails, Failed, InTransaction
<1>7. CASE PreHooksPass
  BY <1>a, <1>0, <1>01, <1>7, FailStep DEF PreHooksPass, Failed, InTransaction
<1>8. CASE PreHookRefuses
  BY <1>a, <1>0, <1>01, <1>8, FailStep DEF PreHookRefuses, Failed, InTransaction
<1>9. CASE InsertRoot
  BY <1>a, <1>0, <1>00, <1>9 DEF InsertRoot
<1>10. CASE UpdateVersion
  BY <1>a, <1>0, <1>00, <1>01, <1>10, FailStep DEF UpdateVersion, Failed, InTransaction
<1>11. CASE WriteFails
  BY <1>a, <1>0, <1>00, <1>01, <1>11, FailStep DEF WriteFails, AStatementFails, Failed
<1>12. CASE Send
  BY <1>a, <1>0, <1>00, <1>12 DEF Send, ClearsAccount
<1>13. CASE Execute
  BY <1>a, <1>0, <1>13 DEF Execute, ClearsAccount
<1>14. CASE ExecuteFails
  BY <1>a, <1>0, <1>14 DEF ExecuteFails, BranchFails, AStatementFails, ClearsAccount
<1>15. CASE ExecuteRollback
  <2>1. Tail(queue) = <<>>
    BY <1>15, NextStatement DEF ExecuteRollback
  <2> QED
    BY <1>a, <1>01, <1>15, <2>1 DEF ExecuteRollback, Answer, Failed
<1>16. CASE AllAnswered
  BY <1>a, <1>0, <1>00, <1>16 DEF AllAnswered
<1>17. CASE ReadBackFails
  BY <1>a, <1>0, <1>00, <1>17 DEF ReadBackFails, AStatementFails, ClearsAccount,
    AddingOrRemovingSubs, AddingSubs, RemovingSubs
<1>18. CASE PostHookPasses
  BY <1>a, <1>0, <1>18 DEF PostHookPasses
<1>19. CASE PostHookRefuses
  BY <1>a, <1>0, <1>01, <1>19, FailStep DEF PostHookRefuses, Failed
<1>20. CASE PostHookThrows
  BY <1>a, <1>0, <1>01, <1>20, FailStep DEF PostHookThrows, Failed
<1>21. CASE Commit
  BY <1>a, <1>0, <1>01, <1>21 DEF Commit, Answer
<1>22. CASE CommitFails
  BY <1>a, <1>0, <1>01, <1>22, FailStep DEF CommitFails, AStatementFails, Failed
<1>23. CASE Query
  BY <1>a, <1>0, <1>01, <1>23 DEF Query, Answer
<1>24. CASE QueryFindsNothing
  <2>1. /\ phase = "query" /\ queue' = queue /\ phase' = "idle" /\ call' = NoCall
        /\ answer' = Failed /\ account' = account /\ user' = user
    BY <1>24 DEF QueryFindsNothing, Answer
  <2>2. CASE ~InTransaction(call)
    <3>1. tx = "none" /\ tx' = "none"
      BY <1>a, <1>24, <2>2 DEF QueryFindsNothing
    <3> QED
      BY <1>a, <1>01, <2>1, <3>1 DEF Failed
  <2>3. CASE InTransaction(call) /\ call.kind = "get"
    BY <1>a, <1>01, <1>24, <2>1, <2>3 DEF QueryFindsNothing, Failed
  <2>4. CASE InTransaction(call) /\ call.kind = "getByFilters"
    <3>1. call.hooked
      BY <2>4 DEF InTransaction, Queries
    <3>2. work = tables /\ Where(tables, call, user) # {} /\ account = user
      BY <1>a, <2>1, <2>4, <3>1 DEF CallInv
    <3>3. Where(work, call, account) \subseteq Nat
      BY ConstantsAssumption DEF Where
    <3>4. First(Where(work, call, account)) # {}
      BY <3>2, <3>3, FirstExists
    <3>5. Found(call) = First(Where(work, call, account))
      BY <2>4 DEF Found
    <3> QED
      BY <1>24, <3>4, <3>5 DEF QueryFindsNothing
  <2> QED
    BY <1>24, <2>2, <2>3, <2>4 DEF QueryFindsNothing
<1>25. CASE QueryFails
  BY <1>a, <1>0, <1>01, <1>25, FailStep DEF QueryFails, AStatementFails, Failed
<1>26. CASE UNCHANGED vars
  BY <1>a, <1>26 DEF vars, InTransaction, ClearsAccount
<1> QED
  BY <1>1, <1>2, <1>3, <1>4, <1>5, <1>6, <1>7, <1>8, <1>9, <1>10, <1>11, <1>12, <1>13, <1>14, <1>15,
     <1>16, <1>17, <1>18, <1>19, <1>20, <1>21, <1>22, <1>23, <1>24, <1>25, <1>26
  DEF Next, DataStoreStep

(* Calls that the code does not treat as defective stay such.              *)
LEMMA CallStep ==
  ASSUME EntityInv, ~Deviations, [Next]_vars
  PROVE  CallInv'
<1>a. CallInv /\ TypeInv /\ TransactionInv
  BY DEF EntityInv
<1>b. NoCall.kind = "none"
  BY DEF NoCall
<1>1. ASSUME NEW op \in Ops, Ask(op) PROVE CallInv'
  <2>1. /\ ~Defective(op) /\ call' = op /\ phase' = "begin" /\ tx = "none"
        /\ tables' = tables /\ work' = work /\ user' = user
    BY <1>1, <1>a DEF Ask, TransactionInv
  <2>2. work = tables
    BY <1>a, <2>1 DEF TypeInv, TypeOK
  <2> QED
    BY <2>1, <2>2 DEF CallInv, Defective
<1>2. CASE call' = call /\ ~(call.kind = "getByFilters" /\ phase' \in {"begin", "query"})
  BY <1>a, <1>2 DEF CallInv
<1>3. CASE call' = NoCall
  BY <1>b, <1>3 DEF CallInv
<1>4. CASE Begin
  BY <1>a, <1>4 DEF Begin, CallInv
<1>5. CASE UNCHANGED vars
  BY <1>a, <1>5 DEF vars, CallInv
<1>6. CASE BeginFails
  BY <1>3, <1>6 DEF BeginFails, Answer
<1>7. Fail => call' \in {call, NoCall} /\ phase' \in {"idle", "failing"}
  BY DEF Fail, Answer
<1>9. CASE CheckOwner \/ PreHooksPass \/ PreHookRefuses \/ InsertRoot \/ UpdateVersion \/ WriteFails \/ Send
  BY <1>2, <1>3, <1>7, <1>9 DEF CheckOwner, PreHooksPass, PreHookRefuses, InsertRoot, UpdateVersion,
    WriteFails, Send
<1>10. CASE ReadEntity
  <2>1. phase = "read" => call.kind # "getByFilters"
    BY <1>a DEF TypeInv, PhaseInv, Queries
  <2> QED
    BY <1>2, <1>3, <1>7, <1>10, <2>1 DEF ReadEntity
<1>11. CASE ReadEntityFails
  BY <1>2, <1>3, <1>7, <1>11 DEF ReadEntityFails
<1>12. CASE Execute \/ ExecuteFails
  <2>1. phase \in {"run", "failing"}
    BY <1>12, NextStatement DEF Execute, ExecuteFails
  <2> QED
    BY <1>2, <1>12, <2>1 DEF Execute, ExecuteFails, BranchFails
<1>13. CASE AllAnswered \/ ReadBackFails \/ PostHookPasses \/ PostHookRefuses \/ PostHookThrows
            \/ CommitFails \/ QueryFails
  BY <1>2, <1>3, <1>7, <1>13 DEF AllAnswered, ReadBackFails, PostHookPasses, PostHookRefuses,
    PostHookThrows, CommitFails, QueryFails
<1>14. CASE ExecuteRollback \/ Commit \/ QueryFindsNothing
  BY <1>3, <1>14 DEF ExecuteRollback, Commit, QueryFindsNothing, Answer
<1>15. CASE Query
  BY <1>2, <1>3, <1>15 DEF Query, Answer
<1> QED
  BY <1>1, <1>4, <1>5, <1>6, <1>9, <1>10, <1>11, <1>12, <1>13, <1>14, <1>15 DEF Next, DataStoreStep

(* The rows after the next of the statements sent in parallel.             *)
LEMMA StatementEffect ==
  ASSUME EntityInv, phase = "run", queue # <<>>, NEW u, u = Effect(work, Head(queue))
  PROVE  /\ WellFormed(u) /\ NoOrphansIn(u)
         /\ call.kind \in Growing => Exists(u, seen)
         /\ Head(queue).do \in Children => u.root = work.root /\ Cleared(work, Head(queue), u)
<1> DEFINE s == Head(queue)
<1>1. /\ Fits(call, seen, s) /\ s = queue[1] /\ Len(queue) \in Nat \ {0} /\ call \in Ops
      /\ IsSequence(queue)
  BY NextStatement
<1>2. /\ WellFormed(work) /\ NoOrphansIn(work)
      /\ call.kind \in Growing => Exists(work, seen)
  BY DEF EntityInv, RowsInv, HasEntity
<1>3. call.kind \in Kinds /\ call.kind \notin Queries
  BY <1>1, OpsAreCalls DEF EntityInv, TypeInv, PhaseInv
<1>4. s.do \in StatementsOf(call.kind)
  BY <1>1 DEF Fits
<1> HIDE DEF s
<1>5. /\ s.do # "updateSubs"
      /\ s.do \in {"insertSub", "insertValue", "insertLink", "updateRoot"} => call.kind \in Growing
      /\ s.do \in Children \union {"deleteRoots"} => call.kind \in Deleting
      /\ call.kind \in Deleting => call.kind \notin Growing
  BY <1>3, <1>4, StatementsOfKinds
  DEF Kinds, AddingOrRemovingSubs, AddingSubs, ChangingValues, Growing, Children, Deleting, DeletingOne
<1>6. s.do \in {"insertSub", "insertValue", "insertLink", "updateRoot"} => Exists(work, s.fk)
  BY <1>1, <1>2, <1>5 DEF Fits
<1>7. u = Effect(work, s)
  BY DEF s
<1>8. CASE s.do \in {"updateRoot", "updateRoots"}
  <2>1. s.do = "updateRoot" => s.version \in Nat \ {0}
    BY <1>1 DEF Fits
  <2>2. /\ WellFormed(u) /\ NoOrphansIn(u)
        /\ \A i \in EntityIds : work.root[i] # Absent => u.root[i] # Absent
    BY <1>2, <1>6, <1>7, <1>8, <2>1, RootsUpdated
  <2> QED
    BY <1>2, <1>8, <2>2 DEF Exists, Children, s
<1>9. CASE s.do = "deleteRoots"
  <2>0. PICK who : who = DeletesAs(call, account)
    OBVIOUS
  <2>1. call.kind \in Deleting /\ DeletesLeft(call, who, work, queue)
    BY <1>5, <1>9, <2>0 DEF EntityInv, RunInv
  <2>3. queue[1].do = "deleteRoots" /\ Len(queue) # 0
    BY <1>1, <1>9
  <2>4. /\ Len(queue) = 1 /\ s = DeleteWhere("deleteRoots", call, who)
        /\ ChildlessIn(work.subs, Targets(work, call, who))
        /\ ChildlessIn(work.vals, Targets(work, call, who))
        /\ ChildlessIn(work.links, Targets(work, call, who))
    BY <1>1, <2>1, <2>3 DEF DeletesLeft, DeleteWhere
  <2>5. s.op = call /\ s.as = who
    BY <2>4 DEF DeleteWhere
  <2>6. ChildlessIn(work.subs \union work.vals \union work.links, Targets(work, call, who))
    BY <2>4 DEF ChildlessIn
  <2>7. Where(work, call, who) \subseteq Targets(work, call, who)
    BY <1>1, <2>0, OpsAssumption DEF Where, Targets
  <2>8. ChildlessIn(work.subs \union work.vals \union work.links, Where(work, s.op, s.as))
    BY <2>5, <2>6, <2>7 DEF ChildlessIn
  <2>9. WellFormed(u) /\ NoOrphansIn(u)
    BY <1>2, <1>7, <1>9, <2>8, RootsDeleted
  <2> QED
    BY <1>5, <1>9, <2>9 DEF Children, s
<1>10. CASE s.do \notin {"updateRoot", "updateRoots", "deleteRoots"}
  <2>1. WellFormed(u) /\ NoOrphansIn(u) /\ u.root = work.root /\ Cleared(work, s, u)
    BY <1>2, <1>5, <1>6, <1>7, <1>10, ChildrenChange
  <2> QED
    BY <1>2, <2>1 DEF Exists, s
<1> QED
  BY <1>8, <1>9, <1>10

(* Behind a failed statement only those remain that do nothing.            *)
LEMMA QuietStatement ==
  ASSUME EntityInv, phase = "failing", tx # "failed", queue # <<>>, Head(queue) # Rollback,
         ~NotFound(work, Head(queue))
  PROVE  /\ tx = "active" /\ Head(queue).do = "selectSub" /\ Then(Head(queue)) = <<>>
         /\ Effect(work, Head(queue)) = work
<1>1. tx = "active"
  BY OpsAreCalls DEF EntityInv, TypeInv, TypeOK, PhaseInv, Begun, TransactionInv
<1>2. Head(queue) = queue[1] /\ 1 \in 1..Len(queue)
  BY NextStatement
<1>3. Quiet(Head(queue)) \/ Head(queue) = Rollback
  BY <1>1, <1>2 DEF EntityInv, FailingInv
<1> QED
  BY <1>1, <1>3 DEF Quiet, Then, Effect, NotFound

(* Rows that are committed, or rolled back, are rows as before.            *)
LEMMA RowsKept ==
  ASSUME RowsInv, tables' \in {tables, work}, work' \in {tables, work},
         HasEntity' => work' = work /\ Exists(work, seen')
  PROVE  RowsInv'
<1>1. HasEntity' => Exists(work', seen')
  OBVIOUS
<1> QED
  BY <1>1 DEF RowsInv

(* Every step keeps every child row with its root row.                     *)
LEMMA RowsStep ==
  ASSUME EntityInv, [Next]_vars
  PROVE  RowsInv'
<1>a. RowsInv /\ TypeInv /\ TransactionInv /\ CallInv
  BY DEF EntityInv
<1>b. phase # "idle" => call \in Ops /\ call # NoCall /\ call.kind \in Kinds
  BY <1>a, OpsAreCalls DEF TypeInv, TypeOK, PhaseInv
<1>c. Fail => phase' \in {"idle", "failing"} /\ call' \in {call, NoCall}
  BY DEF Fail, Answer
<1>d. phase' \in {"idle", "begin", "check", "read", "insert", "query", "posthook", "commit", "failing"}
        => ~HasEntity'
  BY DEF HasEntity
<1>1. ASSUME NEW op \in Ops, Ask(op) PROVE RowsInv'
  BY <1>a, <1>d, <1>1, RowsKept DEF Ask
<1>2. CASE Begin
  <2>1. /\ phase = "begin" /\ call' = call /\ tables' = tables /\ work' = work
        /\ phase' \in {"check", "query", "read", "send"}
        /\ phase' = "send" => call.kind \notin Growing
    BY <1>b, <1>2 DEF Begin, ReadsFirst, Growing, Kinds, Queries, AddingOrRemovingSubs, AddingSubs,
      RemovingSubs, ChangingValues, Deleting, DeletingOne
  <2>2. ~HasEntity'
    BY <2>1 DEF HasEntity
  <2> QED
    BY <1>a, <2>1, <2>2, RowsKept
<1>3. CASE BeginFails
  BY <1>a, <1>d, <1>3, RowsKept DEF BeginFails, Answer
<1>4. CASE CheckOwner
  <2>1. phase = "check" /\ call.kind = "create"
    BY <1>a, <1>4 DEF CheckOwner, TypeInv, PhaseInv
  <2>2. ~HasEntity'
    BY <1>c, <1>4, <2>1 DEF CheckOwner, HasEntity
  <2> QED
    BY <1>a, <1>4, <2>2, RowsKept DEF CheckOwner
<1>5. CASE ReadEntity
  <2>1. /\ phase = "read" /\ tables' = tables /\ work' = work
    BY <1>5 DEF ReadEntity
  <2>2. CASE seen' \in First(Where(work, call, account)) /\ call' = call
    <3>1. Exists(work, seen')
      BY <2>2 DEF First, Where, Exists
    <3> QED
      BY <1>a, <2>1, <3>1, RowsKept
  <2>3. CASE call.kind = "removeSubsByFilters" /\ call' = call /\ phase' = "send"
    <3>1. ~HasEntity'
      BY <2>3 DEF HasEntity, Growing, ChangingValues, AddingSubs
    <3> QED
      BY <1>a, <2>1, <3>1, RowsKept
  <2>4. CASE Fail
    BY <1>a, <1>c, <1>d, <2>1, <2>4, RowsKept
  <2> QED
    BY <1>5, <2>2, <2>3, <2>4 DEF ReadEntity
<1>6. CASE ReadEntityFails
  <2>1. /\ phase = "read" /\ tables' = tables /\ work' = work
    BY <1>6 DEF ReadEntityFails
  <2>2. CASE call.kind = "removeSubsByFilters" /\ call' = call /\ phase' = "send"
    <3>1. ~HasEntity'
      BY <2>2 DEF HasEntity, Growing, ChangingValues, AddingSubs
    <3> QED
      BY <1>a, <2>1, <3>1, RowsKept
  <2>3. CASE Fail
    BY <1>a, <1>c, <1>d, <2>1, <2>3, RowsKept
  <2> QED
    BY <1>6, <2>2, <2>3 DEF ReadEntityFails
<1>7. CASE PreHooksPass
  <2>1. /\ phase = "hooks" /\ tables' = tables /\ work' = work /\ seen' = seen
    BY <1>7 DEF PreHooksPass
  <2>2. CASE Fail
    BY <1>a, <1>c, <1>d, <2>1, <2>2, RowsKept
  <2>3. CASE /\ call' = call
             /\ phase' = CASE call.kind = "create" -> "insert"
                           [] call.kind \in AddingOrRemovingSubs -> "version"
                           [] OTHER -> "send"
    <3>1. HasEntity' => HasEntity
      BY <2>1, <2>3 DEF HasEntity, AddingOrRemovingSubs, AddingSubs, RemovingSubs
    <3> QED
      BY <1>a, <2>1, <3>1, RowsKept DEF RowsInv
  <2> QED
    BY <1>7, <2>2, <2>3 DEF PreHooksPass
<1>8. CASE PreHookRefuses
  BY <1>a, <1>c, <1>d, <1>8, RowsKept DEF PreHookRefuses
<1>9. CASE InsertRoot
  <2>1. /\ call.kind = "create" /\ call \in Ops /\ serial.root \in EntityIds
        /\ seen' = serial.root /\ tables' = tables /\ call' = call
    BY <1>a, <1>b, <1>9 DEF InsertRoot, TypeInv, PhaseInv
  <2> DEFINE r == [owner |-> call.owner, version |-> 1, value |-> call.value]
  <2>2. r # Absent /\ "version" \in DOMAIN r /\ r.version = 1
    <3>1. DOMAIN r = {"owner", "version", "value"} /\ r.version = 1 /\ Absent.version = 0
      BY DEF Absent
    <3> QED
      BY <3>1
  <2>3. work' = [work EXCEPT !.root[serial.root] = r]
    BY <1>9 DEF InsertRoot
  <2> HIDE DEF r
  <2> DEFINE x == [work.root EXCEPT ![serial.root] = r]
  <2>4. /\ WellFormed(work) /\ NoOrphansIn(work) /\ WellFormed(tables) /\ NoOrphansIn(tables)
        /\ work.root = [i \in EntityIds |-> work.root[i]]
    BY <1>a DEF RowsInv, WellFormed
  <2>5. /\ x = [i \in EntityIds |-> x[i]] /\ x[serial.root] = r
        /\ \A i \in EntityIds \ {serial.root} : x[i] = work.root[i]
    BY <2>1, <2>4
  <2>6. work' = [work EXCEPT !.root = x]
    BY <2>3, <2>4 DEF WellFormed
  <2> HIDE DEF x
  <2>7. \A i \in EntityIds : x[i] = Absent \/
          ("version" \in DOMAIN x[i] /\ x[i].version \in Nat \ {0})
    BY <2>1, <2>2, <2>4, <2>5 DEF WellFormed
  <2>8. \A q \in work.subs \union work.vals \union work.links : x[q.fk] # Absent
    BY <2>1, <2>2, <2>4, <2>5 DEF NoOrphansIn
  <2>9. WellFormed(work') /\ NoOrphansIn(work') /\ work'.root = x
    BY <2>4, <2>5, <2>6, <2>7, <2>8, RootsReplaced
  <2>10. Exists(work', seen')
    BY <2>1, <2>2, <2>5, <2>9 DEF Exists
  <2> QED
    BY <2>1, <2>4, <2>9, <2>10 DEF RowsInv
<1>10. CASE UpdateVersion
  <2> DEFINE s == SetVersion(seen, work.root[seen].version + 1, 0)
  <2>1. /\ phase = "version" /\ call.kind \in AddingOrRemovingSubs
        /\ tables' = tables /\ seen' = seen /\ work' = Effect(work, s)
    BY <1>a, <1>10 DEF UpdateVersion, TypeInv, PhaseInv
  <2>2. Exists(work, seen)
    BY <1>a, <2>1 DEF RowsInv, HasEntity, AddingOrRemovingSubs, AddingSubs, RemovingSubs
  <2>3. s.do = "updateRoot" /\ s.fk = seen /\ s.version \in Nat \ {0}
    BY <1>a, <2>2 DEF SetVersion, RowsInv, WellFormed, Exists
  <2> HIDE DEF s
  <2>4. WellFormed(work) /\ NoOrphansIn(work)
    BY <1>a DEF RowsInv
  <2>5. /\ WellFormed(Effect(work, s)) /\ NoOrphansIn(Effect(work, s))
        /\ \A i \in EntityIds : work.root[i] # Absent => Effect(work, s).root[i] # Absent
    BY <2>2, <2>3, <2>4, RootsUpdated
  <2>6. WellFormed(work') /\ NoOrphansIn(work') /\ Exists(work', seen')
    BY <2>1, <2>2, <2>5 DEF Exists
  <2> QED
    BY <1>a, <2>1, <2>6 DEF RowsInv
<1>11. CASE WriteFails
  BY <1>a, <1>c, <1>d, <1>11, RowsKept DEF WriteFails
<1>12. CASE Send
  <2>1. /\ phase = "send" /\ phase' = "run" /\ call' = call /\ seen' = seen
        /\ tables' = tables /\ work' = work
    BY <1>12 DEF Send
  <2>2. HasEntity' => HasEntity
    BY <2>1 DEF HasEntity
  <2> QED
    BY <1>a, <2>1, <2>2, RowsKept DEF RowsInv
<1>13. CASE Execute
  <2>1. /\ queue # <<>> /\ Head(queue) # Rollback /\ tx # "failed" /\ ~NotFound(work, Head(queue))
        /\ work' = Effect(work, Head(queue)) /\ call' = call /\ phase' = phase /\ seen' = seen
        /\ tables' = IF tx = "none" THEN Effect(tables, Head(queue)) ELSE tables
    BY <1>13 DEF Execute
  <2>2. phase \in {"run", "failing"} /\ call \in Ops
    BY <2>1, NextStatement
  <2>3. tables' = tables
    BY <1>a, <2>1, <2>2, OpsAreCalls DEF TypeInv, PhaseInv, Begun
  <2>4. CASE phase = "failing"
    <3>1. work' = work
      BY <2>1, <2>4, QuietStatement
    <3> QED
      BY <1>a, <1>d, <2>1, <2>3, <2>4, <3>1, RowsKept
  <2>5. CASE phase = "run"
    <3>1. /\ WellFormed(work') /\ NoOrphansIn(work')
          /\ call.kind \in Growing => Exists(work', seen)
      BY <2>1, <2>5, StatementEffect
    <3>2. HasEntity' => Exists(work', seen')
      BY <2>1, <2>5, <3>1 DEF HasEntity
    <3> QED
      BY <1>a, <2>3, <3>1, <3>2 DEF RowsInv
  <2> QED
    BY <2>2, <2>4, <2>5
<1>14. CASE ExecuteFails
  <2>1. /\ tables' = tables /\ work' = work /\ seen' = seen /\ call' = call
        /\ phase' \in {phase, "failing"}
    BY <1>14 DEF ExecuteFails, BranchFails
  <2>2. HasEntity' => HasEntity
    BY <2>1 DEF HasEntity
  <2> QED
    BY <1>a, <2>1, <2>2, RowsKept DEF RowsInv
<1>15. CASE ExecuteRollback
  BY <1>a, <1>d, <1>15, RowsKept DEF ExecuteRollback, Answer
<1>16. CASE AllAnswered \/ ReadBackFails \/ PostHookPasses
  BY <1>a, <1>d, <1>16, RowsKept DEF AllAnswered, ReadBackFails, PostHookPasses
<1>17. CASE PostHookRefuses \/ PostHookThrows \/ CommitFails \/ QueryFails
  BY <1>a, <1>c, <1>d, <1>17, RowsKept DEF PostHookRefuses, PostHookThrows, CommitFails, QueryFails
<1>18. CASE Commit
  BY <1>a, <1>d, <1>18, RowsKept DEF Commit, Answer
<1>19. CASE Query
  BY <1>a, <1>d, <1>19, RowsKept DEF Query, Answer
<1>20. CASE QueryFindsNothing
  BY <1>a, <1>d, <1>20, RowsKept DEF QueryFindsNothing, Answer
<1>21. CASE UNCHANGED vars
  <2>1. HasEntity' = HasEntity /\ tables' = tables /\ work' = work /\ seen' = seen
    BY <1>21 DEF vars, HasEntity
  <2> QED
    BY <1>a, <2>1, RowsKept DEF RowsInv
<1> QED
  BY <1>1, <1>2, <1>3, <1>4, <1>5, <1>6, <1>7, <1>8, <1>9, <1>10, <1>11, <1>12, <1>13, <1>14, <1>15,
     <1>16, <1>17, <1>18, <1>19, <1>20, <1>21
  DEF Next, DataStoreStep

(* What an answered statement makes its branch send fits the operation.    *)
LEMMA ThenFits ==
  ASSUME EntityInv, phase = "run", queue # <<>>, ~NotFound(work, Head(queue))
  PROVE  \/ Then(Head(queue)) = <<>>
         \/ /\ \E s : /\ Then(Head(queue)) = <<s>>
                      /\ Fits(call, seen, s)
                      /\ call.kind = "addSubsByFilters" => s.do = "selectSub"
            /\ call.kind \notin Deleting
<1> DEFINE s == Head(queue)
<1>1. Fits(call, seen, s) /\ call \in Ops
  BY NextStatement
<1>2. call.kind \in Kinds /\ call.kind \notin Queries
  BY <1>1, OpsAreCalls DEF EntityInv, TypeInv, PhaseInv
<1>3. s.do \in StatementsOf(call.kind)
  BY <1>1 DEF Fits
<1>4. ~NotFound(work, s)
  OBVIOUS
<1> HIDE DEF s
<1>5. CASE s.do = "selectLink"
  <2>1. call.kind = "addLinks"
    BY <1>2, <1>3, <1>5, StatementsOfKinds
    DEF Kinds, AddingOrRemovingSubs, AddingSubs, ChangingValues, Children
  <2> DEFINE x == InsertLink(s.fk, s.link)
  <2>2. x.do = "insertLink" /\ x.fk = s.fk /\ x.link = s.link
    BY DEF InsertLink
  <2>3. s.link \in Linkable
    BY <1>4, <1>5 DEF NotFound
  <2>4. Then(s) = <<x>>
    BY <1>5 DEF Then
  <2> HIDE DEF x
  <2>5. Fits(call, seen, x)
    BY <1>1, <1>5, <2>1, <2>2, <2>3, StatementsOfKinds DEF Fits
  <2> QED
    BY <2>1, <2>4, <2>5 DEF Deleting, DeletingOne, s
<1>6. CASE s.do = "replaceValue"
  <2>1. call.kind = "update"
    BY <1>2, <1>3, <1>6, StatementsOfKinds
    DEF Kinds, AddingOrRemovingSubs, AddingSubs, ChangingValues, Children
  <2> DEFINE x == InsertValue(s.fk, s.id, s.value)
  <2>2. x.do = "insertValue" /\ x.fk = s.fk
    BY DEF InsertValue
  <2>3. Then(s) = <<x>>
    BY <1>6 DEF Then
  <2> HIDE DEF x
  <2>4. Fits(call, seen, x)
    BY <1>1, <1>6, <2>1, <2>2, StatementsOfKinds DEF Fits
  <2> QED
    BY <2>1, <2>3, <2>4 DEF Deleting, DeletingOne, s
<1>7. CASE s.do = "insertSub" /\ s.readBack
  <2>1. call.kind = "addSubsByFilters"
    BY <1>1, <1>7 DEF Fits
  <2> DEFINE x == [do |-> "selectSub", id |-> serial.sub]
  <2>2. x.do = "selectSub"
    OBVIOUS
  <2>3. Then(s) = <<x>>
    BY <1>7 DEF Then
  <2> HIDE DEF x
  <2>4. Fits(call, seen, x)
    BY <2>1, <2>2, StatementsOfKinds DEF Fits
  <2> QED
    BY <2>1, <2>2, <2>3, <2>4 DEF Deleting, DeletingOne, s
<1>8. CASE s.do \notin {"selectLink", "replaceValue"} /\ ~(s.do = "insertSub" /\ s.readBack)
  BY <1>8 DEF Then, s
<1> QED
  BY <1>5, <1>6, <1>7, <1>8

(* Statements that read a new sub-entity back are sent by one operation.   *)
LEMMA ReadsBack ==
  ASSUME NEW op \in Ops, op.kind \notin Queries, NEW i, NEW s, Fits(op, i, s), s.do = "selectSub"
  PROVE  op.kind = "addSubsByFilters"
<1>1. op.kind \in Kinds
  BY OpsAreCalls
<1> QED
  BY <1>1, StatementsOfKinds
  DEF Fits, Kinds, AddingOrRemovingSubs, AddingSubs, ChangingValues, Children

(* A deletion after one of its statements.                                 *)
LEMMA DeletesStep ==
  ASSUME NEW op, NEW who, NEW t, NEW u, NEW q, NEW p, DeletesLeft(op, who, t, q),
         IsSequence(q), q # <<>>, Len(p) = Len(q) - 1,
         \A k \in 1..(Len(q) - 1) : p[k] = q[k + 1],
         q[1].do \in Children => u.root = t.root /\ Cleared(t, q[1], u)
  PROVE  DeletesLeft(op, who, u, p)
<1>1. Len(q) \in Nat \ {0}
  BY SequenceFacts
<1>2. CASE Len(q) = 1
  BY <1>2 DEF DeletesLeft
<1>3. ASSUME q[1] \in {DeleteWhere("deleteSubs", op, who), DeleteWhere("deleteValues", op, who),
                       DeleteWhere("deleteLinks", op, who)}
      PROVE  /\ Targets(u, op, who) = Targets(t, op, who)
             /\ u.subs \subseteq t.subs /\ u.vals \subseteq t.vals /\ u.links \subseteq t.links
             /\ q[1].op = op /\ q[1].as = who
             /\ Cleared(t, q[1], u)
  <2>1. q[1].op = op /\ q[1].as = who /\ q[1].do \in Children
    BY <1>3 DEF DeleteWhere, Children
  <2>2. u.root = t.root /\ Cleared(t, q[1], u)
    BY <2>1
  <2>3. Targets(u, op, who) = Targets(t, op, who)
    BY <2>2 DEF Targets, Where
  <2> QED
    BY <2>1, <2>2, <2>3 DEF Cleared
<1>4. CASE Len(q) = 2
  <2>1. /\ q[1] = DeleteWhere("deleteLinks", op, who)
        /\ q[2] = DeleteWhere("deleteRoots", op, who)
        /\ ChildlessIn(t.subs, Targets(t, op, who))
        /\ ChildlessIn(t.vals, Targets(t, op, who))
    BY <1>4 DEF DeletesLeft
  <2>2. p[1] = q[2] /\ Len(p) = 1
    BY <1>4
  <2>3. q[1].do = "deleteLinks"
    BY <2>1 DEF DeleteWhere
  <2>4. ChildlessIn(u.links, Targets(u, op, who))
    BY <1>3, <2>1, <2>3 DEF Cleared
  <2>5. ChildlessIn(u.subs, Targets(u, op, who)) /\ ChildlessIn(u.vals, Targets(u, op, who))
    BY <1>3, <2>1 DEF ChildlessIn
  <2> QED
    BY <2>1, <2>2, <2>4, <2>5 DEF DeletesLeft
<1>5. CASE Len(q) = 3
  <2>1. /\ q[1] = DeleteWhere("deleteValues", op, who)
        /\ q[2] = DeleteWhere("deleteLinks", op, who)
        /\ q[3] = DeleteWhere("deleteRoots", op, who)
        /\ ChildlessIn(t.subs, Targets(t, op, who))
    BY <1>5 DEF DeletesLeft
  <2>2. p[1] = q[2] /\ p[2] = q[3] /\ Len(p) = 2
    BY <1>5
  <2>3. q[1].do = "deleteValues"
    BY <2>1 DEF DeleteWhere
  <2>4. ChildlessIn(u.vals, Targets(u, op, who))
    BY <1>3, <2>1, <2>3 DEF Cleared
  <2>5. ChildlessIn(u.subs, Targets(u, op, who))
    BY <1>3, <2>1 DEF ChildlessIn
  <2> QED
    BY <2>1, <2>2, <2>4, <2>5 DEF DeletesLeft
<1>6. CASE Len(q) = 4
  <2>1. /\ q[1] = DeleteWhere("deleteSubs", op, who)
        /\ q[2] = DeleteWhere("deleteValues", op, who)
        /\ q[3] = DeleteWhere("deleteLinks", op, who)
        /\ q[4] = DeleteWhere("deleteRoots", op, who)
    BY <1>6 DEF DeletesLeft
  <2>2. p[1] = q[2] /\ p[2] = q[3] /\ p[3] = q[4] /\ Len(p) = 3
    BY <1>6
  <2>3. q[1].do = "deleteSubs"
    BY <2>1 DEF DeleteWhere
  <2>4. ChildlessIn(u.subs, Targets(u, op, who))
    BY <1>3, <2>1, <2>3 DEF Cleared
  <2> QED
    BY <2>1, <2>2, <2>4 DEF DeletesLeft
<1> QED
  BY <1>1, <1>2, <1>4, <1>5, <1>6 DEF DeletesLeft

(* Every step keeps the statements sent in parallel in their order.        *)
LEMMA RunStep ==
  ASSUME EntityInv, [Next]_vars
  PROVE  RunInv'
<1>a. /\ RowsInv /\ TypeInv /\ TransactionInv /\ CallInv /\ RunInv
      /\ phase # "idle" => call \in Ops /\ call # NoCall
  BY DEF EntityInv, TypeInv, TypeOK, PhaseInv
<1>b. phase' # "run" => RunInv'
  BY DEF RunInv
<1>c. Fail => phase' # "run"
  BY DEF Fail, Answer
<1>1. CASE \E op \in Ops : Ask(op)
  BY <1>b, <1>1 DEF Ask
<1>2. CASE \/ Begin \/ BeginFails \/ CheckOwner \/ ReadEntity \/ ReadEntityFails
           \/ PreHooksPass \/ PreHookRefuses
  BY <1>b, <1>c, <1>2 DEF Begin, BeginFails, CheckOwner, ReadEntity, ReadEntityFails,
    PreHooksPass, PreHookRefuses, Answer
<1>3. CASE InsertRoot \/ UpdateVersion \/ WriteFails
  BY <1>b, <1>c, <1>3 DEF InsertRoot, UpdateVersion, WriteFails
<1>4. CASE Send
  <2>1. /\ phase = "send" /\ phase' = "run" /\ call' = call /\ seen' = seen /\ work' = work
        /\ queue' = Statements(call, seen)
        /\ account' = IF ClearsAccount THEN NoAccount ELSE account
    BY <1>4 DEF Send
  <2>2. call \in Ops /\ call.kind \notin Queries /\ (call.kind = "update" => call.subs = {})
    BY <1>a, <2>1 DEF TypeInv, PhaseInv, CallInv
  <2>3. WellFormed(work) /\ (call.kind \in Growing => Exists(work, seen))
    BY <1>a, <2>1 DEF RowsInv, HasEntity
  <2> DEFINE q == Statements(call, seen)
             who == DeletesAs(call, account)
  <2>4. /\ Fitting(call, seen, q)
        /\ call.kind \in Deleting => q = DeleteStatements(call, who)
    BY <2>2, <2>3, StatementsFit DEF DeletesAs
  <2>5. call.kind \in Deleting => account' = account
    BY <2>1 DEF ClearsAccount, AddingOrRemovingSubs, AddingSubs, RemovingSubs, Deleting, DeletingOne
  <2> HIDE DEF q, who
  <2>6. /\ IsSequence(q)
        /\ \A k \in 1..Len(q) : Fits(call, seen, q[k]) /\ q[k].do # "selectSub"
    BY <2>4, SequenceFacts DEF Fitting, Elements
  <2>7. ASSUME call.kind \in Deleting PROVE DeletesLeft(call, who, work, q)
    <3>1. q = DeleteStatements(call, who)
      BY <2>4, <2>7
    <3> QED
      BY <3>1 DEF DeleteStatements, DeletesLeft
  <2>8. q = queue' /\ (call.kind \in Deleting => who = DeletesAs(call', account'))
    BY <2>1, <2>5 DEF q, who
  <2> QED
    BY <2>1, <2>6, <2>7, <2>8 DEF RunInv
<1>5. CASE Execute
  <2>1. /\ queue # <<>> /\ ~NotFound(work, Head(queue)) /\ work' = Effect(work, Head(queue))
        /\ queue' = Tail(queue) \o Then(Head(queue))
        /\ call' = call /\ phase' = phase /\ seen' = seen /\ account' = account
    BY <1>5 DEF Execute
  <2>2. SUFFICES ASSUME phase = "run" PROVE RunInv'
    BY <1>b, <2>1
  <2>3. /\ IsSequence(queue) /\ Len(queue) \in Nat \ {0} /\ Head(queue) = queue[1]
        /\ call \in Ops /\ call.kind \notin Queries
    BY <1>a, <2>1, <2>2, NextStatement DEF TypeInv, PhaseInv
  <2> DEFINE t == Tail(queue)
             n == Len(queue) - 1
             q == queue
  <2>4. /\ \A k \in 1..Len(q) : Fits(call, seen, q[k])
        /\ \A j, k \in 1..Len(q) : j < k /\ q[j].do = "selectSub" => q[k].do = "selectSub"
    BY <1>a, <2>2 DEF RunInv
  <2>5. /\ IsSequence(t) /\ Len(t) = n /\ n \in Nat
        /\ \A k \in 1..n : t[k] = q[k + 1] /\ k + 1 \in 1..Len(q)
    BY <2>1, <2>3, SequenceFacts
  <2> HIDE DEF t
  <2>6. /\ \A k \in 1..n : Fits(call, seen, t[k])
        /\ \A j, k \in 1..n : j < k /\ t[j].do = "selectSub" => t[k].do = "selectSub"
    <3>1. \A k \in 1..n : Fits(call, seen, t[k])
      BY <2>4, <2>5
    <3>2. ASSUME NEW j \in 1..n, NEW k \in 1..n, j < k, t[j].do = "selectSub"
          PROVE  t[k].do = "selectSub"
      <4>1. j + 1 \in 1..Len(q) /\ k + 1 \in 1..Len(q) /\ j + 1 < k + 1
        BY <2>5, <3>2
      <4>2. q[j + 1].do = "selectSub"
        BY <2>5, <3>2
      <4>3. q[k + 1].do = "selectSub"
        BY <2>4, <4>1, <4>2
      <4> QED
        BY <2>5, <4>3
    <3> QED
      BY <3>1, <3>2
  <2>7. CASE Then(Head(queue)) = <<>>
    <3>1. queue' = t
      BY <2>1, <2>5, <2>7, AppendFacts DEF t
    <3>2. ASSUME call.kind \in Deleting
          PROVE  DeletesLeft(call', DeletesAs(call', account'), work', queue')
      <4> DEFINE w == work'
                 d == DeletesAs(call, account)
      <4>1. DeletesLeft(call, d, work, queue)
        BY <1>a, <2>2, <3>2 DEF RunInv
      <4>2. queue[1].do \in Children => w.root = work.root /\ Cleared(work, queue[1], w)
        BY <2>1, <2>2, <2>3, StatementEffect
      <4> HIDE DEF w, d
      <4>3. DeletesLeft(call, d, w, t)
        BY <2>1, <2>3, <2>5, <4>1, <4>2, DeletesStep
      <4> QED
        BY <2>1, <3>1, <4>3 DEF w, d
    <3> HIDE DEF n, q
    <3> QED
      BY <2>1, <2>2, <2>5, <2>6, <3>1, <3>2 DEF RunInv
  <2>8. ASSUME NEW s, Then(Head(queue)) = <<s>>, Fits(call, seen, s),
               call.kind = "addSubsByFilters" => s.do = "selectSub", call.kind \notin Deleting
        PROVE  RunInv'
    <3> DEFINE p == Append(t, s)
    <3>1. queue' = p
      BY <2>1, <2>5, <2>8, AppendFacts DEF t
    <3>2. /\ IsSequence(p) /\ Len(p) = n + 1
          /\ \A k \in 1..n : p[k] = t[k]
          /\ p[n + 1] = s
      BY <2>5, AppendFacts
    <3> HIDE DEF p
    <3>3. ASSUME NEW k \in 1..(n + 1) PROVE Fits(call, seen, p[k])
      <4>1. k \in 1..n \/ k = n + 1
        BY <2>5
      <4> QED
        BY <2>6, <2>8, <3>2, <4>1
    <3>4. ASSUME NEW j \in 1..(n + 1), NEW k \in 1..(n + 1), j < k, p[j].do = "selectSub"
          PROVE  p[k].do = "selectSub"
      <4>1. j \in 1..n /\ (k \in 1..n \/ k = n + 1)
        <5> HIDE DEF n
        <5> QED
          BY <2>5, <3>4
      <4>2. CASE k \in 1..n
        BY <2>6, <3>2, <3>4, <4>1, <4>2
      <4>3. CASE k = n + 1
        <5>1. call.kind = "addSubsByFilters"
          BY <2>3, <3>3, <3>4, ReadsBack
        <5> QED
          BY <2>8, <3>2, <4>3, <5>1
      <4> QED
        BY <4>1, <4>2, <4>3
    <3> HIDE DEF n, q
    <3> QED
      BY <2>1, <2>8, <3>1, <3>2, <3>3, <3>4 DEF RunInv
  <2> QED
    BY <2>1, <2>2, <2>7, <2>8, ThenFits
<1>6. CASE ExecuteFails
  BY <1>b, <1>6 DEF ExecuteFails, BranchFails
<1>7. CASE \/ ExecuteRollback \/ AllAnswered \/ ReadBackFails \/ PostHookPasses
           \/ PostHookRefuses \/ PostHookThrows \/ Commit \/ CommitFails
  BY <1>b, <1>c, <1>7 DEF ExecuteRollback, AllAnswered, ReadBackFails, PostHookPasses,
    PostHookRefuses, PostHookThrows, Commit, CommitFails, Answer
<1>8. CASE Query \/ QueryFindsNothing \/ QueryFails
  BY <1>b, <1>c, <1>8 DEF Query, QueryFindsNothing, QueryFails, Answer
<1>9. CASE UNCHANGED vars
  BY <1>a, <1>9 DEF vars, RunInv
<1> QED
  BY <1>1, <1>2, <1>3, <1>4, <1>5, <1>6, <1>7, <1>8, <1>9 DEF Next, DataStoreStep

(* Behind a row that an operation does not find, it has nothing to change. *)
LEMMA NotFoundIsQuiet ==
  ASSUME EntityInv, phase = "run", queue # <<>>, NotFound(work, Head(queue)),
         NEW k \in 1..Len(queue)
  PROVE  Quiet(queue[k])
<1>1. /\ Head(queue) = queue[1] /\ 1 \in 1..Len(queue) /\ call \in Ops
      /\ IsSequence(queue) /\ Len(queue) \in Nat
  BY NextStatement
<1>2. Fits(call, seen, queue[1]) /\ Fits(call, seen, queue[k])
  BY <1>1 DEF EntityInv, RunInv
<1>3. CASE Head(queue).do = "selectSub"
  <2>1. k = 1 \/ 1 < k
    BY <1>1
  <2>2. queue[k].do = "selectSub"
    BY <1>1, <1>3, <2>1 DEF EntityInv, RunInv
  <2> QED
    BY <2>2 DEF Quiet
<1>4. CASE Head(queue).do = "selectLink" /\ Head(queue).link \notin Linkable
  <2>1. call.kind \in Kinds /\ call.kind \notin Queries
    BY <1>1, OpsAreCalls DEF EntityInv, TypeInv, PhaseInv
  <2>2. call.kind = "addLinks"
    BY <1>1, <1>2, <1>4, <2>1, StatementsOfKinds
    DEF Fits, Kinds, AddingOrRemovingSubs, AddingSubs, ChangingValues, Children
  <2>3. call.links \intersect Linkable = {}
    BY <1>1, <1>2, <1>4, <2>2 DEF EntityInv, CallInv, Fits
  <2>4. queue[k].link \notin Linkable /\ queue[k].do \in {"selectLink", "insertLink"}
    BY <1>2, <2>2, <2>3, StatementsOfKinds DEF Fits
  <2> QED
    BY <1>2, <2>2, <2>4 DEF Fits, Quiet
<1> QED
  BY <1>3, <1>4 DEF NotFound

(* No statement sent in parallel is a ROLLBACK.                            *)
LEMMA FitsNotRollback ==
  ASSUME NEW op \in Ops, op.kind \notin Queries, NEW i, NEW s, Fits(op, i, s)
  PROVE  s # Rollback
<1>1. op.kind \in Kinds
  BY OpsAreCalls
<1>2. "rollback" \notin StatementsOf(op.kind)
  BY <1>1, StatementsOfKinds DEF Kinds, AddingOrRemovingSubs, AddingSubs, ChangingValues, Children
<1>3. s.do # "rollback"
  BY <1>2 DEF Fits
<1> QED
  BY <1>3 DEF Rollback

(* One statement less before the ROLLBACK.                                 *)
LEMMA TailStillFails ==
  ASSUME FailingInv, phase = "failing", Head(queue) # Rollback,
         phase' = phase, queue' = Tail(queue), tx' = "active" => tx = "active"
  PROVE  FailingInv'
<1> DEFINE n == Len(queue) - 1
           q == queue
           t == Tail(q)
<1>1. /\ IsSequence(q) /\ q # <<>>
      /\ \A k \in 1..Len(q) : q[k] = Rollback <=> k = Len(q)
      /\ tx = "active" => \A k \in 1..Len(q) : k = Len(q) \/ Quiet(q[k])
  BY DEF FailingInv
<1>2. Len(q) \in Nat \ {0} /\ Head(q) = q[1]
  BY <1>1, SequenceFacts
<1>3. Len(q) # 1
  BY <1>1, <1>2
<1>4. /\ IsSequence(t) /\ Len(t) = n /\ n \in Nat \ {0}
      /\ \A k \in 1..n : t[k] = q[k + 1] /\ k + 1 \in 1..Len(q) /\ (k = n <=> k + 1 = Len(q))
  BY <1>1, <1>2, <1>3, SequenceFacts
<1>5. t # <<>>
  BY <1>4, SequenceFacts
<1> HIDE DEF t, n
<1>6. \A k \in 1..n : t[k] = Rollback <=> k = n
  BY <1>1, <1>4
<1>7. tx = "active" => \A k \in 1..n : k = n \/ Quiet(t[k])
  BY <1>1, <1>4
<1>8. t = queue'
  BY DEF t
<1> QED
  BY <1>4, <1>5, <1>6, <1>7, <1>8 DEF FailingInv

(* Every step leaves nothing to do but to roll back after an error.        *)
LEMMA FailingStep ==
  ASSUME EntityInv, [Next]_vars
  PROVE  FailingInv'
<1>a. TypeInv /\ TransactionInv /\ FailingInv /\ RunInv
  BY DEF EntityInv
<1>b. phase' # "failing" => FailingInv'
  BY DEF FailingInv
<1>c. ASSUME Fail, queue = <<>> PROVE FailingInv'
  <2> DEFINE q == <<Rollback>>
  <2>1. q = [k \in 1..1 |-> q[k]]
    OBVIOUS
  <2>2. q[1] = Rollback /\ q # <<>>
    OBVIOUS
  <2>3. phase' = "failing" => queue' = q
    BY <1>c DEF Fail, Answer
  <2> HIDE DEF q
  <2>4. IsSequence(q) /\ Len(q) = 1
    BY <2>1, FunctionIsSequence
  <2>5. \A k \in 1..1 : k = 1
    OBVIOUS
  <2> QED
    BY <1>b, <2>2, <2>3, <2>4, <2>5 DEF FailingInv
<1>1. CASE \E op \in Ops : Ask(op)
  BY <1>b, <1>1 DEF Ask
<1>2. CASE \/ Begin \/ BeginFails \/ CheckOwner \/ ReadEntity \/ ReadEntityFails
           \/ PreHooksPass \/ PreHookRefuses
  BY <1>a, <1>b, <1>c, <1>2 DEF Begin, BeginFails, CheckOwner, ReadEntity, ReadEntityFails,
    PreHooksPass, PreHookRefuses, Answer, TransactionInv
<1>3. CASE InsertRoot \/ UpdateVersion \/ WriteFails \/ Send
  BY <1>a, <1>b, <1>c, <1>3 DEF InsertRoot, UpdateVersion, WriteFails, Send, TransactionInv
<1>4. CASE Execute
  <2>1. /\ queue # <<>> /\ Head(queue) # Rollback /\ tx # "failed" /\ ~NotFound(work, Head(queue))
        /\ queue' = Tail(queue) \o Then(Head(queue)) /\ phase' = phase /\ tx' = tx
    BY <1>4 DEF Execute
  <2>2. SUFFICES ASSUME phase = "failing" PROVE FailingInv'
    BY <1>b, <2>1
  <2>3. Then(Head(queue)) = <<>> /\ IsSequence(queue)
    BY <2>1, <2>2, QuietStatement, NextStatement
  <2>4. queue' = Tail(queue)
    BY <2>1, <2>3, SequenceFacts, AppendFacts
  <2> QED
    BY <1>a, <2>1, <2>2, <2>4, TailStillFails
<1>5. CASE ExecuteFails
  <2>1. queue # <<>> /\ Head(queue) # Rollback /\ BranchFails
    BY <1>5 DEF ExecuteFails
  <2>2. phase \in {"run", "failing"} /\ call \in Ops
    BY <2>1, NextStatement
  <2>3. tx' = "active" => tx = "active"
    BY <1>5 DEF ExecuteFails
  <2>4. CASE phase = "failing"
    <3>1. queue' = Tail(queue) /\ phase' = phase
      BY <2>1, <2>4 DEF BranchFails
    <3> QED
      BY <1>a, <2>1, <2>3, <2>4, <3>1, TailStillFails
  <2>5. CASE phase = "run"
    <3> DEFINE t == Tail(queue)
               n == Len(queue) - 1
               p == Append(t, Rollback)
    <3>1. IsSequence(queue) /\ Len(queue) \in Nat \ {0}
      BY <2>1, NextStatement
    <3>2. /\ IsSequence(t) /\ Len(t) = n /\ n \in Nat
          /\ \A k \in 1..n : t[k] = queue[k + 1] /\ k + 1 \in 1..Len(queue)
      BY <2>1, <3>1, SequenceFacts
    <3>3. queue' = p /\ phase' = "failing"
      BY <2>1, <2>5 DEF BranchFails
    <3> HIDE DEF t
    <3>4. /\ IsSequence(p) /\ Len(p) = n + 1
          /\ \A k \in 1..n : p[k] = t[k]
          /\ p[n + 1] = Rollback
      BY <3>2, AppendFacts
    <3>5. p # <<>>
      BY <3>2, <3>4, SequenceFacts
    <3> HIDE DEF p, n
    <3>6. ASSUME NEW k \in 1..(n + 1) PROVE p[k] = Rollback <=> k = n + 1
      <4>1. CASE k = n + 1
        BY <3>4, <4>1
      <4>2. CASE k \in 1..n
        <5>1. p[k] = queue[k + 1] /\ k + 1 \in 1..Len(queue) /\ k # n + 1
          BY <3>2, <3>4, <4>2
        <5>2. Fits(call, seen, queue[k + 1])
          BY <1>a, <2>5, <5>1 DEF RunInv
        <5>3. queue[k + 1] # Rollback
          BY <1>a, <2>2, <2>5, <5>2, FitsNotRollback DEF TypeInv, PhaseInv
        <5> QED
          BY <5>1, <5>3
      <4> QED
        BY <3>2, <4>1, <4>2
    <3>7. ASSUME tx' = "active", NEW k \in 1..(n + 1) PROVE k = n + 1 \/ Quiet(p[k])
      <4>1. NotFound(work, Head(queue))
        BY <1>5, <2>3, <3>7 DEF ExecuteFails
      <4>2. CASE k \in 1..n
        <5>1. p[k] = queue[k + 1] /\ k + 1 \in 1..Len(queue)
          BY <3>2, <3>4, <4>2
        <5>2. Quiet(queue[k + 1])
          BY <2>1, <2>5, <4>1, <5>1, NotFoundIsQuiet
        <5> QED
          BY <5>1, <5>2
      <4> QED
        BY <3>2, <4>2
    <3> QED
      BY <3>3, <3>4, <3>5, <3>6, <3>7 DEF FailingInv
  <2> QED
    BY <2>2, <2>4, <2>5
<1>6. CASE ExecuteRollback \/ AllAnswered \/ ReadBackFails \/ PostHookPasses \/ Commit
  BY <1>b, <1>6 DEF ExecuteRollback, AllAnswered, ReadBackFails, PostHookPasses, Commit, Answer
<1>7. CASE PostHookRefuses \/ PostHookThrows \/ CommitFails
  BY <1>a, <1>c, <1>7 DEF PostHookRefuses, PostHookThrows, CommitFails, TransactionInv
<1>8. CASE Query \/ QueryFindsNothing \/ QueryFails
  BY <1>a, <1>b, <1>c, <1>8 DEF Query, QueryFindsNothing, QueryFails, Answer, TransactionInv
<1>9. CASE UNCHANGED vars
  BY <1>a, <1>9 DEF vars, FailingInv
<1> QED
  BY <1>1, <1>2, <1>3, <1>4, <1>5, <1>6, <1>7, <1>8, <1>9 DEF Next, DataStoreStep

----------------------------------------------------------------------------
(* The theorems                                                            *)

(* EntityInv is an invariant, whatever the calls, the failing statements   *)
(* and the hooks, when no call departs from EntityStore.                   *)
THEOREM EntityInvariant ==
  ASSUME ~Deviations
  PROVE  Spec => []EntityInv
<1>1. Init => EntityInv
  BY EntityInvInit
<1>2. EntityInv /\ [Next]_vars => EntityInv'
  <2> SUFFICES ASSUME EntityInv, [Next]_vars PROVE EntityInv'
    OBVIOUS
  <2>1. TypeInv'
    BY TypeInvStep DEF EntityInv
  <2> QED
    BY <2>1, TransactionStep, CallStep, RowsStep, RunStep, FailingStep DEF EntityInv
<1> QED
  BY <1>1, <1>2, PTL DEF Spec

(* No committed row of a sub-entity, a value or a link is without its root *)
(* row: a deletion takes the children first, by the root rows that it then *)
(* deletes, and a statement that fails between takes all of it back.       *)
THEOREM NoOrphansHolds ==
  ASSUME ~Deviations
  PROVE  Spec => []NoOrphans
<1>1. EntityInv => NoOrphans
  BY DEF EntityInv, RowsInv, NoOrphans
<1> QED
  BY <1>1, EntityInvariant, PTL

(* An operation leaves neither a transaction nor a statement behind on the *)
(* connection; after a success the context has its user account again.     *)
THEOREM LeftAsFoundHolds ==
  ASSUME ~Deviations
  PROVE  Spec => []LeftAsFound
<1>1. EntityInv => LeftAsFound
  BY DEF EntityInv, TransactionInv, AccountInv, LeftAsFound
<1> QED
  BY <1>1, EntityInvariant, PTL
----------------------------------------------------------------------------
(* Sequences in the order of numbers                                       *)

Rank(S, n) == Cardinality({m \in S : m < n})

(* The numbers of a finite set have the ranks from 0 on.                   *)
LEMMA RankFacts ==
  ASSUME NEW S, S \subseteq Nat, IsFiniteSet(S)
  PROVE  /\ Cardinality(S) \in Nat
         /\ \A n \in S : Rank(S, n) \in 0..(Cardinality(S) - 1)
         /\ \A m, n \in S : m < n => Rank(S, m) < Rank(S, n)
         /\ \A k \in 1..Cardinality(S) : \E n \in S : Rank(S, n) = k - 1
<1>1. Cardinality(S) \in Nat
  BY FS_CardinalityType
<1>2. ASSUME NEW n \in S
      PROVE  /\ Rank(S, n) \in 0..(Cardinality(S) - 1)
             /\ IsFiniteSet({m \in S : m < n})
  <2> DEFINE T == {m \in S : m < n}
  <2>1. IsFiniteSet(S \ {n}) /\ Cardinality(S \ {n}) = Cardinality(S) - 1
    BY FS_RemoveElement
  <2>2. T \subseteq S \ {n}
    OBVIOUS
  <2>3. IsFiniteSet(T) /\ Cardinality(T) <= Cardinality(S \ {n})
    BY <2>1, <2>2, FS_Subset
  <2>4. Cardinality(T) \in Nat
    BY <2>3, FS_CardinalityType
  <2> QED
    BY <1>1, <2>1, <2>3, <2>4 DEF Rank
<1>3. ASSUME NEW m \in S, NEW n \in S, m < n PROVE Rank(S, m) < Rank(S, n)
  <2> DEFINE T == {l \in S : l < m}
             U == {l \in S : l < n}
  <2>1. IsFiniteSet(T) /\ IsFiniteSet(U) /\ m \notin T
    BY <1>2
  <2>2. IsFiniteSet(T \union {m}) /\ Cardinality(T \union {m}) = Cardinality(T) + 1
    BY <2>1, FS_AddElement
  <2>3. T \union {m} \subseteq U
    <3>1. ASSUME NEW l \in T PROVE l \in U
      <4>1. l \in Nat /\ m \in Nat /\ n \in Nat /\ l < m
        OBVIOUS
      <4> QED
        BY <1>3, <4>1
    <3> QED
      BY <1>3, <3>1
  <2>4. Cardinality(T) + 1 <= Cardinality(U)
    BY <2>1, <2>2, <2>3, FS_Subset
  <2>5. Cardinality(T) \in Nat /\ Cardinality(U) \in Nat
    BY <2>1, FS_CardinalityType
  <2> QED
    BY <2>4, <2>5 DEF Rank
<1>4. ASSUME NEW k \in 1..Cardinality(S) PROVE \E n \in S : Rank(S, n) = k - 1
  <2> DEFINE ranks == 0..(Cardinality(S) - 1)
             rank == [n \in S |-> Rank(S, n)]
  <2>1. IsFiniteSet(ranks) /\ Cardinality(ranks) = Cardinality(S)
    <3>1. PICK c \in Nat : c = Cardinality(S)
      BY <1>1
    <3>2. 0 \in Int /\ c - 1 \in Int /\ (IF 0 > c - 1 THEN 0 ELSE c - 1 - 0 + 1) = c
      OBVIOUS
    <3>3. IsFiniteSet(0..(c - 1)) /\ Cardinality(0..(c - 1)) = c
      BY <3>2, FS_Interval
    <3> QED
      BY <3>1, <3>3
  <2>2. rank \in [S -> ranks]
    BY <1>2
  <2>3. ASSUME NEW m \in S, NEW n \in S, rank[m] = rank[n] PROVE m = n
    <3>a. Rank(S, m) \in 0..(Cardinality(S) - 1)
      BY <1>2
    <3>0. Rank(S, m) \in Int
      BY <3>a
    <3>1. Rank(S, m) = Rank(S, n)
      BY <2>3
    <3>2. ~(m < n) /\ ~(n < m)
      BY <1>3, <3>0, <3>1
    <3>3. m \in Nat /\ n \in Nat
      OBVIOUS
    <3> QED
      BY <3>2, <3>3
  <2>4. rank \in Injection(S, ranks)
    BY <2>2, <2>3 DEF Injection, IsInjective
  <2>5. rank \in Surjection(S, ranks)
    BY <2>1, <2>4, FS_Injection
  <2>6. k - 1 \in ranks
    BY <1>1
  <2> QED
    BY <2>5, <2>6 DEF Surjection
<1> QED
  BY <1>1, <1>2, <1>3, <1>4

(* Nth counts the numbers of a finite set in their order.                  *)
LEMMA NthFacts ==
  ASSUME NEW S, S \subseteq Nat, IsFiniteSet(S)
  PROVE  /\ Cardinality(S) \in Nat
         /\ \A k \in 1..Cardinality(S) : Nth(S, k) \in S /\ Rank(S, Nth(S, k)) = k - 1
         /\ \A j, k \in 1..Cardinality(S) : j < k => Nth(S, j) < Nth(S, k)
         /\ \A n \in S : \E k \in 1..Cardinality(S) : n = Nth(S, k)
<1>1. /\ Cardinality(S) \in Nat
      /\ \A n \in S : Rank(S, n) \in 0..(Cardinality(S) - 1)
      /\ \A m, n \in S : m < n => Rank(S, m) < Rank(S, n)
      /\ \A k \in 1..Cardinality(S) : \E n \in S : Rank(S, n) = k - 1
  BY RankFacts
<1>2. ASSUME NEW k \in 1..Cardinality(S) PROVE Nth(S, k) \in S /\ Rank(S, Nth(S, k)) = k - 1
  <2>1. \E n \in S : Rank(S, n) = k - 1
    BY <1>1
  <2>2. Nth(S, k) = CHOOSE n \in S : Rank(S, n) = k - 1
    BY DEF Nth, Rank
  <2> QED
    BY <2>1, <2>2
<1>3. ASSUME NEW j \in 1..Cardinality(S), NEW k \in 1..Cardinality(S), j < k
      PROVE  Nth(S, j) < Nth(S, k)
  <2>1. /\ Nth(S, j) \in S /\ Rank(S, Nth(S, j)) = j - 1
        /\ Nth(S, k) \in S /\ Rank(S, Nth(S, k)) = k - 1
    BY <1>2
  <2>2. PICK m, n : m = Nth(S, j) /\ n = Nth(S, k)
    OBVIOUS
  <2>3. m \in S /\ n \in S /\ Rank(S, m) < Rank(S, n)
    BY <1>1, <1>3, <2>1, <2>2
  <2>4. ~(n < m) /\ m # n
    <3>1. Rank(S, m) \in Int /\ Rank(S, n) \in Int
      BY <1>1, <2>3
    <3> QED
      BY <1>1, <2>3, <3>1
  <2> QED
    BY <2>2, <2>3, <2>4
<1>4. ASSUME NEW n \in S PROVE \E k \in 1..Cardinality(S) : n = Nth(S, k)
  <2>1. Rank(S, n) + 1 \in 1..Cardinality(S) /\ Rank(S, n) \in Nat
    BY <1>1
  <2>2. PICK m : m = Nth(S, Rank(S, n) + 1)
    OBVIOUS
  <2>3. m \in S /\ Rank(S, m) = Rank(S, n)
    BY <1>2, <2>1, <2>2
  <2>4. m = n
    BY <1>1, <2>3
  <2> QED
    BY <2>1, <2>2, <2>4
<1> QED
  BY <1>1, <1>2, <1>3, <1>4

(* Any increasing enumeration is that of Nth.                              *)
LEMMA NthUnique ==
  ASSUME NEW n \in Nat, NEW f \in [1..n -> Nat], \A j, k \in 1..n : j < k => f[j] < f[k],
         NEW S, S = {f[k] : k \in 1..n}
  PROVE  /\ IsFiniteSet(S) /\ S \subseteq Nat /\ Cardinality(S) = n
         /\ \A k \in 1..n : Nth(S, k) = f[k]
<1>1. \A m \in 0..n : IsFiniteSet(1..m) /\ Cardinality(1..m) = m
  BY FS_Interval
<1>2. \A j, k \in 1..n : f[j] = f[k] => j = k
  OBVIOUS
<1>3. ASSUME NEW m \in 0..n, NEW T, T = {f[k] : k \in 1..m}
      PROVE  IsFiniteSet(T) /\ Cardinality(T) = m
  <2> DEFINE g == [k \in 1..m |-> f[k]]
  <2>1. 1..m \subseteq 1..n
    OBVIOUS
  <2>2. g \in Injection(1..m, T) /\ g \in Surjection(1..m, T)
    BY <1>2, <1>3, <2>1 DEF Injection, Surjection, IsInjective
  <2>3. ExistsBijection(1..m, T)
    BY <2>2 DEF ExistsBijection, Bijection
  <2> QED
    BY <1>1, <2>3, FS_Bijection
<1>4. IsFiniteSet(S) /\ S \subseteq Nat /\ Cardinality(S) = n
  BY <1>3
<1>5. ASSUME NEW k \in 1..n PROVE Nth(S, k) = f[k]
  <2>1. {m \in S : m < f[k]} = {f[j] : j \in 1..(k - 1)}
    <3>1. ASSUME NEW j \in 1..n, f[j] < f[k] PROVE j \in 1..(k - 1)
      BY <3>1
    <3>2. ASSUME NEW j \in 1..(k - 1) PROVE j \in 1..n /\ f[j] < f[k]
      OBVIOUS
    <3> QED
      BY <3>1, <3>2
  <2>2. Rank(S, f[k]) = k - 1
    BY <1>3, <2>1 DEF Rank
  <2>3. Nth(S, k) \in S /\ Rank(S, Nth(S, k)) = k - 1
    BY <1>4, NthFacts
  <2>4. \A l, m \in S : l < m => Rank(S, l) < Rank(S, m)
    BY <1>4, RankFacts
  <2>5. f[k] \in S
    OBVIOUS
  <2> QED
    BY <1>4, <2>2, <2>3, <2>4, <2>5
<1> QED
  BY <1>4, <1>5
----------------------------------------------------------------------------
(* Values of an array field, as pairs of id and value                      *)

PairsOf(rows, i) == {<<r.id, r.value>> : r \in {s \in rows : s.fk = i}}
IdsOf(pairs) == {p[1] : p \in pairs}
Listed(pairs) ==
  [k \in 1..Cardinality(IdsOf(pairs)) |-> CHOOSE v : <<Nth(IdsOf(pairs), k), v>> \in pairs]

(* Finitely many pairs of an id and its value.                             *)
IsArray(pairs) ==
  /\ IsFiniteSet(IdsOf(pairs)) /\ IdsOf(pairs) \subseteq Nat
  /\ \A p \in pairs : p = <<p[1], p[2]>>
  /\ \A p, q \in pairs : p[1] = q[1] => p[2] = q[2]

Increasing(f, n) == f \in [1..n -> Nat] /\ \A j, k \in 1..n : j < k => f[j] < f[k]

Paired(f, g, n) == {<<f[k], g[k]>> : k \in 1..n}

(* Values that belong to increasing ids are listed as they are.            *)
LEMMA ListedIs ==
  ASSUME NEW n \in Nat, NEW f, Increasing(f, n), NEW g
  PROVE  Listed(Paired(f, g, n)) = [k \in 1..n |-> g[k]] /\ IsArray(Paired(f, g, n))
<1> SUFFICES ASSUME NEW pairs, pairs = {<<f[k], g[k]>> : k \in 1..n}
             PROVE  Listed(pairs) = [k \in 1..n |-> g[k]] /\ IsArray(pairs)
  BY DEF Paired
<1>0. f \in [1..n -> Nat] /\ \A j, k \in 1..n : j < k => f[j] < f[k]
  BY DEF Increasing
<1> DEFINE S == {f[k] : k \in 1..n}
<1>1. IdsOf(pairs) = S
  <2>1. ASSUME NEW p \in pairs PROVE p[1] \in S
    OBVIOUS
  <2>2. ASSUME NEW k \in 1..n PROVE f[k] \in IdsOf(pairs)
    <3>1. <<f[k], g[k]>> \in pairs /\ <<f[k], g[k]>>[1] = f[k]
      OBVIOUS
    <3> QED
      BY <3>1 DEF IdsOf
  <2> QED
    BY <2>1, <2>2 DEF IdsOf
<1>2. /\ IsFiniteSet(S) /\ S \subseteq Nat /\ Cardinality(S) = n
      /\ \A k \in 1..n : Nth(S, k) = f[k]
  BY <1>0, NthUnique
<1>3. \A j, k \in 1..n : f[j] = f[k] => j = k
  BY <1>0
<1>4. ASSUME NEW k \in 1..n PROVE (CHOOSE v : <<Nth(S, k), v>> \in pairs) = g[k]
  <2>1. <<f[k], g[k]>> \in pairs
    OBVIOUS
  <2>2. ASSUME NEW v, <<f[k], v>> \in pairs PROVE v = g[k]
    <3>1. PICK j \in 1..n : <<f[k], v>> = <<f[j], g[j]>>
      BY <2>2
    <3>2. f[k] = f[j] /\ v = g[j]
      BY <3>1
    <3> QED
      BY <1>3, <3>2
  <2>3. Nth(S, k) = f[k]
    BY <1>2
  <2> QED
    BY <2>1, <2>2, <2>3
<1>5. Listed(pairs) = [k \in 1..n |-> g[k]]
  BY <1>1, <1>2, <1>4 DEF Listed
<1>6. \A p \in pairs : p = <<p[1], p[2]>>
  OBVIOUS
<1>7. ASSUME NEW p \in pairs, NEW q \in pairs, p[1] = q[1] PROVE p[2] = q[2]
  <2>1. PICK j \in 1..n : p = <<f[j], g[j]>>
    OBVIOUS
  <2>2. PICK k \in 1..n : q = <<f[k], g[k]>>
    OBVIOUS
  <2> QED
    BY <1>3, <1>7, <2>1, <2>2
<1> QED
  BY <1>1, <1>2, <1>5, <1>6, <1>7 DEF IsArray

(* Every array is listed with increasing ids.                              *)
LEMMA ArrayFacts ==
  ASSUME NEW pairs, IsArray(pairs), NEW n, n = Cardinality(IdsOf(pairs)),
         NEW f, f = [k \in 1..n |-> Nth(IdsOf(pairs), k)]
  PROVE  /\ n \in Nat /\ f \in [1..n -> Nat] /\ \A j, k \in 1..n : j < k => f[j] < f[k]
         /\ pairs = {<<f[k], Listed(pairs)[k]>> : k \in 1..n}
         /\ Listed(pairs) = [k \in 1..n |-> Listed(pairs)[k]]
         /\ IsSequence(Listed(pairs)) /\ Len(Listed(pairs)) = n
         /\ IdsOf(pairs) = {f[k] : k \in 1..n}
<1> DEFINE S == IdsOf(pairs)
<1>1. /\ n \in Nat
      /\ \A k \in 1..n : Nth(S, k) \in S
      /\ \A j, k \in 1..n : j < k => Nth(S, j) < Nth(S, k)
      /\ \A m \in S : \E k \in 1..n : m = Nth(S, k)
  BY NthFacts DEF IsArray
<1>2. Listed(pairs) = [k \in 1..n |-> Listed(pairs)[k]]
  <2> DEFINE Value(k) == CHOOSE v : <<Nth(IdsOf(pairs), k), v>> \in pairs
  <2>1. Listed(pairs) = [k \in 1..n |-> Value(k)]
    BY DEF Listed
  <2> HIDE DEF Value
  <2> QED
    BY <2>1
<1>3. ASSUME NEW k \in 1..n PROVE <<f[k], Listed(pairs)[k]>> \in pairs
  <2>1. f[k] \in S
    BY <1>1
  <2>2. PICK p \in pairs : p[1] = f[k]
    BY <2>1 DEF IdsOf
  <2>3. <<f[k], p[2]>> \in pairs
    BY <2>2 DEF IsArray
  <2>4. Listed(pairs)[k] = CHOOSE v : <<f[k], v>> \in pairs
    BY DEF Listed
  <2> QED
    BY <2>3, <2>4
<1>4. ASSUME NEW p \in pairs PROVE \E k \in 1..n : p = <<f[k], Listed(pairs)[k]>>
  <2>1. p[1] \in S /\ p = <<p[1], p[2]>>
    BY DEF IdsOf, IsArray
  <2>2. PICK k \in 1..n : p[1] = f[k]
    BY <1>1, <2>1
  <2>3. <<f[k], Listed(pairs)[k]>> \in pairs
    BY <1>3
  <2>4. p[2] = Listed(pairs)[k]
    <3>1. PICK q \in pairs : q = <<f[k], Listed(pairs)[k]>>
      BY <2>3
    <3>2. q[1] = p[1] /\ q[2] = Listed(pairs)[k]
      BY <2>2, <3>1
    <3> QED
      BY <3>1, <3>2 DEF IsArray
  <2> QED
    BY <2>1, <2>2, <2>4
<1>5. S \subseteq Nat
  BY DEF IsArray
<1>6. f \in [1..n -> Nat] /\ \A j, k \in 1..n : j < k => f[j] < f[k]
  BY <1>1, <1>5
<1>7. pairs = {<<f[k], Listed(pairs)[k]>> : k \in 1..n}
  BY <1>3, <1>4
<1>8. IsSequence(Listed(pairs)) /\ Len(Listed(pairs)) = n
  BY <1>1, <1>2, FunctionIsSequence
<1>9. S = {f[k] : k \in 1..n}
  BY <1>1
<1> QED
  BY <1>1, <1>2, <1>6, <1>7, <1>8, <1>9

(* An array of the values of a sequence, with ids from 0 on.               *)
Indexed(s) == {<<k - 1, s[k]>> : k \in DOMAIN s}

(* A sequence is what its values, numbered from 0 on, are listed as.       *)
LEMMA ListedIndexed ==
  ASSUME NEW s, IsSequence(s)
  PROVE  Listed(Indexed(s)) = s /\ IsArray(Indexed(s))
<1> DEFINE n == Len(s)
           f == [k \in 1..n |-> k - 1]
<1>1. n \in Nat /\ DOMAIN s = 1..n
  BY SequenceFacts
<1>2. s = [k \in 1..n |-> s[k]]
  <2>1. s \in Seq(Elements(s))
    BY DEF IsSequence
  <2>2. s \in [1..n -> Elements(s)]
    BY <2>1, LenProperties
  <2> QED
    BY <2>2
<1>3. Increasing(f, n)
  BY <1>1 DEF Increasing
<1>4. Indexed(s) = Paired(f, s, n)
  BY <1>1 DEF Indexed, Paired
<1>5. Listed(Indexed(s)) = [k \in 1..n |-> s[k]] /\ IsArray(Indexed(s))
  BY <1>1, <1>3, <1>4, ListedIs
<1> QED
  BY <1>2, <1>5

(* A value with an id greater than all others comes last.                  *)
LEMMA ListedAppend ==
  ASSUME NEW pairs, IsArray(pairs), NEW m \in Nat, \A p \in pairs : p[1] < m, NEW v
  PROVE  /\ Listed(pairs \union {<<m, v>>}) = Append(Listed(pairs), v)
         /\ IsArray(pairs \union {<<m, v>>})
<1>1. PICK n : n = Cardinality(IdsOf(pairs))
  OBVIOUS
<1>2. PICK f : f = [k \in 1..n |-> Nth(IdsOf(pairs), k)]
  OBVIOUS
<1>3. PICK s : s = Listed(pairs)
  OBVIOUS
<1>4. /\ n \in Nat /\ f \in [1..n -> Nat] /\ \A j, k \in 1..n : j < k => f[j] < f[k]
      /\ pairs = {<<f[k], s[k]>> : k \in 1..n}
      /\ IsSequence(s) /\ Len(s) = n
  BY <1>1, <1>2, <1>3, ArrayFacts
<1> DEFINE f2 == [k \in 1..(n + 1) |-> IF k = n + 1 THEN m ELSE f[k]]
           s2 == Append(s, v)
<1>5. /\ IsSequence(s2) /\ Len(s2) = n + 1
      /\ \A k \in 1..n : s2[k] = s[k]
      /\ s2[n + 1] = v
  BY <1>4, AppendFacts
<1>6. ASSUME NEW k \in 1..n PROVE f[k] < m /\ f[k] \in Nat
  <2>1. <<f[k], s[k]>> \in pairs /\ <<f[k], s[k]>>[1] = f[k]
    BY <1>4
  <2> QED
    BY <1>4, <2>1
<1>7. n + 1 \in Nat /\ f2 \in [1..(n + 1) -> Nat]
  BY <1>4, <1>6
<1>8. ASSUME NEW j \in 1..(n + 1), NEW k \in 1..(n + 1), j < k PROVE f2[j] < f2[k]
  <2>1. j \in 1..n /\ f2[j] = f[j]
    BY <1>4, <1>8
  <2>2. CASE k = n + 1
    BY <1>6, <2>1, <2>2
  <2>3. CASE k # n + 1
    <3>1. k \in 1..n /\ f2[k] = f[k]
      BY <1>4, <2>3
    <3> QED
      BY <1>4, <1>8, <2>1, <3>1
  <2> QED
    BY <2>2, <2>3
<1>9. pairs \union {<<m, v>>} = {<<f2[k], s2[k]>> : k \in 1..(n + 1)}
  <2>1. ASSUME NEW k \in 1..n PROVE k \in 1..(n + 1) /\ f2[k] = f[k] /\ s2[k] = s[k]
    BY <1>4, <1>5
  <2>2. n + 1 \in 1..(n + 1) /\ f2[n + 1] = m /\ s2[n + 1] = v
    BY <1>4, <1>5
  <2>3. \A k \in 1..(n + 1) : k \in 1..n \/ k = n + 1
    BY <1>4
  <2> HIDE DEF f2, s2
  <2>4. ASSUME NEW p \in pairs PROVE \E k \in 1..(n + 1) : p = <<f2[k], s2[k]>>
    BY <1>4, <2>1
  <2>5. ASSUME NEW k \in 1..(n + 1) PROVE <<f2[k], s2[k]>> \in pairs \union {<<m, v>>}
    BY <1>4, <2>1, <2>2, <2>3
  <2> QED
    BY <2>2, <2>4, <2>5
<1>a. Paired(f2, s2, n + 1) = pairs \union {<<m, v>>} /\ Increasing(f2, n + 1)
  BY <1>7, <1>8, <1>9 DEF Paired, Increasing
<1>10. s2 = [k \in 1..(n + 1) |-> s2[k]]
  <2>1. s2 \in Seq(Elements(s2))
    BY <1>5 DEF IsSequence
  <2>2. s2 \in [1..(n + 1) -> Elements(s2)]
    BY <1>5, <2>1, LenProperties
  <2> QED
    BY <2>2
<1> HIDE DEF f2, s2
<1>11. /\ Listed(pairs \union {<<m, v>>}) = [k \in 1..(n + 1) |-> s2[k]]
       /\ IsArray(pairs \union {<<m, v>>})
  <2>1. n + 1 \in Nat /\ Increasing(f2, n + 1)
    BY <1>7, <1>a
  <2>2. Listed(Paired(f2, s2, n + 1)) = [k \in 1..(n + 1) |-> s2[k]] /\ IsArray(Paired(f2, s2, n + 1))
    BY <2>1, ListedIs
  <2> QED
    BY <1>a, <2>2
<1> QED
  BY <1>3, <1>10, <1>11 DEF s2

(* Without the pairs of some values, the others are listed in their order. *)
LEMMA ListedWithout ==
  ASSUME NEW pairs, IsArray(pairs), NEW values,
         NEW kept, kept = {p \in pairs : \A j \in DOMAIN values : values[j] # p[2]}
  PROVE  Listed(kept) = Without(Listed(pairs), values) /\ IsArray(kept)
<1>1. PICK n : n = Cardinality(IdsOf(pairs))
  OBVIOUS
<1>2. PICK f : f = [k \in 1..n |-> Nth(IdsOf(pairs), k)]
  OBVIOUS
<1>3. PICK s : s = Listed(pairs)
  OBVIOUS
<1>4. /\ n \in Nat /\ f \in [1..n -> Nat] /\ \A j, k \in 1..n : j < k => f[j] < f[k]
      /\ pairs = {<<f[k], s[k]>> : k \in 1..n}
      /\ s = [k \in 1..n |-> s[k]]
  BY <1>1, <1>2, <1>3, ArrayFacts
<1>5. PICK places : places = {k \in 1..n : \A j \in DOMAIN values : values[j] # s[k]}
  OBVIOUS
<1>6. places \subseteq Nat /\ IsFiniteSet(places) /\ places \subseteq 1..n
  <2>1. IsFiniteSet(1..n)
    BY <1>4, FS_Interval
  <2> QED
    BY <1>4, <1>5, <2>1, FS_Subset
<1>7. PICK c : c = Cardinality(places)
  OBVIOUS
<1>8. PICK e : e = [k \in 1..c |-> Nth(places, k)]
  OBVIOUS
<1>9. /\ c \in Nat /\ e \in [1..c -> places]
      /\ \A j, k \in 1..c : j < k => e[j] < e[k]
      /\ \A k \in places : \E j \in 1..c : k = e[j]
  BY <1>6, <1>7, <1>8, NthFacts
<1>10. PICK f2 : f2 = [k \in 1..c |-> f[e[k]]]
  OBVIOUS
<1>11. PICK s2 : s2 = [k \in 1..c |-> s[e[k]]]
  OBVIOUS
<1>12. f2 \in [1..c -> Nat] /\ \A j, k \in 1..c : j < k => f2[j] < f2[k]
  BY <1>4, <1>6, <1>9, <1>10
<1>13. kept = {<<f2[k], s2[k]>> : k \in 1..c}
  <2>1. ASSUME NEW p \in kept PROVE \E k \in 1..c : p = <<f2[k], s2[k]>>
    <3>1. PICK j \in 1..n : p = <<f[j], s[j]>>
      BY <1>4
    <3>2. p[2] = s[j] /\ j \in places
      BY <1>5, <3>1
    <3>3. PICK k \in 1..c : j = e[k]
      BY <1>9, <3>2
    <3> QED
      BY <1>10, <1>11, <3>1, <3>3
  <2>2. ASSUME NEW k \in 1..c PROVE <<f2[k], s2[k]>> \in kept
    <3>1. e[k] \in places /\ e[k] \in 1..n
      BY <1>6, <1>9
    <3>2. <<f[e[k]], s[e[k]]>> \in pairs /\ <<f[e[k]], s[e[k]]>>[2] = s[e[k]]
      BY <1>4, <3>1
    <3>3. \A j \in DOMAIN values : values[j] # s[e[k]]
      BY <1>5, <3>1
    <3> QED
      BY <1>10, <1>11, <3>2, <3>3
  <2> QED
    BY <2>1, <2>2
<1>14. Listed(kept) = [k \in 1..c |-> s2[k]] /\ IsArray(kept)
  <2>1. Paired(f2, s2, c) = kept /\ Increasing(f2, c)
    BY <1>12, <1>13 DEF Paired, Increasing
  <2>2. c \in Nat
    BY <1>9
  <2>3. Listed(Paired(f2, s2, c)) = [k \in 1..c |-> s2[k]] /\ IsArray(Paired(f2, s2, c))
    BY <2>1, <2>2, ListedIs
  <2> QED
    BY <2>1, <2>3
<1>15. Without(s, values) = [k \in 1..c |-> s[Nth(places, k)]]
  <2>1. DOMAIN s = 1..n
    BY <1>4
  <2> QED
    BY <1>5, <1>7, <2>1 DEF Without
<1>16. [k \in 1..c |-> s2[k]] = [k \in 1..c |-> s[Nth(places, k)]]
  BY <1>8, <1>11
<1> QED
  BY <1>3, <1>14, <1>15, <1>16
----------------------------------------------------------------------------
(* Rows as a caller knows them                                             *)

(* An entity, from its root row, the ids and values of its sub-entities    *)
(* and of its array field, and its links.                                  *)
Entity(row, subs, vals, links) ==
  IF row = Absent THEN Absent
  ELSE [owner |-> row.owner, version |-> row.version, value |-> row.value,
        subs |-> subs, tags |-> Listed(vals), links |-> links]

EntityIn(t, i) == Entity(t.root[i], PairsOf(t.subs, i), PairsOf(t.vals, i), LinksOf(t, i))

(* Of the rows with one id, there is a first one.                          *)
LEMMA FirstRow ==
  ASSUME NEW rows, \A v \in rows : v.row \in Nat, NEW v \in rows
  PROVE  \E w \in rows : w.fk = v.fk /\ w.id = v.id
           /\ \A r \in rows : r.fk = w.fk /\ r.id = w.id => w.row <= r.row
<1> DEFINE S == {r.row : r \in {x \in rows : x.fk = v.fk /\ x.id = v.id}}
<1>1. S \subseteq Nat /\ S # {}
  OBVIOUS
<1>2. PICK n \in S : \A m \in S : n <= m
  BY <1>1, FirstExists DEF First
<1>3. PICK w \in rows : w.fk = v.fk /\ w.id = v.id /\ w.row = n
  BY <1>2
<1>4. ASSUME NEW r \in rows, r.fk = w.fk, r.id = w.id PROVE w.row <= r.row
  <2>1. r.row \in S
    BY <1>3, <1>4
  <2> QED
    BY <1>2, <1>3, <2>1
<1> QED
  BY <1>3, <1>4

(* Where ids differ, each row of a sub-entity is one.                      *)
LEMMA SubsOfIs ==
  ASSUME NEW t, IdsDiffer(t), \A r \in t.subs : r.row \in Nat, NEW i
  PROVE  /\ SubsOf(t, i) = {s \in t.subs : s.fk = i}
         /\ {<<s.id, s.value>> : s \in SubsOf(t, i)} = PairsOf(t.subs, i)
<1>1. ASSUME NEW s \in t.subs, s.fk = i, NEW r \in t.subs, r.fk = i, r.id = s.id PROVE s.row <= r.row
  <2>1. r = s
    BY <1>1 DEF IdsDiffer
  <2> QED
    BY <2>1
<1>2. SubsOf(t, i) = {s \in t.subs : s.fk = i}
  BY <1>1 DEF SubsOf
<1> QED
  BY <1>2 DEF PairsOf

(* The pairs of the values of an entity.                                   *)
LEMMA ValuesAreArray ==
  ASSUME NEW t, NEW next, Numbered(t, next), IdsDiffer(t), NEW i
  PROVE  IsArray(PairsOf(t.vals, i))
<1>1. /\ IsFiniteSet(t.vals) /\ \A v \in t.vals : v.row \in Nat /\ v.id \in Nat
      /\ \A v, w \in t.vals : v.fk = w.fk /\ v.id = w.id => v.value = w.value
  BY DEF Numbered, IdsDiffer
<1>2. ASSUME NEW p \in PairsOf(t.vals, i)
      PROVE  \E v \in t.vals : v.fk = i /\ p = <<v.id, v.value>> /\ p[1] = v.id /\ p[2] = v.value
  BY DEF PairsOf
<1>3. IdsOf(PairsOf(t.vals, i)) = {v.id : v \in {w \in t.vals : w.fk = i}}
  <2>1. ASSUME NEW v \in t.vals, v.fk = i PROVE v.id \in IdsOf(PairsOf(t.vals, i))
    <3>1. <<v.id, v.value>> \in PairsOf(t.vals, i) /\ <<v.id, v.value>>[1] = v.id
      BY <2>1 DEF PairsOf
    <3> QED
      BY <3>1 DEF IdsOf
  <2> QED
    BY <1>2, <2>1 DEF IdsOf
<1>4. IsFiniteSet({v.id : v \in {w \in t.vals : w.fk = i}})
  <2>1. IsFiniteSet({w \in t.vals : w.fk = i})
    BY <1>1, FS_Subset
  <2> DEFINE S == {w \in t.vals : w.fk = i}
             T == {v.id : v \in S}
             f == [v \in S |-> v.id]
  <2>2. f \in Surjection(S, T)
    BY DEF Surjection
  <2> QED
    BY <2>1, <2>2, FS_Surjection
<1>5. \A p \in PairsOf(t.vals, i) : p = <<p[1], p[2]>>
  BY <1>2
<1>6. ASSUME NEW p \in PairsOf(t.vals, i), NEW q \in PairsOf(t.vals, i), p[1] = q[1] PROVE p[2] = q[2]
  <2>1. PICK v \in t.vals : v.fk = i /\ p[1] = v.id /\ p[2] = v.value
    BY <1>2
  <2>2. PICK w \in t.vals : w.fk = i /\ q[1] = w.id /\ q[2] = w.value
    BY <1>2
  <2> QED
    BY <1>1, <1>6, <2>1, <2>2
<1> QED
  BY <1>1, <1>3, <1>4, <1>5, <1>6 DEF IsArray

(* The values of the array field in the order of their ids.                *)
LEMMA ValuesOfIs ==
  ASSUME NEW t, NEW next, Numbered(t, next), IdsDiffer(t), NEW i
  PROVE  ValuesOf(t, i) = Listed(PairsOf(t.vals, i))
<1> DEFINE rows == {v \in t.vals : v.fk = i /\ \A r \in t.vals : r.fk = i /\ r.id = v.id => v.row <= r.row}
           ids == {v.id : v \in rows}
           pairs == PairsOf(t.vals, i)
<1>1. /\ \A v \in t.vals : v.row \in Nat
      /\ \A v, w \in t.vals : v.fk = w.fk /\ v.id = w.id => v.value = w.value
  BY DEF Numbered, IdsDiffer
<1>0. IsArray(pairs)
  BY ValuesAreArray
<1>2. ASSUME NEW n, n \in IdsOf(pairs)
      PROVE  \E v \in rows : v.id = n /\ <<n, v.value>> \in pairs
  <2>1. PICK p \in pairs : p[1] = n
    BY <1>2 DEF IdsOf
  <2>2. PICK v \in t.vals : v.fk = i /\ p = <<v.id, v.value>>
    BY <2>1 DEF PairsOf
  <2>3. v.id = n
    BY <2>1, <2>2
  <2>4. PICK w \in t.vals : w.fk = v.fk /\ w.id = v.id
                            /\ \A r \in t.vals : r.fk = w.fk /\ r.id = w.id => w.row <= r.row
    BY <1>1, FirstRow
  <2>5. w \in rows /\ w.id = n
    BY <2>2, <2>3, <2>4
  <2>6. <<w.id, w.value>> \in pairs
    BY <2>2, <2>4 DEF PairsOf
  <2> QED
    BY <2>5, <2>6
<1>3. ASSUME NEW v \in rows PROVE <<v.id, v.value>> \in pairs /\ v.id \in IdsOf(pairs)
  <2>1. <<v.id, v.value>> \in pairs /\ <<v.id, v.value>>[1] = v.id
    BY DEF PairsOf
  <2> QED
    BY <2>1 DEF IdsOf
<1>4. ids = IdsOf(pairs)
  BY <1>2, <1>3
<1>5. ASSUME NEW n \in ids PROVE (CHOOSE v \in rows : v.id = n).value = CHOOSE x : <<n, x>> \in pairs
  <2>1. PICK w : w = CHOOSE v \in rows : v.id = n
    OBVIOUS
  <2>2. w \in rows /\ w.id = n
    BY <2>1
  <2>3. <<n, w.value>> \in pairs
    BY <1>3, <2>2
  <2>4. ASSUME NEW x, <<n, x>> \in pairs PROVE x = w.value
    <3>1. PICK p, q : p = <<n, x>> /\ q = <<n, w.value>>
      OBVIOUS
    <3>2. p \in pairs /\ q \in pairs /\ p[1] = q[1] /\ p[2] = x /\ q[2] = w.value
      BY <2>3, <2>4, <3>1
    <3> QED
      BY <1>0, <3>2 DEF IsArray
  <2> QED
    BY <2>1, <2>3, <2>4
<1>6. \A k \in 1..Cardinality(ids) : Nth(ids, k) \in ids
  BY <1>0, <1>4, NthFacts DEF IsArray
<1>7. ValuesOf(t, i) = [k \in 1..Cardinality(ids) |-> (CHOOSE v \in rows : v.id = Nth(ids, k)).value]
  BY DEF ValuesOf
<1> HIDE DEF rows, ids, pairs
<1>8. Listed(pairs) = [k \in 1..Cardinality(ids) |-> CHOOSE x : <<Nth(ids, k), x>> \in pairs]
  BY <1>4 DEF Listed
<1>9. \A k \in 1..Cardinality(ids) : (CHOOSE v \in rows : v.id = Nth(ids, k)).value = CHOOSE x : <<Nth(ids, k), x>> \in pairs
  BY <1>5, <1>6
<1>10. ValuesOf(t, i) = Listed(pairs)
  BY <1>7, <1>8, <1>9
<1> QED
  BY <1>10 DEF pairs

(* The stored entities.                                                    *)
LEMMA StoredIs ==
  ASSUME NEW t, NEW next, Numbered(t, next), IdsDiffer(t)
  PROVE  Stored(t) = [i \in EntityIds |-> EntityIn(t, i)]
<1>1. \A r \in t.subs : r.row \in Nat
  BY DEF Numbered
<1>2. ASSUME NEW i \in EntityIds
      PROVE  ValuesOf(t, i) = Listed(PairsOf(t.vals, i))
             /\ {<<s.id, s.value>> : s \in SubsOf(t, i)} = PairsOf(t.subs, i)
  BY <1>1, ValuesOfIs, SubsOfIs
<1>3. ASSUME NEW i \in EntityIds
      PROVE  Stored(t)[i] = EntityIn(t, i)
  BY <1>2 DEF Stored, EntityIn, Entity
<1>4. Stored(t) = [i \in EntityIds |-> Stored(t)[i]]
  BY DEF Stored
<1> QED
  BY <1>3, <1>4
----------------------------------------------------------------------------
(* What an operation has done and has still to do                          *)

(* Operations on one entity.                                               *)
ChangingOne == {"create", "update"} \union ChangingValues \union AddingOrRemovingSubs
UpdatingMany == {"updateByFilters", "updateEntities"}

(* The rows of the entity as the operation leaves them, from those before. *)
NewRoot(op, t, i) ==
  IF op.kind = "create" THEN [owner |-> op.owner, version |-> 1, value |-> op.value]
  ELSE Changed(t.root[i], t.root[i].version + 1,
               IF op.kind = "update" /\ op.value # 0 THEN op.value ELSE t.root[i].value)

NewSubs(op, t, i) ==
  CASE op.kind \in {"create", "addSubs", "addSubsByFilters"} -> PairsOf(t.subs, i) \union Indexed(op.values)
    [] op.kind \in {"removeSubs", "removeSubsByFilters"} ->
         {p \in PairsOf(t.subs, i) : ~op.all /\ p[1] # op.sub}
    [] OTHER -> PairsOf(t.subs, i)

NewVals(op, t, i) ==
  CASE op.kind = "create" -> PairsOf(t.vals, i) \union Indexed(op.tags)
    [] op.kind = "update" /\ op.tags # <<>> -> Indexed(op.tags)
    [] op.kind = "addValues" ->
         PairsOf(t.vals, i) \union {<<Len(ValuesOf(t, i)), op.tags[k]>> : k \in DOMAIN op.tags}
    [] op.kind = "removeValues" -> {p \in PairsOf(t.vals, i) : \A j \in DOMAIN op.tags : op.tags[j] # p[2]}
    [] OTHER -> PairsOf(t.vals, i)

NewLinks(op, t, i) ==
  CASE op.kind \in {"create", "addLinks"} -> LinksOf(t, i) \union op.links
    [] op.kind = "removeLinks" -> {l \in LinksOf(t, i) : ~op.all /\ l # op.sub}
    [] OTHER -> LinksOf(t, i)

(* The same, from the rows at some time and the statements E that are left. *)
SubsAfter(t, E, i) ==
  PairsOf({r \in t.subs : \A s \in E : s.do = "deleteSubRow" => s.row # r.row}, i)
  \union {<<s.id, s.value>> : s \in {x \in E : x.do = "insertSub"}}

ValsAfter(t, E, i) ==
  PairsOf({v \in t.vals : \A s \in E : s.do # "replaceValue" /\ (s.do = "deleteValue" => s.value # v.value)}, i)
  \union {<<s.id, s.value>> : s \in {x \in E : x.do \in {"insertValue", "replaceValue"}}}

LinksAfter(t, E, i) ==
  {l \in LinksOf(t, i) : \A s \in E : s.do = "deleteLink" => s.link # l}
  \union {s.link : s \in {x \in E : x.do \in {"selectLink", "insertLink"}}}

(* Only rows of entity i differ.                                           *)
Others(rows, i) == {r \in rows : r.fk # i}

OnlyOf(t, u, i) ==
  /\ \A j \in EntityIds \ {i} : u.root[j] = t.root[j]
  /\ Others(u.subs, i) = Others(t.subs, i)
  /\ Others(u.vals, i) = Others(t.vals, i)
  /\ Others(u.links, i) = Others(t.links, i)

(* The statement is about entity i, of which t has the rows.               *)
About(op, t, i, s) ==
  /\ s.do \in {"insertSub", "insertValue", "insertLink", "selectLink", "replaceValue", "deleteValue",
               "deleteLink"} => s.fk = i
  /\ s.do = "deleteSubRow" => \E r \in t.subs : r.fk = i /\ r.row = s.row
  /\ s.do = "updateRoot" =>
       s = SetVersion(i, t.root[i].version + 1, IF op.kind = "update" THEN op.value ELSE 0)

(* From t, the operation has come to u and the statements E are left.      *)
Underway(op, t, u, E, i) ==
  /\ OnlyOf(t, u, i)
  /\ \A s \in E : About(op, t, i, s)
  /\ u.root[i] = NewRoot(op, t, i) \/ (u.root[i] = t.root[i] /\ \E s \in E : s.do = "updateRoot")
  /\ SubsAfter(u, E, i) = NewSubs(op, t, i)
  /\ ValsAfter(u, E, i) = NewVals(op, t, i)
  /\ LinksAfter(u, E, i) = NewLinks(op, t, i)

(* A sub-entity is inserted before other statements, with an id of its own *)
(* that is smaller than the number of its row; a value after the last of   *)
(* the statements that delete all values.                                  *)
Orderly(op, t, q, next, i) ==
  /\ \A k \in 1..Len(q) : q[k].do = "insertSub" =>
       /\ q[k].id \in Nat /\ q[k].id < next.sub + k - 1
       /\ op.kind # "addSubsByFilters" => \A r \in t.subs : r.fk = i => r.id # q[k].id
       /\ op.kind = "addSubsByFilters" => q[k].readBack
  /\ \A k \in 1..Len(q) : q[k].do \in {"insertValue", "replaceValue"} => q[k].id \in Nat
  /\ \A j, k \in 1..Len(q) : j < k =>
       /\ q[k].do = "insertSub" => q[j].do = "insertSub" /\ q[j].id # q[k].id
       /\ q[k].do = "replaceValue" => q[j].do # "insertValue"

SubIdsDiffer(t) == \A r, s \in t.subs : r.fk = s.fk /\ r.id = s.id => r = s

(* Reading new sub-entities back never succeeds.                           *)
NeverRead(q, next) ==
  \E k \in 1..Len(q) : \/ q[k].do = "insertSub"
                       \/ q[k].do = "selectSub" /\ q[k].id = next.sub - 1

----------------------------------------------------------------------------
(* The invariant                                                           *)

(* Rows are numbered, and ids tell them apart.                             *)
RowIdsInv ==
  /\ Numbered(tables, serial) /\ Numbered(work, serial) /\ serial.sub # 0
  /\ IdsDiffer(tables)

(* A call, as it was asked.                                                *)
AskedInv ==
  call # NoCall => call.as = user /\ ~Defective(call)

(* The answer, before the operation ends.                                  *)
AnswerInv ==
  /\ phase \notin {"idle", "posthook", "commit", "failing"} => answer = NoAnswer /\ tx # "failed"
  /\ phase \in {"posthook", "commit"} => (tx = "failed" <=> answer = Failed)

(* What the operation has found.                                           *)
ReadInv ==
  phase \in {"hooks", "insert", "version", "send", "run", "query", "posthook", "commit"} =>
    /\ call.kind \in (ChangingOne \union {"updateByFilters"}) \ {"create", "removeSubsByFilters"} =>
         seen \in First(Where(tables, call, user))
    /\ call.kind = "removeSubsByFilters" =>
         seen \in First(Where(tables, call, user)) \/ (seen = 0 /\ Where(tables, call, user) = {})
    /\ call.kind \in {"delete", "contains"} /\ user # NoAccount => Where(tables, call, user) # {}
    /\ phase = "query" => call.kind \in Queries
    /\ call.kind = "create" => user \in {NoAccount, call.owner}
    /\ call.kind = "create" /\ phase \notin {"hooks", "insert"} =>
         seen \in EntityIds /\ tables.root[seen] = Absent
    /\ call.kind = "update" /\ phase # "hooks" => call.expect \in {0, tables.root[seen].version}

(* The rows when the statements are sent.                                  *)
Prepared(op, t, i) ==
  IF op.kind \in {"create"} \union AddingOrRemovingSubs /\ i # 0
  THEN [t EXCEPT !.root[i] = NewRoot(op, t, i)] ELSE t

ManyDone(op, t, u, q) ==
  \/ q = <<[do |-> "updateRoots", op |-> op, as |-> user]>> /\ u = t
  \/ q = <<>> /\ u = Effect(t, [do |-> "updateRoots", op |-> op, as |-> user])

(* A deletion takes the root rows last.                                    *)
Beside(rows, ids) == {r \in rows : r.fk \notin ids}

DeleteDone(op, t, u, q) ==
  LET ids == Targets(t, op, DeletesAs(op, user)) IN
    /\ \/ q # <<>> /\ u.root = t.root
       \/ q = <<>> /\ u.root = Effect(t, DeleteWhere("deleteRoots", op, DeletesAs(op, user))).root
    /\ Beside(u.subs, ids) = Beside(t.subs, ids)
    /\ Beside(u.vals, ids) = Beside(t.vals, ids)
    /\ Beside(u.links, ids) = Beside(t.links, ids)
    /\ u.subs \subseteq t.subs

(* What a query answers.                                                   *)
FoundIn(t, op, as) ==
  CASE op.kind \in {"get", "getByFilters"} -> First(Where(t, op, as))
    [] op.kind = "contains" -> {i \in {op.id} : \E v \in t.vals : v.fk = i /\ v.value = op.value}
    [] op.kind = "getAll" -> {i \in EntityIds : t.root[i] # Absent /\ as \in {NoAccount, t.root[i].owner}}
    [] op.kind = "getEntities" -> Where(t, op, as)

Progressed(op, t, u, q, next, i, running) ==
  /\ Underway(op, t, u, Elements(q), i)
  /\ op.kind # "addSubsByFilters" \/ op.values = <<>> => SubIdsDiffer(u)
  /\ running => Orderly(op, u, q, next, i)
  /\ op.kind = "addSubsByFilters" =>
       IF op.values = <<>> THEN q = <<>> ELSE running /\ NeverRead(q, next)

(* The operation has come from t to u, and the statements q are left.      *)
Advanced(op, t, u, q, next, i, running, result) ==
  /\ op.kind \in ChangingOne /\ i # 0 => Progressed(op, t, u, q, next, i, running)
  /\ op.kind \in ChangingOne /\ i = 0 => u = t /\ q = <<>>
  /\ op.kind \in UpdatingMany => ManyDone(op, t, u, q)
  /\ op.kind \in Deleting => DeleteDone(op, t, u, q)
  /\ op.kind \in Queries => /\ u = t /\ q = <<>>
                            /\ result # Failed => result.found = FoundIn(t, op, user)
                            /\ op.kind \in {"get", "getByFilters"} => FoundIn(t, op, user) # {}
                            /\ op.kind # "getByIds"

WorkInv ==
  /\ phase \in {"begin", "check", "read", "hooks", "insert", "version", "query"} => work = tables
  /\ phase = "send" => work = Prepared(call, tables, seen)
  /\ phase \in {"run", "posthook", "commit"} =>
       Advanced(call, tables, work, queue, serial, seen, phase = "run", answer)

ContentInv == RowIdsInv /\ AskedInv /\ AnswerInv /\ ReadInv /\ WorkInv

----------------------------------------------------------------------------
(* Statements and what is left to do                                       *)

OneStatements == {"insertSub", "insertValue", "insertLink", "updateRoot", "selectLink", "selectSub",
                  "replaceValue", "deleteValue", "deleteLink", "deleteSubRow"}

(* u has the tables of t after a statement about one entity.               *)
Rewritten(t, s, u) ==
  /\ s.do = "insertSub" => u.subs = t.subs \union
       {[row |-> serial.sub, fk |-> s.fk, id |-> s.id, value |-> s.value]}
  /\ s.do = "deleteSubRow" => u.subs = {r \in t.subs : r.row # s.row}
  /\ s.do \notin {"insertSub", "deleteSubRow"} => u.subs = t.subs
  /\ s.do = "insertValue" => u.vals = t.vals \union
       {[row |-> serial.val, fk |-> s.fk, id |-> s.id, value |-> s.value]}
  /\ s.do = "deleteValue" => u.vals = {v \in t.vals : v.fk # s.fk \/ v.value # s.value}
  /\ s.do = "replaceValue" => u.vals = {v \in t.vals : v.fk # s.fk}
  /\ s.do \notin {"insertValue", "deleteValue", "replaceValue"} => u.vals = t.vals
  /\ s.do = "insertLink" => u.links = t.links \union {[fk |-> s.fk, link |-> s.link]}
  /\ s.do = "deleteLink" => u.links = t.links \ {[fk |-> s.fk, link |-> s.link]}
  /\ s.do \notin {"insertLink", "deleteLink"} => u.links = t.links
  /\ s.do = "updateRoot" => u.root =
       [t.root EXCEPT ![s.fk] = Changed(@, s.version, IF s.value = 0 THEN @.value ELSE s.value)]
  /\ s.do # "updateRoot" => u.root = t.root

(* Each table after a statement about one entity.                          *)
LEMMA EffectFields ==
  ASSUME NEW t, WellFormed(t), NEW s, s.do \in OneStatements
  PROVE  Rewritten(t, s, Effect(t, s))
<1>1. DOMAIN t = {"root", "subs", "vals", "links"}
  BY DEF WellFormed
<1>2. CASE s.do = "insertSub"
  BY <1>1, <1>2 DEF Effect, Rewritten
<1>3. CASE s.do = "insertValue"
  BY <1>1, <1>3 DEF Effect, Rewritten
<1>4. CASE s.do = "insertLink"
  BY <1>1, <1>4 DEF Effect, Rewritten
<1>5. CASE s.do = "updateRoot"
  BY <1>1, <1>5 DEF Effect, Rewritten
<1>6. CASE s.do \in {"selectLink", "selectSub"}
  BY <1>1, <1>6 DEF Effect, Rewritten
<1>7. CASE s.do = "replaceValue"
  BY <1>1, <1>7 DEF Effect, Rewritten
<1>8. CASE s.do = "deleteValue"
  BY <1>1, <1>8 DEF Effect, Rewritten
<1>9. CASE s.do = "deleteLink"
  BY <1>1, <1>9 DEF Effect, Rewritten
<1>10. CASE s.do = "deleteSubRow"
  BY <1>1, <1>10 DEF Effect, Rewritten
<1> QED
  BY <1>2, <1>3, <1>4, <1>5, <1>6, <1>7, <1>8, <1>9, <1>10 DEF OneStatements

(* What an answered statement makes its branch send.                       *)
LEMMA ThenElements ==
  ASSUME NEW s
  PROVE  /\ s.do = "selectLink" => Elements(Then(s)) = {InsertLink(s.fk, s.link)}
         /\ s.do = "replaceValue" => Elements(Then(s)) = {InsertValue(s.fk, s.id, s.value)}
         /\ s.do = "insertSub" => \A e \in Elements(Then(s)) : e.do = "selectSub"
         /\ s.do \notin {"selectLink", "replaceValue", "insertSub"} => Elements(Then(s)) = {}
         /\ IsSequence(Then(s))
<1>1. ASSUME NEW e PROVE Elements(<<e>>) = {e} /\ IsSequence(<<e>>)
  <2>1. DOMAIN <<e>> = {1} /\ <<e>>[1] = e
    OBVIOUS
  <2>2. Elements(<<e>>) = {e}
    BY <2>1 DEF Elements
  <2> QED
    BY <2>2 DEF IsSequence
<1>2. Elements(<<>>) = {} /\ IsSequence(<<>>)
  <2>1. Elements(<<>>) = {}
    BY DEF Elements
  <2> QED
    BY <2>1 DEF IsSequence
<1>3. CASE s.do = "selectLink"
  BY <1>1, <1>3 DEF Then, IsSequence
<1>4. CASE s.do = "replaceValue"
  BY <1>1, <1>4 DEF Then, IsSequence
<1>5. CASE s.do = "insertSub" /\ s.readBack
  BY <1>1, <1>5 DEF Then, IsSequence
<1>6. CASE s.do \notin {"selectLink", "replaceValue"} /\ ~(s.do = "insertSub" /\ s.readBack)
  BY <1>2, <1>6 DEF Then, IsSequence
<1> QED
  BY <1>3, <1>4, <1>5, <1>6

(* Statements that add rows are not mixed with some that remove such rows. *)
Compatible(E) ==
  /\ \A s \in E : s.do \in OneStatements
  /\ \A s, e \in E :
    /\ s.do = "insertSub" => e.do # "deleteSubRow"
    /\ s.do \in {"insertValue", "replaceValue"} => e.do # "deleteValue"
    /\ s.do \in {"insertLink", "selectLink"} => e.do # "deleteLink"

(* The statements of one operation do not undo what others of it have      *)
(* done.                                                                   *)
LEMMA KindsCompatible ==
  ASSUME NEW op, op.kind \in ChangingOne, NEW E, \A s \in E : s.do \in StatementsOf(op.kind)
  PROVE  Compatible(E)
<1>1. StatementsOf(op.kind) \in
        {{"insertSub", "insertValue", "insertLink"}, {"insertSub"}, {"insertSub", "selectSub"},
         {"selectLink", "insertLink"}, {"replaceValue", "insertValue", "updateRoot"},
         {"insertValue", "updateRoot"}, {"deleteValue", "updateRoot"}, {"deleteSubRow", "deleteLink"}}
  BY StatementsOfKinds DEF ChangingOne, ChangingValues, AddingOrRemovingSubs, AddingSubs, RemovingSubs
<1> QED
  BY <1>1 DEF Compatible, OneStatements

(* Statement s, of E, is answered; those of F are left.                    *)
Answers(s, E, R, F) == E = {s} \union R /\ F = R \union Elements(Then(s))

(* The statement is about entity i, if its rows tell of which they are.    *)
OwnStatement(i, s) ==
  s.do \in {"insertSub", "insertValue", "insertLink", "selectLink", "replaceValue", "deleteValue",
            "deleteLink"} => s.fk = i

(* No statement is left that deletes all values before it inserts one.     *)
InsertsLast(s, R) == s.do = "insertValue" => \A e \in R : e.do # "replaceValue"

(* Sub-entities, present or to be inserted.                                *)
LEMMA SubsProgress ==
  ASSUME NEW i, NEW s, OwnStatement(i, s), NEW E, Compatible(E), NEW R, NEW F, Answers(s, E, R, F),
         NEW t, NEW u, Rewritten(t, s, u)
  PROVE  SubsAfter(u, F, i) = SubsAfter(t, E, i) /\ Others(u.subs, i) \subseteq Others(t.subs, i)
         /\ (s.do # "deleteSubRow" => Others(u.subs, i) = Others(t.subs, i))
<1> USE DEF Answers, OwnStatement, InsertsLast
<1>1. /\ s.do = "insertSub" => u.subs = t.subs \union {[row |-> serial.sub, fk |-> s.fk, id |-> s.id, value |-> s.value]}
      /\ s.do = "deleteSubRow" => u.subs = {r \in t.subs : r.row # s.row}
      /\ s.do \notin {"insertSub", "deleteSubRow"} => u.subs = t.subs
  BY DEF Rewritten
<1>2. \A e \in F \ R : e.do \in {"selectSub", "insertLink", "insertValue"}
  <2>1. \A e \in Elements(Then(s)) : e.do \in {"selectSub", "insertLink", "insertValue"}
    BY ThenElements DEF InsertLink, InsertValue
  <2> QED
    BY <2>1
<1>3. CASE s.do = "insertSub"
  <2>1. PICK new : new = [row |-> serial.sub, fk |-> s.fk, id |-> s.id, value |-> s.value]
    OBVIOUS
  <2>2. u.subs = t.subs \union {new} /\ new.fk = i /\ new.id = s.id /\ new.value = s.value
    BY <1>1, <1>3, <2>1
  <2>3. \A e \in E \union F : e.do # "deleteSubRow"
    BY <1>2, <1>3 DEF Compatible
  <2>4. SubsAfter(u, F, i) = PairsOf(u.subs, i) \union {<<e.id, e.value>> : e \in {x \in F : x.do = "insertSub"}}
    BY <2>3 DEF SubsAfter
  <2>5. SubsAfter(t, E, i) = PairsOf(t.subs, i) \union {<<e.id, e.value>> : e \in {x \in E : x.do = "insertSub"}}
    BY <2>3 DEF SubsAfter
  <2>6. PairsOf(u.subs, i) = PairsOf(t.subs, i) \union {<<s.id, s.value>>}
    BY <2>2 DEF PairsOf
  <2>7. {x \in F : x.do = "insertSub"} = {x \in R : x.do = "insertSub"}
    BY <1>2
  <2>8. {x \in E : x.do = "insertSub"} = {x \in R : x.do = "insertSub"} \union {s}
    BY <1>3
  <2>9. {<<e.id, e.value>> : e \in {x \in E : x.do = "insertSub"}} =
          {<<e.id, e.value>> : e \in {x \in R : x.do = "insertSub"}} \union {<<s.id, s.value>>}
    BY <2>8
  <2>10. SubsAfter(u, F, i) = SubsAfter(t, E, i)
    BY <2>4, <2>5, <2>6, <2>7, <2>9
  <2>11. Others(u.subs, i) = Others(t.subs, i)
    BY <2>2 DEF Others
  <2> QED
    BY <1>3, <2>10, <2>11
<1>4. CASE s.do = "deleteSubRow"
  <2>1. \A e \in E \union F : e.do # "insertSub"
    BY <1>2, <1>4 DEF Compatible
  <2>2. {r \in u.subs : \A e \in F : e.do = "deleteSubRow" => e.row # r.row}
        = {r \in t.subs : \A e \in E : e.do = "deleteSubRow" => e.row # r.row}
    BY <1>1, <1>2, <1>4
  <2>3. SubsAfter(u, F, i) = SubsAfter(t, E, i)
    BY <2>1, <2>2 DEF SubsAfter
  <2>4. Others(u.subs, i) \subseteq Others(t.subs, i)
    BY <1>1, <1>4 DEF Others
  <2> QED
    BY <1>4, <2>3, <2>4
<1>5. CASE s.do \notin {"insertSub", "deleteSubRow"}
  <2>1. \A r : (\A e \in F : e.do = "deleteSubRow" => e.row # r.row) <=> (\A e \in E : e.do = "deleteSubRow" => e.row # r.row)
    BY <1>2, <1>5
  <2>2. {x \in F : x.do = "insertSub"} = {x \in E : x.do = "insertSub"}
    BY <1>2, <1>5
  <2>3. u.subs = t.subs
    BY <1>1, <1>5
  <2>a. {r \in u.subs : \A e \in F : e.do = "deleteSubRow" => e.row # r.row}
        = {r \in t.subs : \A e \in E : e.do = "deleteSubRow" => e.row # r.row}
    BY <2>1, <2>3
  <2>4. SubsAfter(u, F, i) = SubsAfter(t, E, i)
    BY <2>2, <2>a DEF SubsAfter
  <2> QED
    BY <2>3, <2>4
<1> QED
  BY <1>3, <1>4, <1>5

(* Values of the array field, likewise.                                    *)
LEMMA ValsProgress ==
  ASSUME NEW i, NEW s, OwnStatement(i, s), NEW E, Compatible(E), NEW R, NEW F, Answers(s, E, R, F),
         InsertsLast(s, R), NEW t, NEW u, Rewritten(t, s, u)
  PROVE  ValsAfter(u, F, i) = ValsAfter(t, E, i) /\ Others(u.vals, i) = Others(t.vals, i)
<1> USE DEF Answers, OwnStatement, InsertsLast
<1>1. /\ s.do = "insertValue" => u.vals = t.vals \union {[row |-> serial.val, fk |-> s.fk, id |-> s.id, value |-> s.value]}
      /\ s.do = "deleteValue" => u.vals = {v \in t.vals : v.fk # s.fk \/ v.value # s.value}
      /\ s.do = "replaceValue" => u.vals = {v \in t.vals : v.fk # s.fk}
      /\ s.do \notin {"insertValue", "deleteValue", "replaceValue"} => u.vals = t.vals
  BY DEF Rewritten
<1>2. /\ s.do = "replaceValue" => F = R \union {InsertValue(i, s.id, s.value)}
      /\ s.do # "replaceValue" => \A e \in F \ R : e.do \in {"selectSub", "insertLink"}
  <2>1. /\ s.do = "replaceValue" => Elements(Then(s)) = {InsertValue(s.fk, s.id, s.value)}
        /\ s.do # "replaceValue" => \A e \in Elements(Then(s)) : e.do \in {"selectSub", "insertLink"}
    BY ThenElements DEF InsertLink
  <2> QED
    BY <2>1
<1>3. CASE s.do = "insertValue"
  <2>1. PICK new : new = [row |-> serial.val, fk |-> s.fk, id |-> s.id, value |-> s.value]
    OBVIOUS
  <2>2. u.vals = t.vals \union {new} /\ new.fk = i /\ new.id = s.id /\ new.value = s.value
    BY <1>1, <1>3, <2>1
  <2>3. \A e \in E \union F : e.do \notin {"deleteValue", "replaceValue"}
    BY <1>2, <1>3 DEF Compatible
  <2>4. ValsAfter(u, F, i) = PairsOf(u.vals, i) \union {<<e.id, e.value>> : e \in {x \in F : x.do \in {"insertValue", "replaceValue"}}}
    BY <2>3 DEF ValsAfter
  <2>5. ValsAfter(t, E, i) = PairsOf(t.vals, i) \union {<<e.id, e.value>> : e \in {x \in E : x.do \in {"insertValue", "replaceValue"}}}
    BY <2>3 DEF ValsAfter
  <2>6. PairsOf(u.vals, i) = PairsOf(t.vals, i) \union {<<s.id, s.value>>}
    BY <2>2 DEF PairsOf
  <2>7. {x \in F : x.do \in {"insertValue", "replaceValue"}} = {x \in R : x.do \in {"insertValue", "replaceValue"}}
    BY <1>2, <1>3
  <2>8. {x \in E : x.do \in {"insertValue", "replaceValue"}} = {x \in R : x.do \in {"insertValue", "replaceValue"}} \union {s}
    BY <1>3
  <2>9. {<<e.id, e.value>> : e \in {x \in E : x.do \in {"insertValue", "replaceValue"}}} =
          {<<e.id, e.value>> : e \in {x \in R : x.do \in {"insertValue", "replaceValue"}}} \union {<<s.id, s.value>>}
    BY <2>8
  <2>10. ValsAfter(u, F, i) = ValsAfter(t, E, i)
    BY <2>4, <2>5, <2>6, <2>7, <2>9
  <2>11. Others(u.vals, i) = Others(t.vals, i)
    BY <2>2 DEF Others
  <2> QED
    BY <2>10, <2>11
<1>4. CASE s.do = "replaceValue"
  <2>1. PICK new : new = InsertValue(i, s.id, s.value)
    OBVIOUS
  <2>2. /\ F = R \union {new} /\ new.do = "insertValue" /\ new.id = s.id /\ new.value = s.value
        /\ u.vals = {v \in t.vals : v.fk # i}
    BY <1>1, <1>2, <1>4, <2>1 DEF InsertValue
  <2>3. PairsOf({v \in u.vals : \A e \in F : e.do # "replaceValue" /\ (e.do = "deleteValue" => e.value # v.value)}, i) = {}
    BY <2>2 DEF PairsOf
  <2>4. PairsOf({v \in t.vals : \A e \in E : e.do # "replaceValue" /\ (e.do = "deleteValue" => e.value # v.value)}, i) = {}
    BY <1>4 DEF PairsOf
  <2>5. {<<e.id, e.value>> : e \in {x \in F : x.do \in {"insertValue", "replaceValue"}}} =
        {<<e.id, e.value>> : e \in {x \in R : x.do \in {"insertValue", "replaceValue"}}} \union {<<s.id, s.value>>}
    <3>1. {x \in F : x.do \in {"insertValue", "replaceValue"}} = {x \in R : x.do \in {"insertValue", "replaceValue"}} \union {new}
      BY <2>2
    <3>2. {<<e.id, e.value>> : e \in {x \in F : x.do \in {"insertValue", "replaceValue"}}} =
          {<<e.id, e.value>> : e \in {x \in R : x.do \in {"insertValue", "replaceValue"}}} \union {<<new.id, new.value>>}
      BY <3>1
    <3> QED
      BY <2>2, <3>2
  <2>6. {<<e.id, e.value>> : e \in {x \in E : x.do \in {"insertValue", "replaceValue"}}} =
        {<<e.id, e.value>> : e \in {x \in R : x.do \in {"insertValue", "replaceValue"}}} \union {<<s.id, s.value>>}
    <3>1. {x \in E : x.do \in {"insertValue", "replaceValue"}} = {x \in R : x.do \in {"insertValue", "replaceValue"}} \union {s}
      BY <1>4
    <3> QED
      BY <3>1
  <2>7. ValsAfter(u, F, i) = ValsAfter(t, E, i)
    BY <2>3, <2>4, <2>5, <2>6 DEF ValsAfter
  <2>8. Others(u.vals, i) = Others(t.vals, i)
    BY <2>2 DEF Others
  <2> QED
    BY <2>7, <2>8
<1>5. CASE s.do = "deleteValue"
  <2>1. \A e \in E \union F : e.do \notin {"insertValue", "replaceValue"}
    BY <1>2, <1>5 DEF Compatible
  <2>2. ASSUME NEW v, v.fk = i
        PROVE  v \in {x \in u.vals : \A e \in F : e.do = "deleteValue" => e.value # x.value}
           <=> v \in {x \in t.vals : \A e \in E : e.do = "deleteValue" => e.value # x.value}
    BY <1>1, <1>2, <1>5, <2>2
  <2>3. PairsOf({x \in u.vals : \A e \in F : e.do = "deleteValue" => e.value # x.value}, i)
        = PairsOf({x \in t.vals : \A e \in E : e.do = "deleteValue" => e.value # x.value}, i)
    BY <2>2 DEF PairsOf
  <2>4. ValsAfter(u, F, i) = ValsAfter(t, E, i)
    BY <2>1, <2>3 DEF ValsAfter
  <2>5. Others(u.vals, i) = Others(t.vals, i)
    BY <1>1, <1>5 DEF Others
  <2> QED
    BY <2>4, <2>5
<1>6. CASE s.do \notin {"insertValue", "replaceValue", "deleteValue"}
  <2>1. \A v : (\A e \in F : e.do # "replaceValue" /\ (e.do = "deleteValue" => e.value # v.value))
               <=> (\A e \in E : e.do # "replaceValue" /\ (e.do = "deleteValue" => e.value # v.value))
    BY <1>2, <1>6
  <2>2. {x \in F : x.do \in {"insertValue", "replaceValue"}} = {x \in E : x.do \in {"insertValue", "replaceValue"}}
    BY <1>2, <1>6
  <2>3. u.vals = t.vals
    BY <1>1, <1>6
  <2>a. {v \in u.vals : \A e \in F : e.do # "replaceValue" /\ (e.do = "deleteValue" => e.value # v.value)}
        = {v \in t.vals : \A e \in E : e.do # "replaceValue" /\ (e.do = "deleteValue" => e.value # v.value)}
    BY <2>1, <2>3
  <2>4. ValsAfter(u, F, i) = ValsAfter(t, E, i)
    BY <2>2, <2>a DEF ValsAfter
  <2> QED
    BY <2>3, <2>4
<1> QED
  BY <1>3, <1>4, <1>5, <1>6

LinkRows(links) == \A l \in links : l = [fk |-> l.fk, link |-> l.link]

(* Links, present or to be inserted.                                       *)
LEMMA LinksProgress ==
  ASSUME NEW i, NEW s, OwnStatement(i, s), NEW E, Compatible(E), NEW R, NEW F, Answers(s, E, R, F),
         NEW t, LinkRows(t.links), NEW u, Rewritten(t, s, u)
  PROVE  /\ LinksAfter(u, F, i) = LinksAfter(t, E, i) /\ Others(u.links, i) = Others(t.links, i)
         /\ LinkRows(u.links)
<1> USE DEF Answers, OwnStatement, LinkRows
<1>1. /\ s.do = "insertLink" => u.links = t.links \union {[fk |-> s.fk, link |-> s.link]}
      /\ s.do = "deleteLink" => u.links = t.links \ {[fk |-> s.fk, link |-> s.link]}
      /\ s.do \notin {"insertLink", "deleteLink"} => u.links = t.links
  BY DEF Rewritten
<1>2. /\ s.do = "selectLink" => F = R \union {InsertLink(i, s.link)}
      /\ s.do # "selectLink" => \A e \in F \ R : e.do \in {"selectSub", "insertValue"}
  <2>1. /\ s.do = "selectLink" => Elements(Then(s)) = {InsertLink(s.fk, s.link)}
        /\ s.do # "selectLink" => \A e \in Elements(Then(s)) : e.do \in {"selectSub", "insertValue"}
    BY ThenElements DEF InsertValue
  <2> QED
    BY <2>1
<1>b. PICK new : new = [fk |-> s.fk, link |-> s.link]
  OBVIOUS
<1>c. new.fk = s.fk /\ new.link = s.link
  BY <1>b
<1>3. CASE s.do = "insertLink"
  <2>2. u.links = t.links \union {new} /\ s.fk = i
    BY <1>1, <1>3, <1>b
  <2>3. \A e \in E \union F : e.do # "deleteLink"
    BY <1>2, <1>3 DEF Compatible
  <2>4. LinksAfter(u, F, i) = LinksOf(u, i) \union {e.link : e \in {x \in F : x.do \in {"selectLink", "insertLink"}}}
    BY <2>3 DEF LinksAfter
  <2>5. LinksAfter(t, E, i) = LinksOf(t, i) \union {e.link : e \in {x \in E : x.do \in {"selectLink", "insertLink"}}}
    BY <2>3 DEF LinksAfter
  <2>6. LinksOf(u, i) = LinksOf(t, i) \union {s.link}
    BY <1>c, <2>2 DEF LinksOf
  <2>7. {x \in F : x.do \in {"selectLink", "insertLink"}} = {x \in R : x.do \in {"selectLink", "insertLink"}}
    BY <1>2, <1>3
  <2>8. {x \in E : x.do \in {"selectLink", "insertLink"}} = {x \in R : x.do \in {"selectLink", "insertLink"}} \union {s}
    BY <1>3
  <2>9. {e.link : e \in {x \in E : x.do \in {"selectLink", "insertLink"}}} =
          {e.link : e \in {x \in R : x.do \in {"selectLink", "insertLink"}}} \union {s.link}
    BY <2>8
  <2>10. LinksAfter(u, F, i) = LinksAfter(t, E, i)
    BY <2>4, <2>5, <2>6, <2>7, <2>9
  <2>11. Others(u.links, i) = Others(t.links, i)
    BY <1>c, <2>2 DEF Others
  <2> QED
    BY <1>b, <1>c, <2>2, <2>10, <2>11
<1>4. CASE s.do = "selectLink"
  <2>1. PICK ins : ins = InsertLink(i, s.link)
    OBVIOUS
  <2>2. /\ F = R \union {ins} /\ ins.do = "insertLink" /\ ins.link = s.link /\ u.links = t.links
    BY <1>1, <1>2, <1>4, <2>1 DEF InsertLink
  <2>3. \A e \in E \union F : e.do # "deleteLink"
    BY <1>4, <2>2 DEF Compatible
  <2>4. LinksAfter(u, F, i) = LinksOf(u, i) \union {e.link : e \in {x \in F : x.do \in {"selectLink", "insertLink"}}}
    BY <2>3 DEF LinksAfter
  <2>5. LinksAfter(t, E, i) = LinksOf(t, i) \union {e.link : e \in {x \in E : x.do \in {"selectLink", "insertLink"}}}
    BY <2>3 DEF LinksAfter
  <2>6. LinksOf(u, i) = LinksOf(t, i)
    BY <2>2 DEF LinksOf
  <2>7. {e.link : e \in {x \in F : x.do \in {"selectLink", "insertLink"}}} =
          {e.link : e \in {x \in R : x.do \in {"selectLink", "insertLink"}}} \union {s.link}
    <3>1. {x \in F : x.do \in {"selectLink", "insertLink"}} = {x \in R : x.do \in {"selectLink", "insertLink"}} \union {ins}
      BY <2>2
    <3>2. {e.link : e \in {x \in F : x.do \in {"selectLink", "insertLink"}}} =
          {e.link : e \in {x \in R : x.do \in {"selectLink", "insertLink"}}} \union {ins.link}
      BY <3>1
    <3> QED
      BY <2>2, <3>2
  <2>8. {e.link : e \in {x \in E : x.do \in {"selectLink", "insertLink"}}} =
          {e.link : e \in {x \in R : x.do \in {"selectLink", "insertLink"}}} \union {s.link}
    <3>1. {x \in E : x.do \in {"selectLink", "insertLink"}} = {x \in R : x.do \in {"selectLink", "insertLink"}} \union {s}
      BY <1>4
    <3> QED
      BY <3>1
  <2> QED
    BY <2>2, <2>4, <2>5, <2>6, <2>7, <2>8
<1>5. CASE s.do = "deleteLink"
  <2>1. \A e \in E \union F : e.do \notin {"selectLink", "insertLink"}
    BY <1>2, <1>5 DEF Compatible
  <2>2. u.links = t.links \ {new} /\ s.fk = i
    BY <1>1, <1>5, <1>b
  <2>3. LinksOf(u, i) = LinksOf(t, i) \ {s.link}
    <3>1. ASSUME NEW m \in t.links, m.fk = i, m.link = s.link PROVE m = new
      <4>1. m = [fk |-> m.fk, link |-> m.link]
        OBVIOUS
      <4> QED
        BY <1>b, <2>2, <3>1, <4>1
    <3>2. ASSUME NEW x \in LinksOf(u, i) PROVE x \in LinksOf(t, i) \ {s.link}
      <4>1. PICK m \in u.links : m.fk = i /\ x = m.link
        BY DEF LinksOf
      <4>2. m \in t.links /\ m # new
        BY <2>2, <4>1
      <4> QED
        BY <3>1, <4>1, <4>2 DEF LinksOf
    <3>3. ASSUME NEW x \in LinksOf(t, i) \ {s.link} PROVE x \in LinksOf(u, i)
      <4>1. PICK m \in t.links : m.fk = i /\ x = m.link
        BY DEF LinksOf
      <4>2. m \in u.links
        BY <1>c, <2>2, <4>1
      <4> QED
        BY <4>1, <4>2 DEF LinksOf
    <3> QED
      BY <3>2, <3>3
  <2>4. {l \in LinksOf(u, i) : \A e \in F : e.do = "deleteLink" => e.link # l}
        = {l \in LinksOf(t, i) : \A e \in E : e.do = "deleteLink" => e.link # l}
    BY <1>2, <1>5, <2>3
  <2>5. LinksAfter(u, F, i) = LinksAfter(t, E, i)
    BY <2>1, <2>4 DEF LinksAfter
  <2>6. Others(u.links, i) = Others(t.links, i)
    BY <1>c, <2>2 DEF Others
  <2> QED
    BY <2>2, <2>5, <2>6
<1>6. CASE s.do \notin {"insertLink", "selectLink", "deleteLink"}
  <2>1. u.links = t.links
    BY <1>1, <1>6
  <2>2. LinksOf(u, i) = LinksOf(t, i)
    BY <2>1 DEF LinksOf
  <2>3. {l \in LinksOf(u, i) : \A e \in F : e.do = "deleteLink" => e.link # l}
        = {l \in LinksOf(t, i) : \A e \in E : e.do = "deleteLink" => e.link # l}
    BY <1>2, <1>6, <2>2
  <2>4. {x \in F : x.do \in {"selectLink", "insertLink"}} = {x \in E : x.do \in {"selectLink", "insertLink"}}
    BY <1>2, <1>6
  <2>5. LinksAfter(u, F, i) = LinksAfter(t, E, i)
    BY <2>3, <2>4 DEF LinksAfter
  <2> QED
    BY <2>1, <2>5
<1> QED
  BY <1>3, <1>4, <1>5, <1>6

(* A root row with exactly its columns.                                    *)
IsRow(row) == row = [owner |-> row.owner, version |-> row.version, value |-> row.value]

(* A root row has its three columns, and keeps its owner.                  *)
LEMMA ChangedRow ==
  ASSUME NEW row, IsRow(row), NEW version, NEW value
  PROVE  Changed(row, version, value) = [owner |-> row.owner, version |-> version, value |-> value]
<1>1. PICK new : new = Changed(row, version, value)
  OBVIOUS
<1>2. new = [row EXCEPT !.version = version, !.value = value]
  BY <1>1 DEF Changed
<1>3. row = [owner |-> row.owner, version |-> row.version, value |-> row.value]
  BY DEF IsRow
<1>4. new = [owner |-> row.owner, version |-> version, value |-> value]
  BY <1>2, <1>3
<1> QED
  BY <1>1, <1>4

RootUnderway(op, t, u, E, i) ==
  u.root[i] = NewRoot(op, t, i) \/ (u.root[i] = t.root[i] /\ \E e \in E : e.do = "updateRoot")

(* The root row, changed once or more.                                     *)
LEMMA RootProgress ==
  ASSUME NEW op, NEW t, NEW i \in EntityIds, op.kind # "create" => IsRow(t.root[i]),
         NEW s, About(op, t, i, s), s.do = "updateRoot" => op.kind # "create",
         NEW E, NEW R, NEW F, Answers(s, E, R, F),
         NEW u, WellFormed(u), RootUnderway(op, t, u, E, i), NEW w, Rewritten(u, s, w)
  PROVE  /\ RootUnderway(op, t, w, F, i)
         /\ \A j \in EntityIds \ {i} : w.root[j] = u.root[j]
<1> USE DEF Answers, RootUnderway
<1>0. u.root = [j \in EntityIds |-> u.root[j]]
  BY DEF WellFormed
<1>1. CASE s.do # "updateRoot"
  <2>1. w.root = u.root
    BY <1>1 DEF Rewritten
  <2> QED
    BY <1>1, <2>1
<1>2. CASE s.do = "updateRoot"
  <2>1. s = SetVersion(i, t.root[i].version + 1, IF op.kind = "update" THEN op.value ELSE 0)
    BY <1>2 DEF About
  <2>2. /\ s.fk = i /\ s.version = t.root[i].version + 1
        /\ s.value = IF op.kind = "update" THEN op.value ELSE 0
    BY <2>1 DEF SetVersion
  <2>3. w.root = [u.root EXCEPT ![i] = Changed(@, s.version, IF s.value = 0 THEN @.value ELSE s.value)]
    BY <1>2, <2>2 DEF Rewritten
  <2>4. w.root[i] = Changed(u.root[i], s.version, IF s.value = 0 THEN u.root[i].value ELSE s.value)
    BY <1>0, <2>3
  <2>5. PICK row, old, new : row = u.root[i] /\ old = t.root[i] /\ new = NewRoot(op, t, i)
    OBVIOUS
  <2>6. PICK value : value = IF op.kind = "update" /\ op.value # 0 THEN op.value ELSE old.value
    OBVIOUS
  <2>7. new = [owner |-> old.owner, version |-> old.version + 1, value |-> value]
    <3>1. new = Changed(old, old.version + 1, value)
      BY <1>2, <2>5, <2>6 DEF NewRoot
    <3>2. old = [owner |-> old.owner, version |-> old.version, value |-> old.value]
      BY <1>2, <2>5 DEF IsRow
    <3> QED
      BY <3>1, <3>2 DEF Changed
  <2>8. row = old \/ row = new
    BY <2>5
  <2>9. row = [owner |-> old.owner, version |-> row.version, value |-> row.value]
        /\ (IF s.value = 0 THEN row.value ELSE s.value) = value
    <3>1. IsRow(old)
      BY <1>2, <2>5
    <3>2. CASE row = old
      BY <2>2, <2>6, <3>1, <3>2 DEF IsRow
    <3>3. CASE row = new
      BY <2>2, <2>6, <2>7, <3>3
    <3> QED
      BY <2>8, <3>2, <3>3
  <2>10. Changed(row, old.version + 1, value) = new
    <3>1. IsRow(row)
      <4>1. IsRow(old)
        BY <1>2, <2>5
      <4>2. IsRow(new)
        BY <2>7 DEF IsRow
      <4> QED
        BY <2>8, <4>1, <4>2
    <3>2. Changed(row, old.version + 1, value) = [owner |-> row.owner, version |-> old.version + 1, value |-> value]
      BY <3>1, ChangedRow
    <3>3. row.owner = old.owner
      BY <2>7, <2>8
    <3> QED
      BY <2>7, <3>2, <3>3
  <2>11. w.root[i] = new
    BY <2>2, <2>4, <2>5, <2>9, <2>10
  <2>12. \A j \in EntityIds \ {i} : w.root[j] = u.root[j]
    BY <1>0, <2>3
  <2> QED
    BY <2>5, <2>11, <2>12
<1> QED
  BY <1>1, <1>2

(* The next statement brings the operation further.                        *)
LEMMA UnderwayStep ==
  ASSUME NEW op, op.kind \in ChangingOne, NEW t, NEW next, Numbered(t, next), NEW i \in EntityIds,
         op.kind # "create" => IsRow(t.root[i]),
         NEW s, NEW E, NEW R, NEW F, Answers(s, E, R, F), InsertsLast(s, R),
         \A e \in E : e.do \in StatementsOf(op.kind),
         NEW u, WellFormed(u), LinkRows(u.links), Underway(op, t, u, E, i),
         NEW w, w = Effect(u, s)
  PROVE  Underway(op, t, w, F, i) /\ LinkRows(w.links)
<1>1. Compatible(E)
  BY KindsCompatible
<1>2. /\ OnlyOf(t, u, i) /\ \A e \in E : About(op, t, i, e)
      /\ RootUnderway(op, t, u, E, i)
      /\ SubsAfter(u, E, i) = NewSubs(op, t, i)
      /\ ValsAfter(u, E, i) = NewVals(op, t, i)
      /\ LinksAfter(u, E, i) = NewLinks(op, t, i)
  BY DEF Underway, RootUnderway
<1>3. About(op, t, i, s) /\ s \in E
  BY <1>2 DEF Answers
<1>4. /\ OwnStatement(i, s)
      /\ s.do = "deleteSubRow" => \E r \in t.subs : r.fk = i /\ r.row = s.row
  BY <1>3 DEF About, OwnStatement
<1>5. s.do \in OneStatements
  BY <1>1, <1>3 DEF Compatible
<1>6. Rewritten(u, s, w)
  BY <1>5, EffectFields
<1>7. /\ SubsAfter(w, F, i) = SubsAfter(u, E, i) /\ Others(w.subs, i) \subseteq Others(u.subs, i)
      /\ (s.do # "deleteSubRow" => Others(w.subs, i) = Others(u.subs, i))
  BY <1>1, <1>4, <1>6, SubsProgress
<1>8. ValsAfter(w, F, i) = ValsAfter(u, E, i) /\ Others(w.vals, i) = Others(u.vals, i)
  BY <1>1, <1>4, <1>6, ValsProgress
<1>9. /\ LinksAfter(w, F, i) = LinksAfter(u, E, i) /\ Others(w.links, i) = Others(u.links, i)
      /\ LinkRows(w.links)
  BY <1>1, <1>4, <1>6, LinksProgress
<1>10. s.do = "updateRoot" => op.kind # "create"
  BY <1>3, StatementsOfKinds
<1>11. /\ RootUnderway(op, t, w, F, i)
       /\ \A j \in EntityIds \ {i} : w.root[j] = u.root[j]
  BY <1>2, <1>3, <1>6, <1>10, RootProgress
<1>12. ASSUME s.do = "deleteSubRow" PROVE Others(w.subs, i) = Others(u.subs, i)
  <2>1. PICK r \in t.subs : r.fk = i /\ r.row = s.row
    BY <1>4, <1>12
  <2>2. w.subs = {x \in u.subs : x.row # s.row}
    BY <1>6, <1>12 DEF Rewritten
  <2>3. ASSUME NEW x \in u.subs, x.fk # i PROVE x.row # s.row
    <3>1. x \in t.subs
      BY <1>2, <2>3 DEF OnlyOf, Others
    <3> QED
      BY <2>1, <2>3, <3>1 DEF Numbered
  <2> QED
    BY <2>2, <2>3 DEF Others
<1>13. Others(w.subs, i) = Others(u.subs, i)
  BY <1>7, <1>12
<1>14. OnlyOf(t, w, i)
  BY <1>2, <1>8, <1>9, <1>11, <1>13 DEF OnlyOf
<1>15. ASSUME NEW e \in F PROVE About(op, t, i, e)
  <2>1. CASE e \in R
    BY <1>2, <2>1 DEF Answers
  <2>2. CASE e \in Elements(Then(s))
    <3>1. e.do \in {"selectSub", "insertLink", "insertValue"} /\ (e.do \in {"insertLink", "insertValue"} => e.fk = i)
      BY <1>4, <2>2, ThenElements DEF InsertLink, InsertValue, OwnStatement
    <3> QED
      BY <3>1 DEF About
  <2> QED
    BY <2>1, <2>2 DEF Answers
<1> QED
  BY <1>2, <1>7, <1>8, <1>9, <1>11, <1>14, <1>15 DEF Underway, RootUnderway

(* The statements that are left when the first one is answered.            *)
Sent(q, p) ==
  /\ Len(p) \in {Len(q) - 1, Len(q)}
  /\ \A k \in 1..(Len(q) - 1) : p[k] = q[k + 1]
  /\ Len(p) = Len(q) => p[Len(q)] \in Elements(Then(q[1]))
  /\ Len(p) # Len(q) => Elements(Then(q[1])) = {}
  /\ IsSequence(p)

(* An answered statement makes room for those its branch sends next.       *)
LEMMA QueueStep ==
  ASSUME NEW q, IsSequence(q), q # <<>>, NEW p, p = Tail(q) \o Then(Head(q))
  PROVE  /\ Len(q) \in Nat \ {0} /\ Head(q) = q[1] /\ Sent(q, p)
         /\ Answers(q[1], Elements(q), Elements(Tail(q)), Elements(p))
         /\ \A e \in Elements(Tail(q)) : \E k \in 2..Len(q) : e = q[k]
<1>1. /\ Len(q) \in Nat \ {0} /\ Head(q) = q[1] /\ DOMAIN q = 1..Len(q)
      /\ IsSequence(Tail(q)) /\ Len(Tail(q)) = Len(q) - 1
      /\ \A k \in 1..(Len(q) - 1) : Tail(q)[k] = q[k + 1]
  BY SequenceFacts
<1>2. DOMAIN Tail(q) = 1..(Len(q) - 1)
  BY <1>1, SequenceFacts
<1>3. \A e \in Elements(Tail(q)) : \E k \in 2..Len(q) : e = q[k]
  <2>1. ASSUME NEW k \in 1..(Len(q) - 1) PROVE \E j \in 2..Len(q) : Tail(q)[k] = q[j]
    <3>1. k + 1 \in 2..Len(q)
      BY <1>1
    <3> QED
      BY <1>1, <3>1
  <2> QED
    BY <1>2, <2>1 DEF Elements
<1>4. Elements(q) = {q[1]} \union Elements(Tail(q))
  <2>1. ASSUME NEW k \in 1..Len(q), k # 1 PROVE q[k] \in Elements(Tail(q))
    <3>1. k - 1 \in 1..(Len(q) - 1) /\ (k - 1) + 1 = k
      BY <1>1, <2>1
    <3> QED
      BY <1>1, <1>2, <3>1 DEF Elements
  <2>2. \A k \in 2..Len(q) : k \in DOMAIN q
    BY <1>1
  <2>3. 1 \in DOMAIN q
    BY <1>1
  <2>4. Elements(Tail(q)) \subseteq Elements(q)
    BY <1>3, <2>2 DEF Elements
  <2>5. q[1] \in Elements(q)
    BY <2>3 DEF Elements
  <2>6. Elements(q) \subseteq {q[1]} \union Elements(Tail(q))
    BY <1>1, <2>1 DEF Elements
  <2> QED
    BY <2>4, <2>5, <2>6
<1>5. IsSequence(Then(q[1]))
  BY ThenElements
<1>6. /\ IsSequence(p) /\ Elements(p) = Elements(Tail(q)) \union Elements(Then(q[1]))
  BY <1>1, <1>5, ConcatFacts
<1>7. Answers(q[1], Elements(q), Elements(Tail(q)), Elements(p))
  BY <1>4, <1>6 DEF Answers
<1>8. Then(q[1]) = <<>> \/ \E x : Then(q[1]) = <<x>>
  BY DEF Then
<1>9. Sent(q, p)
  <2>1. CASE Then(q[1]) = <<>>
    <3>1. p = Tail(q)
      BY <1>1, <2>1, AppendFacts
    <3>2. Elements(Then(q[1])) = {}
      BY <2>1 DEF Elements
    <3>0. PICK rest : rest = Tail(q)
      OBVIOUS
    <3>a. /\ Len(rest) = Len(q) - 1 /\ Len(q) \in Nat
          /\ \A k \in 1..(Len(q) - 1) : rest[k] = q[k + 1]
      BY <1>1, <3>0
    <3>b. p = rest
      BY <3>0, <3>1
    <3>c. Len(p) = Len(q) - 1 /\ \A k \in 1..(Len(q) - 1) : p[k] = q[k + 1]
      BY <3>a, <3>b
    <3>3. /\ Len(p) = Len(q) - 1 /\ Len(p) # Len(q)
          /\ \A k \in 1..(Len(q) - 1) : p[k] = q[k + 1]
      BY <3>a, <3>c
    <3>4. IsSequence(p)
      BY <1>6
    <3> QED
      BY <3>2, <3>3, <3>4 DEF Sent
  <2>2. ASSUME NEW x, Then(q[1]) = <<x>> PROVE Sent(q, p)
    <3>0. PICK rest : rest = Tail(q)
      OBVIOUS
    <3>a. p = rest \o <<x>> /\ IsSequence(rest)
      BY <1>1, <2>2, <3>0
    <3>b. rest \o <<x>> = Append(rest, x)
      BY <3>a, AppendFacts
    <3>1. p = Append(Tail(q), x)
      BY <3>0, <3>a, <3>b
    <3>2. /\ Len(p) = Len(q) - 1 + 1 /\ \A k \in 1..(Len(q) - 1) : p[k] = Tail(q)[k]
          /\ p[Len(q) - 1 + 1] = x
      BY <1>1, <3>1, AppendFacts
    <3>3. x \in Elements(Then(q[1]))
      <4>1. DOMAIN <<x>> = {1} /\ <<x>>[1] = x
        OBVIOUS
      <4> QED
        BY <2>2, <4>1 DEF Elements
    <3>4. Len(q) - 1 + 1 = Len(q)
      BY <1>1
    <3> QED
      BY <1>1, <1>6, <3>2, <3>3, <3>4 DEF Sent
  <2> QED
    BY <1>8, <2>1, <2>2
<1> QED
  BY <1>1, <1>3, <1>7, <1>9

(* The numbers of rows after a statement.                                  *)
After(next, s) ==
  [next EXCEPT !.sub = IF s.do = "insertSub" THEN @ + 1 ELSE @,
               !.val = IF s.do = "insertValue" THEN @ + 1 ELSE @]

(* The sequences of the tables only grow.                                  *)
LEMMA AfterFacts ==
  ASSUME NEW t, NEW next, Numbered(t, next), NEW s
  PROVE  /\ After(next, s) \in [root : Nat, sub : Nat, val : Nat]
         /\ After(next, s).root = next.root
         /\ After(next, s).sub = IF s.do = "insertSub" THEN next.sub + 1 ELSE next.sub
         /\ Numbered(t, After(next, s))
<1>1. next \in [root : Nat, sub : Nat, val : Nat]
  BY DEF Numbered
<1>2. /\ After(next, s) \in [root : Nat, sub : Nat, val : Nat]
      /\ After(next, s).root = next.root
      /\ After(next, s).sub = IF s.do = "insertSub" THEN next.sub + 1 ELSE next.sub
  <2>1. PICK sub, val : /\ sub = IF s.do = "insertSub" THEN next.sub + 1 ELSE next.sub
                        /\ val = IF s.do = "insertValue" THEN next.val + 1 ELSE next.val
    OBVIOUS
  <2>2. sub \in Nat /\ val \in Nat
    BY <1>1, <2>1
  <2>3. After(next, s) = [next EXCEPT !.sub = sub, !.val = val]
    BY <2>1 DEF After
  <2> QED
    BY <1>1, <2>1, <2>2, <2>3
<1>3. \A r \in t.subs : r.row \in Nat /\ r.row < next.sub => r.row < After(next, s).sub
  BY <1>1, <1>2
<1> QED
  BY <1>2, <1>3 DEF Numbered

(* What a statement inserts has its id, and a row it changes exists.       *)
Insertable(t, s) ==
  /\ s.do = "insertSub" => s.id \in Nat /\ s.id < serial.sub
  /\ s.do = "insertValue" => s.id \in Nat
  /\ s.do = "updateRoot" => Exists(t, s.fk)

(* A statement about one entity numbers its new row by the sequence of its *)
(* table.                                                                  *)
LEMMA NumberedStatement ==
  ASSUME NEW t, WellFormed(t), Numbered(t, serial), NEW s, s.do \in OneStatements, Insertable(t, s),
         NEW u, Rewritten(t, s, u)
  PROVE  Numbered(u, After(serial, s))
<1> DEFINE next == After(serial, s)
<1>1. /\ serial \in [root : Nat, sub : Nat, val : Nat]
      /\ next \in [root : Nat, sub : Nat, val : Nat] /\ next.root = serial.root
      /\ next.sub = IF s.do = "insertSub" THEN serial.sub + 1 ELSE serial.sub
  BY AfterFacts DEF Numbered
<1>2. /\ \A i \in EntityIds : t.root[i] # Absent =>
           /\ i < serial.root
           /\ t.root[i] = [owner |-> t.root[i].owner, version |-> t.root[i].version, value |-> t.root[i].value]
      /\ \A r \in t.subs : r.row \in Nat /\ r.row < serial.sub /\ r.id \in Nat /\ r.id < r.row
      /\ \A r, x \in t.subs : r.row = x.row => r = x
      /\ IsFiniteSet(t.vals) /\ \A v \in t.vals : v.row \in Nat /\ v.id \in Nat
      /\ \A l \in t.links : l = [fk |-> l.fk, link |-> l.link]
  BY DEF Numbered
<1> HIDE DEF next
<1>3. \A i \in EntityIds : u.root[i] # Absent =>
           /\ i < next.root
           /\ u.root[i] = [owner |-> u.root[i].owner, version |-> u.root[i].version, value |-> u.root[i].value]
  <2>1. CASE s.do # "updateRoot"
    <3>1. u.root = t.root
      BY <2>1 DEF Rewritten
    <3> QED
      BY <1>1, <1>2, <3>1
  <2>2. CASE s.do = "updateRoot"
    <3>1. PICK x : x = IF s.value = 0 THEN t.root[s.fk].value ELSE s.value
      OBVIOUS
    <3>2. u.root = [t.root EXCEPT ![s.fk] = Changed(t.root[s.fk], s.version, x)] /\ Exists(t, s.fk)
      BY <2>2, <3>1 DEF Rewritten, Insertable
    <3>3. t.root = [i \in EntityIds |-> t.root[i]]
      BY DEF WellFormed
    <3>4. u.root[s.fk] = Changed(t.root[s.fk], s.version, x) /\ \A i \in EntityIds \ {s.fk} : u.root[i] = t.root[i]
      BY <3>2, <3>3 DEF Exists
    <3>5. IsRow(t.root[s.fk])
      BY <1>2, <3>2 DEF IsRow, Exists
    <3>6. u.root[s.fk] = [owner |-> t.root[s.fk].owner, version |-> s.version, value |-> x]
      BY <3>4, <3>5, ChangedRow
    <3>7. ASSUME NEW i \in EntityIds, u.root[i] # Absent, i # s.fk
          PROVE  /\ i < next.root
                 /\ u.root[i] = [owner |-> u.root[i].owner, version |-> u.root[i].version, value |-> u.root[i].value]
      BY <1>1, <1>2, <3>4, <3>7
    <3>8. s.fk < next.root
      BY <1>1, <1>2, <3>2 DEF Exists
    <3> QED
      BY <3>6, <3>7, <3>8
  <2> QED
    BY <2>1, <2>2
<1>4. /\ \A r \in u.subs : r.row \in Nat /\ r.row < next.sub /\ r.id \in Nat /\ r.id < r.row
      /\ \A r, x \in u.subs : r.row = x.row => r = x
  <2>1. CASE s.do = "insertSub"
    <3>1. PICK new : new = [row |-> serial.sub, fk |-> s.fk, id |-> s.id, value |-> s.value]
      OBVIOUS
    <3>2. u.subs = t.subs \union {new} /\ new.row = serial.sub /\ new.id = s.id
      BY <2>1, <3>1 DEF Rewritten
    <3>3. s.id \in Nat /\ s.id < serial.sub /\ serial.sub \in Nat /\ next.sub = serial.sub + 1
      BY <1>1, <2>1 DEF Insertable
    <3> QED
      BY <1>2, <3>2, <3>3
  <2>2. CASE s.do # "insertSub"
    <3>1. u.subs \subseteq t.subs
      BY <2>2 DEF Rewritten
    <3>2. next.sub = serial.sub
      BY <1>1, <2>2
    <3> QED
      BY <1>2, <3>1, <3>2
  <2> QED
    BY <2>1, <2>2
<1>5. IsFiniteSet(u.vals) /\ \A v \in u.vals : v.row \in Nat /\ v.id \in Nat
  <2>1. CASE s.do = "insertValue"
    <3>1. PICK new : new = [row |-> serial.val, fk |-> s.fk, id |-> s.id, value |-> s.value]
      OBVIOUS
    <3>2. u.vals = t.vals \union {new} /\ new.row = serial.val /\ new.id = s.id
      BY <2>1, <3>1 DEF Rewritten
    <3>3. s.id \in Nat /\ serial.val \in Nat
      BY <1>1, <2>1 DEF Insertable
    <3> QED
      BY <1>2, <3>2, <3>3, FS_AddElement
  <2>2. CASE s.do # "insertValue"
    <3>1. u.vals \subseteq t.vals
      BY <2>2 DEF Rewritten
    <3> QED
      BY <1>2, <3>1, FS_Subset
  <2> QED
    BY <2>1, <2>2
<1>6. \A l \in u.links : l = [fk |-> l.fk, link |-> l.link]
  <2>1. CASE s.do = "insertLink"
    <3>1. PICK new : new = [fk |-> s.fk, link |-> s.link]
      OBVIOUS
    <3>2. u.links = t.links \union {new} /\ new = [fk |-> new.fk, link |-> new.link]
      BY <2>1, <3>1 DEF Rewritten
    <3> QED
      BY <1>2, <3>2
  <2>2. CASE s.do # "insertLink"
    <3>1. u.links \subseteq t.links
      BY <2>2 DEF Rewritten
    <3> QED
      BY <1>2, <3>1
  <2> QED
    BY <2>1, <2>2
<1> QED
  BY <1>1, <1>3, <1>4, <1>5, <1>6 DEF Numbered, next

(* The order of the statements that are left.                              *)
LEMMA OrderlyStep ==
  ASSUME NEW op, NEW t, Numbered(t, serial), NEW i, NEW q, IsSequence(q), q # <<>>, Orderly(op, t, q, serial, i),
         NEW p, Sent(q, p), q[1].do \in OneStatements, NEW u, Rewritten(t, q[1], u)
  PROVE  Orderly(op, u, p, After(serial, q[1]), i)
<1> DEFINE next == After(serial, q[1])
           n == Len(q)
<1>1. n \in Nat \ {0} /\ serial.sub \in Nat
  BY SequenceFacts DEF Numbered
<1>2. next.sub = IF q[1].do = "insertSub" THEN serial.sub + 1 ELSE serial.sub
  BY AfterFacts
<1>3. /\ \A k \in 1..n : q[k].do = "insertSub" =>
           /\ q[k].id \in Nat /\ q[k].id < serial.sub + k - 1
           /\ op.kind # "addSubsByFilters" => \A r \in t.subs : r.fk = i => r.id # q[k].id
           /\ op.kind = "addSubsByFilters" => q[k].readBack
      /\ \A k \in 1..n : q[k].do \in {"insertValue", "replaceValue"} => q[k].id \in Nat
      /\ \A j, k \in 1..n : j < k =>
           /\ q[k].do = "insertSub" => q[j].do = "insertSub" /\ q[j].id # q[k].id
           /\ q[k].do = "replaceValue" => q[j].do # "insertValue"
  BY DEF Orderly
<1>4. /\ Len(p) \in {n - 1, n}
      /\ \A k \in 1..(n - 1) : p[k] = q[k + 1]
      /\ Len(p) = n => p[n] \in Elements(Then(q[1]))
  BY DEF Sent
<1> HIDE DEF next, n
<1>5. ASSUME NEW k \in 1..Len(p)
      PROVE  \/ k \in 1..(n - 1) /\ p[k] = q[k + 1] /\ k + 1 \in 1..n /\ 1 \in 1..n /\ 1 < k + 1
             \/ k = n /\ p[k] \in Elements(Then(q[1]))
  <2>1. k \in 1..(n - 1) \/ (k = n /\ Len(p) = n)
    BY <1>1, <1>4
  <2>2. k \in 1..(n - 1) => k + 1 \in 1..n /\ 1 \in 1..n /\ 1 < k + 1
    BY <1>1
  <2> QED
    BY <1>4, <2>1, <2>2
<1>6. \A e \in Elements(Then(q[1])) : /\ e.do \in {"selectSub", "insertLink", "insertValue"}
                                      /\ e.do = "insertValue" => e.id = q[1].id /\ q[1].do = "replaceValue"
  BY ThenElements DEF InsertLink, InsertValue
<1>7. ASSUME NEW k \in 1..Len(p), p[k].do = "insertSub"
      PROVE  /\ p[k].id \in Nat /\ p[k].id < next.sub + k - 1
             /\ op.kind # "addSubsByFilters" => \A r \in u.subs : r.fk = i => r.id # p[k].id
             /\ op.kind = "addSubsByFilters" => p[k].readBack
  <2>1. k \in 1..(n - 1) /\ p[k] = q[k + 1] /\ k + 1 \in 1..n /\ 1 \in 1..n /\ 1 < k + 1
    BY <1>5, <1>6, <1>7
  <2>2. PICK m : m = k + 1
    OBVIOUS
  <2>3. m \in 1..n /\ 1 < m /\ p[k] = q[m] /\ q[m].do = "insertSub"
    BY <1>7, <2>1, <2>2
  <2>4. /\ q[m].id \in Nat /\ q[m].id < serial.sub + m - 1
        /\ op.kind # "addSubsByFilters" => \A r \in t.subs : r.fk = i => r.id # q[m].id
        /\ op.kind = "addSubsByFilters" => q[m].readBack
    BY <1>3, <2>3
  <2>5. q[1].do = "insertSub" /\ q[1].id # q[m].id
    BY <1>3, <2>1, <2>3
  <2>6. PICK new : new = [row |-> serial.sub, fk |-> q[1].fk, id |-> q[1].id, value |-> q[1].value]
    OBVIOUS
  <2>7. u.subs = t.subs \union {new} /\ new.id = q[1].id
    BY <2>5, <2>6 DEF Rewritten
  <2>8. serial.sub + m - 1 = next.sub + k - 1
    BY <1>1, <1>2, <2>1, <2>2, <2>5
  <2> QED
    BY <2>3, <2>4, <2>5, <2>7, <2>8
<1>8. ASSUME NEW k \in 1..Len(p), p[k].do \in {"insertValue", "replaceValue"} PROVE p[k].id \in Nat
  <2>1. CASE p[k] = q[k + 1] /\ k + 1 \in 1..n
    BY <1>3, <1>8, <2>1
  <2>2. CASE p[k] \in Elements(Then(q[1]))
    <3>1. p[k].id = q[1].id /\ q[1].do = "replaceValue"
      BY <1>6, <1>8, <2>2
    <3>2. 1 \in 1..n
      BY <1>1
    <3> QED
      BY <1>3, <3>1, <3>2
  <2> QED
    BY <1>5, <2>1, <2>2
<1>9. ASSUME NEW j \in 1..Len(p), NEW k \in 1..Len(p), j < k
      PROVE  /\ p[k].do = "insertSub" => p[j].do = "insertSub" /\ p[j].id # p[k].id
             /\ p[k].do = "replaceValue" => p[j].do # "insertValue"
  <2>1. CASE p[k] \in Elements(Then(q[1]))
    BY <1>6, <2>1
  <2>2. CASE k \in 1..(n - 1) /\ p[k] = q[k + 1] /\ k + 1 \in 1..n
    <3>1. j \in 1..(n - 1) /\ j + 1 \in 1..n /\ j + 1 < k + 1
      BY <1>1, <1>4, <1>9, <2>2
    <3>2. p[j] = q[j + 1]
      BY <1>4, <3>1
    <3>3. /\ q[k + 1].do = "insertSub" => q[j + 1].do = "insertSub" /\ q[j + 1].id # q[k + 1].id
          /\ q[k + 1].do = "replaceValue" => q[j + 1].do # "insertValue"
      BY <1>3, <2>2, <3>1
    <3> QED
      BY <2>2, <3>2, <3>3
  <2> QED
    BY <1>5, <2>1, <2>2
<1> QED
  BY <1>7, <1>8, <1>9 DEF Orderly, next

(* Sub-entities keep different ids.                                        *)
LEMMA SubIdsStep ==
  ASSUME NEW op, op.kind # "addSubsByFilters", NEW t, SubIdsDiffer(t), NEW i, NEW q, IsSequence(q), q # <<>>,
         Orderly(op, t, q, serial, i), OwnStatement(i, q[1]), q[1].do \in OneStatements,
         NEW u, Rewritten(t, q[1], u)
  PROVE  SubIdsDiffer(u)
<1>1. 1 \in 1..Len(q)
  BY SequenceFacts
<1>2. CASE q[1].do = "insertSub"
  <2>1. PICK new : new = [row |-> serial.sub, fk |-> q[1].fk, id |-> q[1].id, value |-> q[1].value]
    OBVIOUS
  <2>2. u.subs = t.subs \union {new} /\ new.id = q[1].id /\ new.fk = i
    BY <1>2, <2>1 DEF Rewritten, OwnStatement
  <2>3. \A r \in t.subs : r.fk = i => r.id # q[1].id
    BY <1>1, <1>2 DEF Orderly
  <2> QED
    BY <2>2, <2>3 DEF SubIdsDiffer
<1>3. CASE q[1].do # "insertSub"
  <2>1. u.subs \subseteq t.subs
    BY <1>3 DEF Rewritten
  <2> QED
    BY <2>1 DEF SubIdsDiffer
<1> QED
  BY <1>2, <1>3

(* A new sub-entity is looked up by an id that none has yet.               *)
LEMMA NeverReadStep ==
  ASSUME NEW op, op.kind = "addSubsByFilters", NEW t, Numbered(t, serial), serial.sub # 0, NEW i,
         NEW q, IsSequence(q), q # <<>>, NeverRead(q, serial), Orderly(op, t, q, serial, i),
         \A k \in 1..Len(q) : q[k].do \in {"insertSub", "selectSub"},
         ~NotFound(t, q[1]), NEW p, Sent(q, p)
  PROVE  NeverRead(p, After(serial, q[1]))
<1>1. Len(q) \in Nat \ {0} /\ 1 \in 1..Len(q) /\ serial.sub \in Nat \ {0}
  BY SequenceFacts DEF Numbered
<1>2. After(serial, q[1]).sub = IF q[1].do = "insertSub" THEN serial.sub + 1 ELSE serial.sub
  BY AfterFacts
<1>3. CASE q[1].do = "insertSub"
  <2>1. q[1].readBack
    BY <1>1, <1>3 DEF Orderly
  <2>2. Then(q[1]) = <<[do |-> "selectSub", id |-> serial.sub]>>
    BY <1>3, <2>1 DEF Then
  <2>3. PICK x : x = [do |-> "selectSub", id |-> serial.sub]
    OBVIOUS
  <2>4. DOMAIN <<x>> = {1} /\ <<x>>[1] = x /\ Then(q[1]) = <<x>>
    BY <2>2, <2>3
  <2>5. Elements(Then(q[1])) = {x}
    BY <2>4 DEF Elements
  <2>6. Len(p) = Len(q) /\ p[Len(q)] = x
    BY <2>5 DEF Sent
  <2>7. x.do = "selectSub" /\ x.id = serial.sub
    BY <2>3
  <2>8. Len(q) \in 1..Len(p) /\ After(serial, q[1]).sub - 1 = serial.sub
    BY <1>1, <1>2, <1>3, <2>6
  <2> QED
    BY <2>6, <2>7, <2>8 DEF NeverRead
<1>4. CASE q[1].do = "selectSub"
  <2>1. PICK k \in 1..Len(q) : q[k].do = "insertSub" \/ (q[k].do = "selectSub" /\ q[k].id = serial.sub - 1)
    BY DEF NeverRead
  <2>2. PICK r \in t.subs : r.id = q[1].id
    BY <1>4 DEF NotFound
  <2>3. r.row \in Nat /\ r.id \in Nat /\ r.row < serial.sub /\ r.id < r.row
    BY DEF Numbered
  <2>4. q[1].id # serial.sub - 1
    BY <1>1, <2>2, <2>3
  <2>5. k # 1
    BY <1>4, <2>1, <2>4
  <2>6. k - 1 \in 1..(Len(q) - 1) /\ (k - 1) + 1 = k /\ k - 1 \in 1..Len(p)
    BY <1>1, <2>5 DEF Sent
  <2>7. p[k - 1] = q[k]
    BY <2>6 DEF Sent
  <2> QED
    BY <1>2, <1>4, <2>1, <2>6, <2>7 DEF NeverRead
<1> QED
  BY <1>1, <1>3, <1>4

(* Rows stay numbered when some are deleted.                               *)
LEMMA NumberedFewer ==
  ASSUME NEW t, NEW next, Numbered(t, next), NEW u, u.subs \subseteq t.subs, u.vals \subseteq t.vals,
         u.links \subseteq t.links, \A i \in EntityIds : u.root[i] \in {t.root[i], Absent}
  PROVE  Numbered(u, next)
<1>1. IsFiniteSet(u.vals)
  BY FS_Subset DEF Numbered
<1>2. \A i \in EntityIds : u.root[i] # Absent =>
        /\ i < next.root
        /\ u.root[i] = [owner |-> u.root[i].owner, version |-> u.root[i].version, value |-> u.root[i].value]
  BY DEF Numbered
<1> QED
  BY <1>1, <1>2 DEF Numbered

(* The statement that changes all root rows that match.                    *)
LEMMA ManyEffect ==
  ASSUME NEW t, WellFormed(t), NEW s, s.do = "updateRoots", NEW u, u = Effect(t, s)
  PROVE  /\ \A i \in EntityIds : u.root[i] = IF i \in Where(t, s.op, s.as)
                                 THEN Changed(t.root[i], t.root[i].version + 1, s.op.value) ELSE t.root[i]
         /\ u.subs = t.subs /\ u.vals = t.vals /\ u.links = t.links
<1>1. DOMAIN t = {"root", "subs", "vals", "links"}
  BY DEF WellFormed
<1>2. u = [t EXCEPT !.root = [i \in EntityIds |-> IF i \in Where(t, s.op, s.as)
                    THEN Changed(t.root[i], t.root[i].version + 1, s.op.value) ELSE t.root[i]]]
  BY DEF Effect
<1>3. u.root = [i \in EntityIds |-> IF i \in Where(t, s.op, s.as)
                    THEN Changed(t.root[i], t.root[i].version + 1, s.op.value) ELSE t.root[i]]
  BY <1>1, <1>2
<1> QED
  BY <1>1, <1>2, <1>3

(* updateEntityByFilters and updateEntitiesByFilters: their one statement. *)
LEMMA ManyStep ==
  ASSUME NEW op, NEW t, NEW u, WellFormed(u), NEW next, Numbered(u, next), NEW q, q # <<>>, IsSequence(q),
         ManyDone(op, t, u, q), NEW p, Sent(q, p), NEW w, w = Effect(u, q[1])
  PROVE  ManyDone(op, t, w, p) /\ Numbered(w, next)
<1>1. PICK s : s = [do |-> "updateRoots", op |-> op, as |-> user]
  OBVIOUS
<1>2. q = <<s>> /\ u = t
  BY <1>1 DEF ManyDone
<1>3. q[1] = s /\ Len(q) = 1 /\ s.do = "updateRoots" /\ s.op = op
  BY <1>1, <1>2
<1>4. Elements(Then(s)) = {}
  BY <1>3, ThenElements
<1>5. Len(p) = 0
  BY <1>3, <1>4 DEF Sent
<1>6. p = <<>>
  BY <1>5, SequenceFacts DEF Sent
<1>7. ManyDone(op, t, w, p)
  BY <1>1, <1>2, <1>3, <1>6 DEF ManyDone
<1>8. /\ \A i \in EntityIds : w.root[i] = IF i \in Where(u, s.op, s.as)
                              THEN Changed(u.root[i], u.root[i].version + 1, s.op.value) ELSE u.root[i]
      /\ w.subs = u.subs /\ w.vals = u.vals /\ w.links = u.links
  BY <1>3, ManyEffect
<1>9. ASSUME NEW i \in EntityIds, w.root[i] # Absent
      PROVE  /\ i < next.root
             /\ w.root[i] = [owner |-> w.root[i].owner, version |-> w.root[i].version, value |-> w.root[i].value]
  <2>1. CASE i \notin Where(u, s.op, s.as)
    BY <1>8, <1>9, <2>1 DEF Numbered
  <2>2. CASE i \in Where(u, s.op, s.as)
    <3>1. u.root[i] # Absent
      BY <2>2 DEF Where
    <3>2. i < next.root /\ IsRow(u.root[i])
      BY <3>1 DEF Numbered, IsRow
    <3>3. PICK row, version : row = u.root[i] /\ version = u.root[i].version + 1
      OBVIOUS
    <3>4. Changed(row, version, s.op.value) = [owner |-> row.owner, version |-> version, value |-> s.op.value]
      BY <3>2, <3>3, ChangedRow
    <3>5. w.root[i] = [owner |-> row.owner, version |-> version, value |-> s.op.value]
      BY <1>8, <2>2, <3>3, <3>4
    <3> QED
      BY <3>2, <3>5
  <2> QED
    BY <2>1, <2>2
<1>10. Numbered(w, next)
  BY <1>8, <1>9 DEF Numbered
<1> QED
  BY <1>7, <1>10

(* The statements of a deletion.                                           *)
Removes(t, s, u) ==
  /\ u.subs = IF s.do = "deleteSubs" THEN {r \in t.subs : r.fk \notin Targets(t, s.op, s.as)} ELSE t.subs
  /\ u.vals = IF s.do = "deleteValues" THEN {r \in t.vals : r.fk \notin Targets(t, s.op, s.as)} ELSE t.vals
  /\ u.links = IF s.do = "deleteLinks" THEN {r \in t.links : r.fk \notin Targets(t, s.op, s.as)} ELSE t.links
  /\ s.do # "deleteRoots" => u.root = t.root
  /\ s.do = "deleteRoots" => u.root = [i \in EntityIds |-> IF i \in Where(t, s.op, s.as) THEN Absent ELSE t.root[i]]

(* What each statement of a deletion takes away.                           *)
LEMMA DeleteEffect ==
  ASSUME NEW t, WellFormed(t), NEW s, s.do \in Children \union {"deleteRoots"}, NEW u, u = Effect(t, s)
  PROVE  Removes(t, s, u)
<1> USE DEF Removes
<1>1. DOMAIN t = {"root", "subs", "vals", "links"}
  BY DEF WellFormed
<1>2. CASE s.do = "deleteSubs"
  BY <1>1, <1>2 DEF Effect
<1>3. CASE s.do = "deleteValues"
  BY <1>1, <1>3 DEF Effect
<1>4. CASE s.do = "deleteLinks"
  BY <1>1, <1>4 DEF Effect
<1>5. CASE s.do = "deleteRoots"
  <2>1. u = [t EXCEPT !.root = [i \in EntityIds |-> IF i \in Where(t, s.op, s.as) THEN Absent ELSE t.root[i]]]
    BY <1>5 DEF Effect
  <2> QED
    BY <1>1, <1>5, <2>1
<1> QED
  BY <1>2, <1>3, <1>4, <1>5 DEF Children

(* The next statement of a deletion: rows of other entities stay, and the  *)
(* root rows go last.                                                      *)
LEMMA DeleteStep ==
  ASSUME NEW op, NEW t, WellFormed(t), NEW u, WellFormed(u), NEW next, Numbered(u, next), NEW q, q # <<>>, IsSequence(q),
         DeleteDone(op, t, u, q), DeletesLeft(op, DeletesAs(op, user), u, q), NEW p, Sent(q, p), NEW w, w = Effect(u, q[1])
  PROVE  DeleteDone(op, t, w, p) /\ Numbered(w, next)
<1>0. PICK who : who = DeletesAs(op, user)
  OBVIOUS
<1>1. Len(q) \in Nat \ {0}
  BY SequenceFacts
<1>2. PICK s : s = q[1]
  OBVIOUS
<1>3. /\ s.do \in Children \union {"deleteRoots"} /\ s.op = op /\ s.as = who
      /\ s.do = "deleteRoots" <=> Len(q) = 1
  BY <1>0, <1>1, <1>2 DEF DeletesLeft, DeleteWhere, Children
<1>4. PICK ids : ids = Targets(t, op, who)
  OBVIOUS
<1>5. /\ u.root = t.root
      /\ Beside(u.subs, ids) = Beside(t.subs, ids)
      /\ Beside(u.vals, ids) = Beside(t.vals, ids)
      /\ Beside(u.links, ids) = Beside(t.links, ids)
      /\ u.subs \subseteq t.subs
  BY <1>0, <1>4 DEF DeleteDone
<1>6. Targets(u, op, who) = ids /\ Where(u, op, who) = Where(t, op, who)
  BY <1>4, <1>5 DEF Targets, Where
<1>7. /\ w.subs = IF s.do = "deleteSubs" THEN {r \in u.subs : r.fk \notin ids} ELSE u.subs
      /\ w.vals = IF s.do = "deleteValues" THEN {r \in u.vals : r.fk \notin ids} ELSE u.vals
      /\ w.links = IF s.do = "deleteLinks" THEN {r \in u.links : r.fk \notin ids} ELSE u.links
      /\ s.do # "deleteRoots" => w.root = u.root
      /\ s.do = "deleteRoots" => w.root = [i \in EntityIds |-> IF i \in Where(t, op, who) THEN Absent ELSE t.root[i]]
  <2>1. Removes(u, s, w)
    BY <1>2, <1>3, DeleteEffect
  <2>2. {r \in u.subs : r.fk \notin Targets(u, s.op, s.as)} = {r \in u.subs : r.fk \notin ids}
    BY <1>3, <1>6
  <2>3. {r \in u.vals : r.fk \notin Targets(u, s.op, s.as)} = {r \in u.vals : r.fk \notin ids}
    BY <1>3, <1>6
  <2>4. {r \in u.links : r.fk \notin Targets(u, s.op, s.as)} = {r \in u.links : r.fk \notin ids}
    BY <1>3, <1>6
  <2>5. [i \in EntityIds |-> IF i \in Where(u, s.op, s.as) THEN Absent ELSE u.root[i]]
        = [i \in EntityIds |-> IF i \in Where(t, op, who) THEN Absent ELSE t.root[i]]
    BY <1>3, <1>5, <1>6
  <2> QED
    BY <2>1, <2>2, <2>3, <2>4, <2>5 DEF Removes
<1>8. /\ Beside(w.subs, ids) = Beside(u.subs, ids)
      /\ Beside(w.vals, ids) = Beside(u.vals, ids)
      /\ Beside(w.links, ids) = Beside(u.links, ids)
      /\ w.subs \subseteq u.subs /\ w.vals \subseteq u.vals /\ w.links \subseteq u.links
  BY <1>7 DEF Beside
<1>9. Elements(Then(q[1])) = {}
  <2>1. s.do \notin {"selectLink", "replaceValue", "insertSub"}
    BY <1>3 DEF Children
  <2> QED
    BY <1>2, <2>1, ThenElements
<1>10. Len(p) = Len(q) - 1 /\ IsSequence(p)
  BY <1>9 DEF Sent
<1>11. p = <<>> <=> Len(q) = 1
  BY <1>1, <1>10, SequenceFacts
<1>12. \/ p # <<>> /\ w.root = t.root
       \/ p = <<>> /\ w.root = Effect(t, DeleteWhere("deleteRoots", op, who)).root
  <2>1. CASE s.do # "deleteRoots"
    BY <1>3, <1>5, <1>7, <1>11, <2>1
  <2>2. CASE s.do = "deleteRoots"
    <3>1. PICK d : d = DeleteWhere("deleteRoots", op, who)
      OBVIOUS
    <3>2. d.do = "deleteRoots" /\ d.op = op /\ d.as = who
      BY <3>1 DEF DeleteWhere
    <3>3. Effect(t, d).root = [i \in EntityIds |-> IF i \in Where(t, op, who) THEN Absent ELSE t.root[i]]
      <4>1. Removes(t, d, Effect(t, d))
        BY <3>2, DeleteEffect
      <4> QED
        BY <3>2, <4>1 DEF Removes
    <3> QED
      BY <1>3, <1>7, <1>11, <2>2, <3>1, <3>3
  <2> QED
    BY <2>1, <2>2
<1>13. DeleteDone(op, t, w, p)
  BY <1>0, <1>4, <1>5, <1>8, <1>12 DEF DeleteDone
<1>14. \A i \in EntityIds : w.root[i] \in {u.root[i], Absent}
  BY <1>3, <1>5, <1>7
<1>15. Numbered(w, next)
  BY <1>8, <1>14, NumberedFewer
<1> QED
  BY <1>13, <1>15

(* SetToSeq makes a sequence of all elements of a finite set.              *)
LEMMA SetToSeqElements ==
  ASSUME NEW S, IsFiniteSet(S)
  PROVE  Elements(SetToSeq(S)) = S
<1> DEFINE n == Cardinality(S)
<1>1. n \in Nat /\ ExistsBijection(1..n, S)
  BY FS_CardinalityType
<1>2. \E f \in [1..n -> S] : IsInjective(f)
  BY <1>1 DEF ExistsBijection, Bijection, Injection
<1> DEFINE q == SetToSeq(S)
<1>3. q \in [1..n -> S] /\ IsInjective(q)
  BY <1>2 DEF SetToSeq
<1>a. 1 \in Nat
  OBVIOUS
<1>4. IsFiniteSet(1..n) /\ Cardinality(1..n) = n
  <2>1. Cardinality(1..n) = IF 1 > n THEN 0 ELSE n - 1 + 1
    BY <1>1, <1>a, FS_Interval
  <2>2. IsFiniteSet(1..n)
    BY <1>1, <1>a, FS_Interval
  <2> HIDE DEF n
  <2> QED
    BY <1>1, <2>1, <2>2
<1> HIDE DEF q, n
<1>5. q \in Injection(1..n, S)
  BY <1>3 DEF Injection, IsInjective
<1>6. Cardinality(S) = n
  BY DEF n
<1>7. q \in Surjection(1..n, S)
  BY <1>4, <1>5, <1>6, FS_Injection
<1>8. Elements(q) = S
  BY <1>7 DEF Surjection, Elements
<1> QED
  BY <1>8 DEF q

(* What is inserted comes to what is there.                                *)
LEMMA SubsSent ==
  ASSUME NEW t, NEW i, NEW E, NEW P, \A e \in E : e.do # "deleteSubRow",
         \A e \in E : e.do = "insertSub" => <<e.id, e.value>> \in P,
         \A p \in P : \E e \in E : e.do = "insertSub" /\ p = <<e.id, e.value>>
  PROVE  SubsAfter(t, E, i) = PairsOf(t.subs, i) \union P
<1>1. {r \in t.subs : \A s \in E : s.do = "deleteSubRow" => s.row # r.row} = t.subs
  OBVIOUS
<1>2. {<<s.id, s.value>> : s \in {x \in E : x.do = "insertSub"}} = P
  OBVIOUS
<1> QED
  BY <1>1, <1>2 DEF SubsAfter

(* Statements that insert values, and delete none.                         *)
LEMMA ValsSent ==
  ASSUME NEW t, NEW i, NEW E, NEW P, \A e \in E : e.do \notin {"deleteValue", "replaceValue"},
         \A e \in E : e.do = "insertValue" => <<e.id, e.value>> \in P,
         \A p \in P : \E e \in E : e.do = "insertValue" /\ p = <<e.id, e.value>>
  PROVE  ValsAfter(t, E, i) = PairsOf(t.vals, i) \union P
<1>1. {v \in t.vals : \A s \in E : s.do # "replaceValue" /\ (s.do = "deleteValue" => s.value # v.value)} = t.vals
  OBVIOUS
<1>2. {<<s.id, s.value>> : s \in {x \in E : x.do \in {"insertValue", "replaceValue"}}} = P
  OBVIOUS
<1> QED
  BY <1>1, <1>2 DEF ValsAfter

(* Statements that insert links, and delete none.                          *)
LEMMA LinksSent ==
  ASSUME NEW t, NEW i, NEW E, NEW P, \A e \in E : e.do # "deleteLink",
         \A e \in E : e.do \in {"selectLink", "insertLink"} => e.link \in P,
         \A p \in P : \E e \in E : e.do \in {"selectLink", "insertLink"} /\ p = e.link
  PROVE  LinksAfter(t, E, i) = LinksOf(t, i) \union P
<1>1. {l \in LinksOf(t, i) : \A s \in E : s.do = "deleteLink" => s.link # l} = LinksOf(t, i)
  OBVIOUS
<1>2. {s.link : s \in {x \in E : x.do \in {"selectLink", "insertLink"}}} = P
  OBVIOUS
<1> QED
  BY <1>1, <1>2 DEF LinksAfter

(* Statements that do not concern a table leave it as it is.               *)
LEMMA SubsUntouched ==
  ASSUME NEW t, NEW i, NEW E, \A e \in E : e.do \notin {"insertSub", "deleteSubRow"}
  PROVE  SubsAfter(t, E, i) = PairsOf(t.subs, i)
<1>1. {r \in t.subs : \A s \in E : s.do = "deleteSubRow" => s.row # r.row} = t.subs
  OBVIOUS
<1>2. {<<s.id, s.value>> : s \in {x \in E : x.do = "insertSub"}} = {}
  OBVIOUS
<1> QED
  BY <1>1, <1>2 DEF SubsAfter

(* Statements that do not concern values.                                  *)
LEMMA ValsUntouched ==
  ASSUME NEW t, NEW i, NEW E, \A e \in E : e.do \notin {"insertValue", "deleteValue", "replaceValue"}
  PROVE  ValsAfter(t, E, i) = PairsOf(t.vals, i)
<1>1. {v \in t.vals : \A s \in E : s.do # "replaceValue" /\ (s.do = "deleteValue" => s.value # v.value)} = t.vals
  OBVIOUS
<1>2. {<<s.id, s.value>> : s \in {x \in E : x.do \in {"insertValue", "replaceValue"}}} = {}
  OBVIOUS
<1> QED
  BY <1>1, <1>2 DEF ValsAfter

(* Statements that do not concern links.                                   *)
LEMMA LinksUntouched ==
  ASSUME NEW t, NEW i, NEW E, \A e \in E : e.do \notin {"selectLink", "insertLink", "deleteLink"}
  PROVE  LinksAfter(t, E, i) = LinksOf(t, i)
<1>1. {l \in LinksOf(t, i) : \A s \in E : s.do = "deleteLink" => s.link # l} = LinksOf(t, i)
  OBVIOUS
<1>2. {s.link : s \in {x \in E : x.do \in {"selectLink", "insertLink"}}} = {}
  OBVIOUS
<1> QED
  BY <1>1, <1>2 DEF LinksAfter

(* Statements that insert no sub-entity may come in any order.             *)
LEMMA OrderlyElements ==
  ASSUME NEW op, NEW t, NEW i, NEW next, NEW q, IsSequence(q), \A e \in Elements(q) : e.do # "insertSub",
         \A e \in Elements(q) : e.do \in {"insertValue", "replaceValue"} => e.id \in Nat,
         \/ \A e \in Elements(q) : e.do # "insertValue"
         \/ \A e \in Elements(q) : e.do # "replaceValue"
  PROVE  Orderly(op, t, q, next, i)
<1>1. \A k \in 1..Len(q) : q[k] \in Elements(q)
  BY SequenceFacts DEF Elements
<1> QED
  BY <1>1 DEF Orderly

(* New sub-entities first, with ids from 0 on.                             *)
LEMMA OrderlyInserts ==
  ASSUME NEW op, NEW t, NEW i, NEW next, next.sub \in Nat \ {0}, NEW n \in Nat, NEW q, IsSequence(q), Len(q) >= n,
         \A k \in 1..n : /\ q[k].do = "insertSub" /\ q[k].id = k - 1
                         /\ op.kind = "addSubsByFilters" => q[k].readBack,
         op.kind # "addSubsByFilters" => \A r \in t.subs : r.fk # i,
         \A k \in (n + 1)..Len(q) : /\ q[k].do \notin {"insertSub", "replaceValue"}
                                    /\ q[k].do = "insertValue" => q[k].id \in Nat
  PROVE  Orderly(op, t, q, next, i)
<1>1. Len(q) \in Nat
  BY SequenceFacts
<1>2. \A k \in 1..Len(q) : k \in 1..n \/ k \in (n + 1)..Len(q)
  BY <1>1
<1>3. ASSUME NEW k \in 1..Len(q), q[k].do = "insertSub"
      PROVE  /\ q[k].id \in Nat /\ q[k].id < next.sub + k - 1
             /\ op.kind # "addSubsByFilters" => \A r \in t.subs : r.fk = i => r.id # q[k].id
             /\ op.kind = "addSubsByFilters" => q[k].readBack
  <2>1. k \in 1..n
    BY <1>2, <1>3
  <2>2. q[k].id = k - 1 /\ (op.kind = "addSubsByFilters" => q[k].readBack)
    BY <2>1
  <2>3. k - 1 \in Nat /\ k - 1 < next.sub + k - 1
    BY <1>1
  <2> QED
    BY <2>2, <2>3
<1>4. ASSUME NEW k \in 1..Len(q), q[k].do \in {"insertValue", "replaceValue"} PROVE q[k].id \in Nat
  BY <1>2, <1>4
<1>5. ASSUME NEW j \in 1..Len(q), NEW k \in 1..Len(q), j < k
      PROVE  /\ q[k].do = "insertSub" => q[j].do = "insertSub" /\ q[j].id # q[k].id
             /\ q[k].do = "replaceValue" => q[j].do # "insertValue"
  <2>1. CASE k \in 1..n
    <3>1. j \in 1..n /\ j - 1 # k - 1
      BY <1>1, <1>5, <2>1
    <3>2. q[k].do = "insertSub" /\ q[j].do = "insertSub" /\ q[k].id = k - 1 /\ q[j].id = j - 1
      BY <2>1, <3>1
    <3> QED
      BY <3>1, <3>2
  <2>2. CASE k \in (n + 1)..Len(q)
    BY <2>2
  <2> QED
    BY <1>2, <2>1, <2>2
<1> QED
  BY <1>3, <1>4, <1>5 DEF Orderly

(* The operation is about to send its statements.                          *)
Ready(op, t, i) ==
  /\ op \in Ops /\ op.kind \in ChangingOne /\ i \in EntityIds
  /\ WellFormed(t) /\ Numbered(t, serial) /\ IdsDiffer(t) /\ NoOrphansIn(t) /\ serial.sub # 0
  /\ work = Prepared(op, t, i)
  /\ op.kind = "create" <=> t.root[i] = Absent
  /\ op.kind = "addSubs" => SubsOf(t, i) = {}
  /\ op.kind = "update" => op.subs = {}

(* The rows when the statements are sent differ from the committed ones in *)
(* the root row only.                                                      *)
LEMMA PreparedFacts ==
  ASSUME NEW op, NEW t, NEW i, Ready(op, t, i)
  PROVE  /\ work.subs = t.subs /\ work.vals = t.vals /\ work.links = t.links
         /\ OnlyOf(t, work, i)
         /\ op.kind \in {"create"} \union AddingOrRemovingSubs => work.root[i] = NewRoot(op, t, i)
         /\ op.kind \in {"update"} \union ChangingValues => work = t
<1>0. /\ DOMAIN t = {"root", "subs", "vals", "links"} /\ t.root = [j \in EntityIds |-> t.root[j]] /\ i \in EntityIds
      /\ work = Prepared(op, t, i) /\ i # 0
  BY ConstantsAssumption DEF Ready, WellFormed
<1>1. CASE op.kind \in {"create"} \union AddingOrRemovingSubs
  <2>1. PICK new : new = NewRoot(op, t, i)
    OBVIOUS
  <2>2. work = [t EXCEPT !.root[i] = new]
    BY <1>0, <1>1, <2>1 DEF Prepared
  <2>3. /\ work.subs = t.subs /\ work.vals = t.vals /\ work.links = t.links
        /\ work.root = [t.root EXCEPT ![i] = new]
    BY <1>0, <2>2
  <2>4. work.root[i] = new /\ \A j \in EntityIds \ {i} : work.root[j] = t.root[j]
    BY <1>0, <2>3
  <2> QED
    BY <1>1, <2>1, <2>3, <2>4 DEF OnlyOf, AddingOrRemovingSubs, AddingSubs, RemovingSubs, ChangingValues
<1>2. CASE op.kind \notin {"create"} \union AddingOrRemovingSubs
  <2>1. work = t
    BY <1>0, <1>2 DEF Prepared
  <2> QED
    BY <1>2, <2>1 DEF OnlyOf
<1> QED
  BY <1>1, <1>2

SentWell(op, t, q, i) ==
  /\ Underway(op, t, work, Elements(q), i)
  /\ Orderly(op, work, q, serial, i)

(* The values of a call are sequences.                                     *)
LEMMA OpValues ==
  ASSUME NEW op \in Ops
  PROVE  /\ DOMAIN op.values = 1..Len(op.values) /\ Len(op.values) \in Nat /\ IsSequence(op.values)
         /\ DOMAIN op.tags = 1..Len(op.tags) /\ Len(op.tags) \in Nat /\ IsSequence(op.tags)
         /\ op.tags = <<>> <=> Len(op.tags) = 0
         /\ op.values = <<>> <=> Len(op.values) = 0
         /\ IsFiniteSet(op.links)
<1>1. op.values \in Seq(Nat) /\ op.tags \in Seq(Nat) /\ IsFiniteSet(op.links)
  BY OpsAssumption
<1>2. ASSUME NEW s \in Seq(Nat)
      PROVE  DOMAIN s = 1..Len(s) /\ Len(s) \in Nat /\ IsSequence(s) /\ (s = <<>> <=> Len(s) = 0)
  <2>1. DOMAIN s = 1..Len(s) /\ Len(s) \in Nat /\ s \in [1..Len(s) -> Nat]
    BY LenProperties
  <2>2. s = [k \in 1..Len(s) |-> s[k]]
    BY <2>1
  <2>3. IsSequence(s)
    BY <2>1, <2>2, FunctionIsSequence
  <2> QED
    BY <2>1, <2>3, SequenceFacts
<1> QED
  BY <1>1, <1>2

(* A new entity has no rows yet.                                           *)
LEMMA NewIsEmpty ==
  ASSUME NEW t, NoOrphansIn(t), NEW i, t.root[i] = Absent
  PROVE  /\ \A r \in t.subs \union t.vals \union t.links : r.fk # i
         /\ PairsOf(t.subs, i) = {} /\ PairsOf(t.vals, i) = {} /\ LinksOf(t, i) = {}
<1>1. \A r \in t.subs \union t.vals \union t.links : r.fk # i
  BY DEF NoOrphansIn
<1> QED
  BY <1>1 DEF PairsOf, LinksOf

(* createEntity sends what the new entity still lacks.                     *)
LEMMA CreateSent ==
  ASSUME NEW op, NEW t, NEW i, Ready(op, t, i), op.kind = "create"
  PROVE  SentWell(op, t, Statements(op, i), i)
<1>1. PICK q1, q2, q3 : /\ q1 = [k \in DOMAIN op.values |-> InsertSub(i, k - 1, op.values[k])]
                        /\ q2 = [k \in DOMAIN op.tags |-> InsertValue(i, k - 1, op.tags[k])]
                        /\ q3 = [k \in DOMAIN SetToSeq(op.links) |-> InsertLink(i, SetToSeq(op.links)[k])]
  OBVIOUS
<1>2. PICK q : q = Statements(op, i)
  OBVIOUS
<1>3. q = (q1 \o q2) \o q3
  <2>1. q = createEntity(op, i)
    BY <1>2 DEF Statements
  <2>2. createEntity(op, i) = (q1 \o q2) \o q3
    BY <1>1, ZenonT(30) DEF createEntity, Each
  <2> QED
    BY <2>1, <2>2
<1>4. /\ op \in Ops /\ i \in EntityIds /\ NoOrphansIn(t) /\ t.root[i] = Absent
      /\ serial.sub \in Nat \ {0}
  BY DEF Ready, Numbered
<1>5. PICK n, m, c : n = Len(op.values) /\ m = Len(op.tags) /\ c = Cardinality(op.links)
  OBVIOUS
<1>6. /\ n \in Nat /\ m \in Nat /\ c \in Nat
      /\ DOMAIN op.values = 1..n /\ DOMAIN op.tags = 1..m /\ DOMAIN SetToSeq(op.links) = 1..c
      /\ Elements(SetToSeq(op.links)) = op.links
  BY <1>4, <1>5, OpValues, SetToSeqFacts, SetToSeqElements
<1>7. /\ \A k \in 1..n : /\ q1[k].do = "insertSub" /\ q1[k].fk = i /\ q1[k].id = k - 1
                         /\ q1[k].value = op.values[k]
      /\ \A k \in 1..m : /\ q2[k].do = "insertValue" /\ q2[k].fk = i /\ q2[k].id = k - 1
                         /\ q2[k].value = op.tags[k]
      /\ \A k \in 1..c : q3[k].do = "insertLink" /\ q3[k].fk = i /\ q3[k].link = SetToSeq(op.links)[k]
  BY <1>1, <1>6 DEF InsertSub, InsertValue, InsertLink
<1>8. q1 = [k \in 1..n |-> q1[k]] /\ q2 = [k \in 1..m |-> q2[k]] /\ q3 = [k \in 1..c |-> q3[k]]
  BY <1>1, <1>6
<1>9. /\ IsSequence(q1) /\ Len(q1) = n /\ IsSequence(q2) /\ Len(q2) = m /\ IsSequence(q3) /\ Len(q3) = c
  BY <1>6, <1>8, FunctionIsSequence
<1>10. /\ \A e : e \in Elements(q1) <=> \E k \in 1..n : e = q1[k]
       /\ \A e : e \in Elements(q2) <=> \E k \in 1..m : e = q2[k]
       /\ \A e : e \in Elements(q3) <=> \E k \in 1..c : e = q3[k]
  BY <1>9, SequenceFacts DEF Elements
<1>11. IsSequence(q1 \o q2) /\ IsSequence(q) /\ Elements(q) = Elements(q1) \union Elements(q2) \union Elements(q3)
  BY <1>3, <1>9, ConcatFacts
<1>12. SubsAfter(work, Elements(q), i) = PairsOf(work.subs, i) \union Indexed(op.values)
  <2>1. \A e \in Elements(q) : e.do # "deleteSubRow"
    BY <1>7, <1>10, <1>11
  <2>2. ASSUME NEW e \in Elements(q), e.do = "insertSub" PROVE <<e.id, e.value>> \in Indexed(op.values)
    <3>1. PICK k \in 1..n : e = q1[k]
      BY <1>7, <1>10, <1>11, <2>2
    <3> QED
      BY <1>6, <1>7, <3>1 DEF Indexed
  <2>3. ASSUME NEW p \in Indexed(op.values)
        PROVE  \E e \in Elements(q) : e.do = "insertSub" /\ p = <<e.id, e.value>>
    <3>1. PICK k \in 1..n : p = <<k - 1, op.values[k]>>
      BY <1>6 DEF Indexed
    <3>2. q1[k] \in Elements(q)
      BY <1>10, <1>11
    <3> QED
      BY <1>7, <3>1, <3>2
  <2> QED
    BY <2>1, <2>2, <2>3, SubsSent
<1>13. ValsAfter(work, Elements(q), i) = PairsOf(work.vals, i) \union Indexed(op.tags)
  <2>1. \A e \in Elements(q) : e.do \notin {"deleteValue", "replaceValue"}
    BY <1>7, <1>10, <1>11
  <2>2. ASSUME NEW e \in Elements(q), e.do = "insertValue" PROVE <<e.id, e.value>> \in Indexed(op.tags)
    <3>1. PICK k \in 1..m : e = q2[k]
      BY <1>7, <1>10, <1>11, <2>2
    <3> QED
      BY <1>6, <1>7, <3>1 DEF Indexed
  <2>3. ASSUME NEW p \in Indexed(op.tags)
        PROVE  \E e \in Elements(q) : e.do = "insertValue" /\ p = <<e.id, e.value>>
    <3>1. PICK k \in 1..m : p = <<k - 1, op.tags[k]>>
      BY <1>6 DEF Indexed
    <3>2. q2[k] \in Elements(q)
      BY <1>10, <1>11
    <3> QED
      BY <1>7, <3>1, <3>2
  <2> QED
    BY <2>1, <2>2, <2>3, ValsSent
<1>14. LinksAfter(work, Elements(q), i) = LinksOf(work, i) \union op.links
  <2>0. \A l : l \in op.links <=> \E k \in 1..c : l = SetToSeq(op.links)[k]
    BY <1>6 DEF Elements
  <2>1. \A e \in Elements(q) : e.do # "deleteLink"
    BY <1>7, <1>10, <1>11
  <2>2. ASSUME NEW e \in Elements(q), e.do \in {"selectLink", "insertLink"} PROVE e.link \in op.links
    <3>1. PICK k \in 1..c : e = q3[k]
      BY <1>7, <1>10, <1>11, <2>2
    <3> QED
      BY <1>7, <2>0, <3>1
  <2>3. ASSUME NEW p \in op.links
        PROVE  \E e \in Elements(q) : e.do \in {"selectLink", "insertLink"} /\ p = e.link
    <3>1. PICK k \in 1..c : p = SetToSeq(op.links)[k]
      BY <2>0
    <3>2. q3[k] \in Elements(q)
      BY <1>10, <1>11
    <3> QED
      BY <1>7, <3>1, <3>2
  <2> QED
    BY <2>1, <2>2, <2>3, LinksSent
<1>15. \A e \in Elements(q) : About(op, t, i, e)
  <2>1. \A e \in Elements(q) : e.do \in {"insertSub", "insertValue", "insertLink"} /\ e.fk = i
    BY <1>7, <1>10, <1>11
  <2> QED
    BY <2>1 DEF About
<1>16. /\ work.subs = t.subs /\ work.vals = t.vals /\ work.links = t.links
       /\ OnlyOf(t, work, i) /\ work.root[i] = NewRoot(op, t, i)
  BY PreparedFacts
<1>17. Underway(op, t, work, Elements(q), i)
  <2>1. /\ NewSubs(op, t, i) = PairsOf(t.subs, i) \union Indexed(op.values)
        /\ NewVals(op, t, i) = PairsOf(t.vals, i) \union Indexed(op.tags)
        /\ NewLinks(op, t, i) = LinksOf(t, i) \union op.links
    BY DEF NewSubs, NewVals, NewLinks
  <2>2. LinksOf(work, i) = LinksOf(t, i)
    BY <1>16 DEF LinksOf
  <2> QED
    BY <1>12, <1>13, <1>14, <1>15, <1>16, <2>1, <2>2 DEF Underway
<1>18. Orderly(op, work, q, serial, i)
  <2>1. q = q1 \o (q2 \o q3)
    <3>1. PICK S : q1 \in Seq(S) /\ q2 \in Seq(S) /\ q3 \in Seq(S)
      <4>1. PICK S : S = Elements(q1) \union Elements(q2) \union Elements(q3)
        OBVIOUS
      <4>2. q1 \in Seq(S) /\ q2 \in Seq(S) /\ q3 \in Seq(S)
        BY <1>9, <4>1, SeqMonotonic DEF IsSequence
      <4> QED
        BY <4>2
    <3> QED
      BY <1>3, <3>1, ConcatAssociative
  <2>2. PICK rest : rest = q2 \o q3
    OBVIOUS
  <2>3. IsSequence(rest) /\ Elements(rest) = Elements(q2) \union Elements(q3)
    BY <1>9, <2>2, ConcatFacts
  <2>4. /\ Len(q) = n + Len(rest) /\ Len(rest) \in Nat
        /\ \A k \in 1..(n + Len(rest)) : q[k] = IF k <= n THEN q1[k] ELSE rest[k - n]
    <3>1. PICK S : S = Elements(q1) \union Elements(rest)
      OBVIOUS
    <3>2. q1 \in Seq(S) /\ rest \in Seq(S)
      BY <1>9, <2>3, <3>1, SeqMonotonic DEF IsSequence
    <3>3. q = q1 \o rest
      BY <2>1, <2>2
    <3> QED
      BY <1>9, <2>3, <3>2, <3>3, ConcatProperties, SequenceFacts
  <2>5. \A e \in Elements(rest) : /\ e.do \notin {"insertSub", "replaceValue"}
                                  /\ e.do = "insertValue" => e.id \in Nat
    <3>1. \A e \in Elements(q2) : e.do = "insertValue" /\ e.id \in Nat
      BY <1>7, <1>10
    <3>2. \A e \in Elements(q3) : e.do = "insertLink"
      BY <1>7, <1>10
    <3> QED
      BY <2>3, <3>1, <3>2
  <2>6. ASSUME NEW k \in 1..n PROVE q[k] = q1[k]
    BY <1>6, <2>4
  <2>7. ASSUME NEW k \in (n + 1)..Len(q) PROVE q[k] \in Elements(rest)
    <3>1. k - n \in 1..Len(rest) /\ k \in 1..(n + Len(rest)) /\ ~(k <= n)
      BY <1>6, <2>4
    <3>2. q[k] = rest[k - n]
      BY <2>4, <3>1
    <3> QED
      BY <2>3, <3>1, <3>2, SequenceFacts DEF Elements
  <2>8. \A r \in work.subs : r.fk # i
    BY <1>4, <1>16, NewIsEmpty
  <2>9. Len(q) >= n
    BY <1>6, <2>4
  <2>10. op.kind # "addSubsByFilters"
    OBVIOUS
  <2>11. \A k \in 1..n : q[k].do = "insertSub" /\ q[k].id = k - 1
    BY <1>7, <2>6
  <2>12. \A k \in (n + 1)..Len(q) : /\ q[k].do \notin {"insertSub", "replaceValue"}
                                    /\ q[k].do = "insertValue" => q[k].id \in Nat
    BY <2>5, <2>7
  <2> QED
    BY <1>4, <1>6, <1>11, <2>8, <2>9, <2>10, <2>11, <2>12, OrderlyInserts
<1> QED
  BY <1>2, <1>17, <1>18 DEF SentWell

(* Sub-entities are added with indexes as ids.                             *)
LEMMA AddSubsSent ==
  ASSUME NEW op, NEW t, NEW i, Ready(op, t, i), op.kind \in {"addSubs", "addSubsByFilters"}
  PROVE  /\ SentWell(op, t, Statements(op, i), i)
         /\ Len(Statements(op, i)) = Len(op.values)
         /\ \A k \in 1..Len(op.values) : Statements(op, i)[k].do = "insertSub"
<1>1. PICK q : q = Statements(op, i)
  OBVIOUS
<1>2. PICK p : p = [k \in DOMAIN op.values |-> InsertSub(i, MaxSubItemId(i) + k, op.values[k])]
  OBVIOUS
<1>3. addSubEntities(op, i) = p
  BY <1>2 DEF addSubEntities, Each
<1>4. /\ op \in Ops /\ i \in EntityIds /\ NoOrphansIn(t) /\ Numbered(t, serial) /\ IdsDiffer(t)
      /\ serial.sub \in Nat \ {0} /\ (op.kind = "addSubs" => SubsOf(t, i) = {})
  BY DEF Ready, Numbered
<1>5. PICK n : n = Len(op.values)
  OBVIOUS
<1>6. n \in Nat /\ DOMAIN op.values = 1..n
  BY <1>4, <1>5, OpValues
<1>7. ASSUME NEW k \in 1..n
      PROVE  /\ p[k].do = "insertSub" /\ p[k].fk = i /\ p[k].id = k - 1 /\ p[k].value = op.values[k]
             /\ "readBack" \in DOMAIN p[k] /\ {"do", "fk", "id", "value"} \subseteq DOMAIN p[k]
  <2>1. MaxSubItemId(i) + k = k - 1
    BY <1>6 DEF MaxSubItemId
  <2>2. p[k] = InsertSub(i, k - 1, op.values[k])
    BY <1>2, <1>6, <2>1
  <2> QED
    BY <2>2 DEF InsertSub
<1>8. /\ q = [k \in 1..n |-> q[k]]
      /\ \A k \in 1..n : /\ q[k].do = "insertSub" /\ q[k].fk = i /\ q[k].id = k - 1 /\ q[k].value = op.values[k]
                         /\ op.kind = "addSubsByFilters" => q[k].readBack
  <2>1. CASE op.kind = "addSubs"
    <3>1. q = p
      BY <1>1, <1>3, <2>1 DEF Statements
    <3> QED
      BY <1>2, <1>6, <1>7, <2>1, <3>1
  <2>2. CASE op.kind = "addSubsByFilters"
    <3>1. q = [k \in DOMAIN p |-> [p[k] EXCEPT !.readBack = TRUE]]
      BY <1>1, <1>3, <2>2 DEF Statements, addSubEntitiesByFilters
    <3>2. DOMAIN p = 1..n
      BY <1>2, <1>6
    <3>3. q = [k \in 1..n |-> [p[k] EXCEPT !.readBack = TRUE]]
      BY <3>1, <3>2
    <3>4. ASSUME NEW k \in 1..n
          PROVE  /\ q[k].do = "insertSub" /\ q[k].fk = i /\ q[k].id = k - 1 /\ q[k].value = op.values[k] /\ q[k].readBack
      <4>1. q[k] = [p[k] EXCEPT !.readBack = TRUE]
        BY <3>3
      <4> QED
        BY <1>7, <4>1
    <3> QED
      BY <3>3, <3>4
  <2> QED
    BY <2>1, <2>2
<1>9. IsSequence(q) /\ Len(q) = n
  BY <1>6, <1>8, FunctionIsSequence
<1>10. \A e : e \in Elements(q) <=> \E k \in 1..n : e = q[k]
  BY <1>9, SequenceFacts DEF Elements
<1>11. \A e \in Elements(q) : e.do = "insertSub" /\ e.fk = i
  BY <1>8, <1>10
<1>12. SubsAfter(work, Elements(q), i) = PairsOf(work.subs, i) \union Indexed(op.values)
  <2>1. \A e \in Elements(q) : e.do # "deleteSubRow"
    BY <1>11
  <2>2. ASSUME NEW e \in Elements(q), e.do = "insertSub" PROVE <<e.id, e.value>> \in Indexed(op.values)
    <3>1. PICK k \in 1..n : e = q[k]
      BY <1>10
    <3> QED
      BY <1>6, <1>8, <3>1 DEF Indexed
  <2>3. ASSUME NEW x \in Indexed(op.values)
        PROVE  \E e \in Elements(q) : e.do = "insertSub" /\ x = <<e.id, e.value>>
    <3>1. PICK k \in 1..n : x = <<k - 1, op.values[k]>>
      BY <1>6 DEF Indexed
    <3>2. q[k] \in Elements(q)
      BY <1>10
    <3> QED
      BY <1>8, <3>1, <3>2
  <2> QED
    BY <2>1, <2>2, <2>3, SubsSent
<1>13. ValsAfter(work, Elements(q), i) = PairsOf(work.vals, i)
  BY <1>11, ValsUntouched
<1>14. LinksAfter(work, Elements(q), i) = LinksOf(work, i)
  BY <1>11, LinksUntouched
<1>15. \A e \in Elements(q) : About(op, t, i, e)
  BY <1>11 DEF About
<1>16. /\ work.subs = t.subs /\ work.vals = t.vals /\ work.links = t.links
       /\ OnlyOf(t, work, i) /\ work.root[i] = NewRoot(op, t, i)
  BY PreparedFacts DEF AddingOrRemovingSubs, AddingSubs
<1>17. Underway(op, t, work, Elements(q), i)
  <2>1. /\ NewSubs(op, t, i) = PairsOf(t.subs, i) \union Indexed(op.values)
        /\ NewVals(op, t, i) = PairsOf(t.vals, i)
        /\ NewLinks(op, t, i) = LinksOf(t, i)
    BY DEF NewSubs, NewVals, NewLinks
  <2>2. LinksOf(work, i) = LinksOf(t, i)
    BY <1>16 DEF LinksOf
  <2> QED
    BY <1>12, <1>13, <1>14, <1>15, <1>16, <2>1, <2>2 DEF Underway
<1>18. op.kind # "addSubsByFilters" => \A r \in work.subs : r.fk # i
  <2>1. SubsOf(t, i) = {s \in t.subs : s.fk = i}
    BY <1>4, SubsOfIs DEF Numbered
  <2> QED
    BY <1>4, <1>16, <2>1
<1>19. Orderly(op, work, q, serial, i)
  <2>1. /\ Len(q) >= n
        /\ \A k \in (n + 1)..Len(q) : /\ q[k].do \notin {"insertSub", "replaceValue"}
                                      /\ q[k].do = "insertValue" => q[k].id \in Nat
    BY <1>6, <1>9
  <2>2. \A k \in 1..n : /\ q[k].do = "insertSub" /\ q[k].id = k - 1
                        /\ op.kind = "addSubsByFilters" => q[k].readBack
    BY <1>8
  <2> QED
    BY <1>4, <1>6, <1>9, <1>18, <2>1, <2>2, OrderlyInserts
<1> QED
  BY <1>1, <1>5, <1>8, <1>9, <1>17, <1>19 DEF SentWell

(* Links are looked up before they are added.                              *)
LEMMA AddLinksSent ==
  ASSUME NEW op, NEW t, NEW i, Ready(op, t, i), op.kind = "addLinks"
  PROVE  SentWell(op, t, Statements(op, i), i)
<1>1. PICK q : q = Statements(op, i)
  OBVIOUS
<1>2. PICK links, c : links = SetToSeq(op.links) /\ c = Cardinality(op.links)
  OBVIOUS
<1>3. /\ op \in Ops /\ i \in EntityIds /\ IsFiniteSet(op.links)
  BY OpValues DEF Ready
<1>4. /\ c \in Nat /\ DOMAIN links = 1..c /\ \A l : l \in op.links <=> \E k \in 1..c : l = links[k]
  <2>1. c \in Nat /\ DOMAIN links = 1..c /\ Elements(links) = op.links
    BY <1>2, <1>3, SetToSeqFacts, SetToSeqElements
  <2> QED
    BY <2>1 DEF Elements
<1>5. q = [k \in 1..c |-> [do |-> "selectLink", fk |-> i, link |-> links[k]]]
  <2>1. q = addSubEntities(op, i)
    BY <1>1 DEF Statements
  <2>2. addSubEntities(op, i) = [k \in DOMAIN SetToSeq(op.links) |->
                                   [do |-> "selectLink", fk |-> i, link |-> SetToSeq(op.links)[k]]]
    BY DEF addSubEntities, Each
  <2> QED
    BY <1>2, <1>4, <2>1, <2>2
<1>6. q = [k \in 1..c |-> q[k]]
  BY <1>5
<1>7. \A k \in 1..c : q[k].do = "selectLink" /\ q[k].fk = i /\ q[k].link = links[k]
  BY <1>5
<1>8. IsSequence(q) /\ Len(q) = c
  BY <1>4, <1>6, FunctionIsSequence
<1>9. \A e : e \in Elements(q) <=> \E k \in 1..c : e = q[k]
  BY <1>8, SequenceFacts DEF Elements
<1>10. \A e \in Elements(q) : e.do = "selectLink" /\ e.fk = i
  BY <1>7, <1>9
<1>11. SubsAfter(work, Elements(q), i) = PairsOf(work.subs, i)
  BY <1>10, SubsUntouched
<1>12. ValsAfter(work, Elements(q), i) = PairsOf(work.vals, i)
  BY <1>10, ValsUntouched
<1>13. LinksAfter(work, Elements(q), i) = LinksOf(work, i) \union op.links
  <2>1. \A e \in Elements(q) : e.do # "deleteLink"
    BY <1>10
  <2>2. \A e \in Elements(q) : e.do \in {"selectLink", "insertLink"} => e.link \in op.links
    BY <1>4, <1>7, <1>9
  <2>3. ASSUME NEW p \in op.links
        PROVE  \E e \in Elements(q) : e.do \in {"selectLink", "insertLink"} /\ p = e.link
    <3>1. PICK k \in 1..c : p = links[k]
      BY <1>4
    <3>2. q[k] \in Elements(q)
      BY <1>9
    <3> QED
      BY <1>7, <3>1, <3>2
  <2> QED
    BY <2>1, <2>2, <2>3, LinksSent
<1>14. \A e \in Elements(q) : About(op, t, i, e)
  BY <1>10 DEF About
<1>15. /\ work.subs = t.subs /\ work.vals = t.vals /\ work.links = t.links
       /\ OnlyOf(t, work, i) /\ work.root[i] = NewRoot(op, t, i)
  BY PreparedFacts DEF AddingOrRemovingSubs, AddingSubs
<1>16. Underway(op, t, work, Elements(q), i)
  <2>1. /\ NewSubs(op, t, i) = PairsOf(t.subs, i)
        /\ NewVals(op, t, i) = PairsOf(t.vals, i)
        /\ NewLinks(op, t, i) = LinksOf(t, i) \union op.links
    BY DEF NewSubs, NewVals, NewLinks
  <2>2. LinksOf(work, i) = LinksOf(t, i)
    BY <1>15 DEF LinksOf
  <2> QED
    BY <1>11, <1>12, <1>13, <1>14, <1>15, <2>1, <2>2 DEF Underway
<1>17. Orderly(op, work, q, serial, i)
  BY <1>8, <1>10, OrderlyElements
<1> QED
  BY <1>1, <1>16, <1>17 DEF SentWell

(* Sub-entities are deleted row by row.                                    *)
LEMMA RemoveSubsSent ==
  ASSUME NEW op, NEW t, NEW i, Ready(op, t, i), op.kind \in {"removeSubs", "removeSubsByFilters"}
  PROVE  SentWell(op, t, Statements(op, i), i)
<1>1. PICK q : q = Statements(op, i)
  OBVIOUS
<1>2. PICK rows, subs, c : /\ rows = {s \in SubsOf(work, i) : op.all \/ s.id = op.sub}
                           /\ subs = SetToSeq(rows) /\ c = Cardinality(rows)
  OBVIOUS
<1>3. /\ op \in Ops /\ i \in EntityIds /\ i # 0 /\ Numbered(t, serial) /\ IdsDiffer(t) /\ IsFiniteSet(t.subs)
  BY ConstantsAssumption DEF Ready, WellFormed
<1>4. /\ work.subs = t.subs /\ work.vals = t.vals /\ work.links = t.links
      /\ OnlyOf(t, work, i) /\ work.root[i] = NewRoot(op, t, i)
  BY PreparedFacts DEF AddingOrRemovingSubs, RemovingSubs
<1>5. rows = {s \in t.subs : s.fk = i /\ (op.all \/ s.id = op.sub)}
  <2>1. SubsOf(t, i) = {s \in t.subs : s.fk = i}
    BY <1>3, SubsOfIs DEF Numbered
  <2>2. SubsOf(work, i) = SubsOf(t, i)
    BY <1>4 DEF SubsOf
  <2> QED
    BY <1>2, <2>1, <2>2
<1>6. IsFiniteSet(rows)
  BY <1>3, <1>5, FS_Subset
<1>7. /\ c \in Nat /\ DOMAIN subs = 1..c /\ \A r : r \in rows <=> \E k \in 1..c : r = subs[k]
  <2>1. c \in Nat /\ DOMAIN subs = 1..c /\ Elements(subs) = rows
    BY <1>2, <1>6, SetToSeqFacts, SetToSeqElements
  <2> QED
    BY <2>1 DEF Elements
<1>8. q = [k \in 1..c |-> [do |-> "deleteSubRow", row |-> subs[k].row]]
  <2>0. q = removeSubEntities(op, i)
    BY <1>1, <1>3 DEF Statements, removeSubEntitiesByFilters
  <2> DEFINE s == SetToSeq({x \in SubsOf(work, i) : op.all \/ x.id = op.sub})
  <2>1. removeSubEntities(op, i) = [k \in DOMAIN s |-> [do |-> "deleteSubRow", row |-> s[k].row]]
    BY DEF removeSubEntities, Each
  <2>2. s = subs
    BY <1>2
  <2> HIDE DEF s
  <2> QED
    BY <1>7, <2>0, <2>1, <2>2
<1>9. q = [k \in 1..c |-> q[k]]
  BY <1>8
<1>10. \A k \in 1..c : q[k].do = "deleteSubRow" /\ q[k].row = subs[k].row
  BY <1>8
<1>11. IsSequence(q) /\ Len(q) = c
  BY <1>7, <1>9, FunctionIsSequence
<1>12. \A e : e \in Elements(q) <=> \E k \in 1..c : e = q[k]
  BY <1>11, SequenceFacts DEF Elements
<1>13. \A e \in Elements(q) : e.do = "deleteSubRow" /\ \E r \in rows : e.row = r.row
  BY <1>7, <1>10, <1>12
<1>14. \A r \in rows : \E e \in Elements(q) : e.row = r.row
  BY <1>7, <1>10, <1>12
<1>15. SubsAfter(work, Elements(q), i) = {p \in PairsOf(t.subs, i) : ~op.all /\ p[1] # op.sub}
  <2>1. {e \in Elements(q) : e.do = "insertSub"} = {}
    BY <1>13
  <2>2. PICK left : left = {r \in t.subs : \A s \in Elements(q) : s.do = "deleteSubRow" => s.row # r.row}
    OBVIOUS
  <2>3. \A r \in t.subs : r.fk = i => (r \in left <=> ~op.all /\ r.id # op.sub)
    <3>1. ASSUME NEW r \in t.subs, r.fk = i, r \in left PROVE ~op.all /\ r.id # op.sub
      BY <1>5, <1>13, <1>14, <2>2, <3>1
    <3>2. ASSUME NEW r \in t.subs, r.fk = i, ~op.all, r.id # op.sub PROVE r \in left
      <4>1. \A x \in rows : x.row # r.row
        BY <1>3, <1>5, <3>2 DEF Numbered
      <4> QED
        BY <1>13, <2>2, <4>1
    <3> QED
      BY <3>1, <3>2
  <2>4. PairsOf(left, i) = {p \in PairsOf(t.subs, i) : ~op.all /\ p[1] # op.sub}
    BY <2>2, <2>3 DEF PairsOf
  <2>5. SubsAfter(work, Elements(q), i) = PairsOf(left, i) \union {}
    BY <1>4, <2>1, <2>2 DEF SubsAfter
  <2> QED
    BY <2>4, <2>5
<1>16. ValsAfter(work, Elements(q), i) = PairsOf(work.vals, i)
  BY <1>13, ValsUntouched
<1>17. LinksAfter(work, Elements(q), i) = LinksOf(work, i)
  BY <1>13, LinksUntouched
<1>18. \A e \in Elements(q) : About(op, t, i, e)
  BY <1>5, <1>13 DEF About
<1>19. Underway(op, t, work, Elements(q), i)
  <2>1. /\ NewSubs(op, t, i) = {p \in PairsOf(t.subs, i) : ~op.all /\ p[1] # op.sub}
        /\ NewVals(op, t, i) = PairsOf(t.vals, i)
        /\ NewLinks(op, t, i) = LinksOf(t, i)
    BY DEF NewSubs, NewVals, NewLinks
  <2>2. LinksOf(work, i) = LinksOf(t, i)
    BY <1>4 DEF LinksOf
  <2> QED
    BY <1>4, <1>15, <1>16, <1>17, <1>18, <2>1, <2>2 DEF Underway
<1>20. Orderly(op, work, q, serial, i)
  BY <1>11, <1>13, OrderlyElements
<1> QED
  BY <1>1, <1>19, <1>20 DEF SentWell

(* Links are deleted one by one.                                           *)
LEMMA RemoveLinksSent ==
  ASSUME NEW op, NEW t, NEW i, Ready(op, t, i), op.kind = "removeLinks"
  PROVE  SentWell(op, t, Statements(op, i), i)
<1>1. PICK q : q = Statements(op, i)
  OBVIOUS
<1>2. PICK gone, links, c : /\ gone = {l \in LinksOf(work, i) : op.all \/ l = op.sub}
                            /\ links = SetToSeq(gone) /\ c = Cardinality(gone)
  OBVIOUS
<1>3. op \in Ops /\ i \in EntityIds /\ IsFiniteSet(t.links)
  BY DEF Ready, WellFormed
<1>4. /\ work.subs = t.subs /\ work.vals = t.vals /\ work.links = t.links
      /\ OnlyOf(t, work, i) /\ work.root[i] = NewRoot(op, t, i)
  BY PreparedFacts DEF AddingOrRemovingSubs, RemovingSubs
<1>5. LinksOf(work, i) = LinksOf(t, i)
  BY <1>4 DEF LinksOf
<1>6. IsFiniteSet(gone)
  <2>1. IsFiniteSet(LinksOf(t, i))
    BY <1>3, LinksFinite
  <2> QED
    BY <1>2, <1>5, <2>1, FS_Subset
<1>7. /\ c \in Nat /\ DOMAIN links = 1..c /\ \A l : l \in gone <=> \E k \in 1..c : l = links[k]
  <2>1. c \in Nat /\ DOMAIN links = 1..c /\ Elements(links) = gone
    BY <1>2, <1>6, SetToSeqFacts, SetToSeqElements
  <2> QED
    BY <2>1 DEF Elements
<1>8. q = [k \in 1..c |-> [do |-> "deleteLink", fk |-> i, link |-> links[k]]]
  <2>0. q = removeSubEntities(op, i)
    BY <1>1 DEF Statements
  <2> DEFINE s == SetToSeq({l \in LinksOf(work, i) : op.all \/ l = op.sub})
  <2>1. removeSubEntities(op, i) = [k \in DOMAIN s |-> [do |-> "deleteLink", fk |-> i, link |-> s[k]]]
    BY DEF removeSubEntities, Each
  <2>2. s = links
    BY <1>2
  <2> HIDE DEF s
  <2> QED
    BY <1>7, <2>0, <2>1, <2>2
<1>9. q = [k \in 1..c |-> q[k]]
  BY <1>8
<1>10. \A k \in 1..c : q[k].do = "deleteLink" /\ q[k].fk = i /\ q[k].link = links[k]
  BY <1>8
<1>11. IsSequence(q) /\ Len(q) = c
  BY <1>7, <1>9, FunctionIsSequence
<1>12. \A e : e \in Elements(q) <=> \E k \in 1..c : e = q[k]
  BY <1>11, SequenceFacts DEF Elements
<1>13. \A e \in Elements(q) : e.do = "deleteLink" /\ e.fk = i /\ e.link \in gone
  BY <1>7, <1>10, <1>12
<1>14. \A l \in gone : \E e \in Elements(q) : e.link = l
  BY <1>7, <1>10, <1>12
<1>15. LinksAfter(work, Elements(q), i) = {l \in LinksOf(t, i) : ~op.all /\ l # op.sub}
  <2>1. {e \in Elements(q) : e.do \in {"selectLink", "insertLink"}} = {}
    BY <1>13
  <2>2. {l \in LinksOf(t, i) : \A s \in Elements(q) : s.do = "deleteLink" => s.link # l}
        = {l \in LinksOf(t, i) : ~op.all /\ l # op.sub}
    BY <1>2, <1>5, <1>13, <1>14
  <2>3. LinksAfter(work, Elements(q), i) =
          {l \in LinksOf(t, i) : \A s \in Elements(q) : s.do = "deleteLink" => s.link # l} \union {}
    BY <1>5, <2>1 DEF LinksAfter
  <2> QED
    BY <2>2, <2>3
<1>16. SubsAfter(work, Elements(q), i) = PairsOf(work.subs, i)
  BY <1>13, SubsUntouched
<1>17. ValsAfter(work, Elements(q), i) = PairsOf(work.vals, i)
  BY <1>13, ValsUntouched
<1>18. \A e \in Elements(q) : About(op, t, i, e)
  BY <1>13 DEF About
<1>19. Underway(op, t, work, Elements(q), i)
  <2>1. /\ NewSubs(op, t, i) = PairsOf(t.subs, i)
        /\ NewVals(op, t, i) = PairsOf(t.vals, i)
        /\ NewLinks(op, t, i) = {l \in LinksOf(t, i) : ~op.all /\ l # op.sub}
    BY DEF NewSubs, NewVals, NewLinks
  <2> QED
    BY <1>4, <1>15, <1>16, <1>17, <1>18, <2>1 DEF Underway
<1>20. Orderly(op, work, q, serial, i)
  BY <1>11, <1>13, OrderlyElements
<1> QED
  BY <1>1, <1>19, <1>20 DEF SentWell

(* A change of values, and the new version after it.                       *)
LEMMA VersionLast ==
  ASSUME NEW op, NEW t, NEW i, Ready(op, t, i), op.kind \in {"update"} \union ChangingValues,
         NEW p, IsSequence(p), \A e \in Elements(p) : OwnStatement(i, e) /\ e.do \in {"insertValue", "replaceValue", "deleteValue"},
         \A e \in Elements(p) : e.do \in {"insertValue", "replaceValue"} => e.id \in Nat,
         \/ \A e \in Elements(p) : e.do # "insertValue"
         \/ \A e \in Elements(p) : e.do # "replaceValue",
         ValsAfter(t, Elements(p), i) = NewVals(op, t, i),
         NEW q, q = p \o <<SetVersion(i, t.root[i].version + 1, IF op.kind = "update" THEN op.value ELSE 0)>>
  PROVE  SentWell(op, t, q, i)
<1>1. PICK s : s = SetVersion(i, t.root[i].version + 1, IF op.kind = "update" THEN op.value ELSE 0)
  OBVIOUS
<1>2. s.do = "updateRoot"
  BY <1>1 DEF SetVersion
<1>3. Elements(<<s>>) = {s} /\ IsSequence(<<s>>)
  <2>1. DOMAIN <<s>> = {1} /\ <<s>>[1] = s
    OBVIOUS
  <2>2. Elements(<<s>>) = {s}
    BY <2>1 DEF Elements
  <2> QED
    BY <2>2 DEF IsSequence
<1>4. IsSequence(q) /\ Elements(q) = Elements(p) \union {s}
  <2>1. q = p \o <<s>>
    BY <1>1
  <2> QED
    BY <1>3, <2>1, ConcatFacts
<1>5. work = t /\ OnlyOf(t, work, i)
  BY PreparedFacts
<1>6. \A e \in Elements(q) : e.do \in {"insertValue", "replaceValue", "deleteValue", "updateRoot"}
  BY <1>2, <1>4
<1>7. \A e \in Elements(q) : About(op, t, i, e)
  <2>1. About(op, t, i, s)
    BY <1>1, <1>2 DEF About
  <2>2. \A e \in Elements(p) : About(op, t, i, e)
    BY DEF About, OwnStatement
  <2> QED
    BY <1>4, <2>1, <2>2
<1>8. SubsAfter(work, Elements(q), i) = PairsOf(work.subs, i)
  BY <1>6, SubsUntouched
<1>9. LinksAfter(work, Elements(q), i) = LinksOf(work, i)
  BY <1>6, LinksUntouched
<1>10. ValsAfter(t, Elements(q), i) = ValsAfter(t, Elements(p), i)
  <2>1. {v \in t.vals : \A e \in Elements(q) : e.do # "replaceValue" /\ (e.do = "deleteValue" => e.value # v.value)}
        = {v \in t.vals : \A e \in Elements(p) : e.do # "replaceValue" /\ (e.do = "deleteValue" => e.value # v.value)}
    BY <1>2, <1>4
  <2>2. {x \in Elements(q) : x.do \in {"insertValue", "replaceValue"}}
        = {x \in Elements(p) : x.do \in {"insertValue", "replaceValue"}}
    BY <1>2, <1>4
  <2> QED
    BY <2>1, <2>2 DEF ValsAfter
<1>11. NewSubs(op, t, i) = PairsOf(t.subs, i) /\ NewLinks(op, t, i) = LinksOf(t, i)
  BY DEF NewSubs, NewLinks, ChangingValues
<1>12. Underway(op, t, work, Elements(q), i)
  <2>1. s \in Elements(q)
    BY <1>4
  <2> QED
    BY <1>2, <1>5, <1>7, <1>8, <1>9, <1>10, <1>11, <2>1 DEF Underway
<1>13. Orderly(op, work, q, serial, i)
  <2>1. \A e \in Elements(q) : e.do # "insertSub"
    BY <1>6
  <2>2. \A e \in Elements(q) : e.do \in {"insertValue", "replaceValue"} => e.id \in Nat
    BY <1>2, <1>4
  <2>3. \/ \A e \in Elements(q) : e.do # "insertValue"
        \/ \A e \in Elements(q) : e.do # "replaceValue"
    BY <1>2, <1>4
  <2> QED
    BY <1>4, <2>1, <2>2, <2>3, OrderlyElements
<1> QED
  BY <1>12, <1>13 DEF SentWell

(* Each value of an update replaces all stored ones.                       *)
LEMMA UpdateSent ==
  ASSUME NEW op, NEW t, NEW i, Ready(op, t, i), op.kind = "update"
  PROVE  SentWell(op, t, Statements(op, i), i)
<1>1. PICK q : q = Statements(op, i)
  OBVIOUS
<1>2. PICK p : p = [k \in DOMAIN op.tags |-> [do |-> "replaceValue", fk |-> i, id |-> k - 1, value |-> op.tags[k]]]
  OBVIOUS
<1>3. op \in Ops /\ op.subs = {}
  BY DEF Ready
<1>4. work = t
  BY PreparedFacts
<1>5. PICK n : n = Len(op.tags)
  OBVIOUS
<1>6. n \in Nat /\ DOMAIN op.tags = 1..n /\ (op.tags = <<>> <=> n = 0)
  BY <1>3, <1>5, OpValues
<1>7. /\ p = [k \in 1..n |-> p[k]]
      /\ \A k \in 1..n : /\ p[k].do = "replaceValue" /\ p[k].fk = i /\ p[k].id = k - 1
                         /\ p[k].value = op.tags[k]
  BY <1>2, <1>6
<1>8. IsSequence(p) /\ Len(p) = n
  BY <1>6, <1>7, FunctionIsSequence
<1>9. \A e : e \in Elements(p) <=> \E k \in 1..n : e = p[k]
  BY <1>8, SequenceFacts DEF Elements
<1>10. \A e \in Elements(p) : OwnStatement(i, e) /\ e.do = "replaceValue" /\ e.id \in Nat
  BY <1>7, <1>9 DEF OwnStatement
<1>11. PICK s : s = <<SetVersion(i, t.root[i].version + 1, op.value)>>
  OBVIOUS
<1>12. q = p \o s
  <2>1. q = updateEntity(op, i)
    BY <1>1 DEF Statements
  <2>2. updateEntity(op, i) = (<<>> \o p) \o s
    <3>1. updateSubEntities(op, i) = <<>>
      BY <1>3 DEF updateSubEntities
    <3>2. Each(op.tags, LAMBDA k : [do |-> "replaceValue", fk |-> i, id |-> k - 1, value |-> op.tags[k]]) = p
      BY <1>2 DEF Each
    <3> QED
      BY <1>4, <1>11, <3>1, <3>2, ZenonT(30) DEF updateEntity
  <2>3. <<>> \o p = p
    BY <1>8, ConcatEmptySeq DEF IsSequence
  <2> QED
    BY <2>1, <2>2, <2>3
<1>13. ValsAfter(t, Elements(p), i) = NewVals(op, t, i)
  <2>1. CASE n = 0
    <3>1. Elements(p) = {}
      BY <1>9, <2>1
    <3>2. ValsAfter(t, Elements(p), i) = PairsOf(t.vals, i)
      BY <3>1, ValsUntouched
    <3> QED
      BY <1>6, <2>1, <3>2 DEF NewVals, ChangingValues
  <2>2. CASE n # 0
    <3>1. NewVals(op, t, i) = Indexed(op.tags)
      BY <1>6, <2>2 DEF NewVals
    <3>2. p[1] \in Elements(p) /\ p[1].do = "replaceValue"
      BY <1>6, <1>7, <1>9, <2>2
    <3>3. {v \in t.vals : \A e \in Elements(p) : e.do # "replaceValue" /\ (e.do = "deleteValue" => e.value # v.value)} = {}
      BY <3>2
    <3>4. PairsOf({}, i) = {}
      BY DEF PairsOf
    <3>5. {<<e.id, e.value>> : e \in {x \in Elements(p) : x.do \in {"insertValue", "replaceValue"}}} = Indexed(op.tags)
      <4>1. ASSUME NEW e \in Elements(p) PROVE <<e.id, e.value>> \in Indexed(op.tags)
        <5>1. PICK k \in 1..n : e = p[k]
          BY <1>9
        <5> QED
          BY <1>6, <1>7, <5>1 DEF Indexed
      <4>2. ASSUME NEW x \in Indexed(op.tags)
            PROVE  \E e \in Elements(p) : e.do \in {"insertValue", "replaceValue"} /\ x = <<e.id, e.value>>
        <5>1. PICK k \in 1..n : x = <<k - 1, op.tags[k]>>
          BY <1>6 DEF Indexed
        <5>2. p[k] \in Elements(p)
          BY <1>9
        <5> QED
          BY <1>7, <5>1, <5>2
      <4> QED
        BY <4>1, <4>2
    <3> QED
      BY <3>1, <3>3, <3>4, <3>5 DEF ValsAfter
  <2> QED
    BY <2>1, <2>2
<1>14. q = p \o <<SetVersion(i, t.root[i].version + 1, IF op.kind = "update" THEN op.value ELSE 0)>>
  BY <1>11, <1>12
<1>15. SentWell(op, t, q, i)
  BY <1>8, <1>10, <1>13, <1>14, VersionLast
<1> QED
  BY <1>1, <1>15

(* Added values get the number of values as their id.                      *)
LEMMA AddValuesSent ==
  ASSUME NEW op, NEW t, NEW i, Ready(op, t, i), op.kind = "addValues"
  PROVE  SentWell(op, t, Statements(op, i), i)
<1>1. PICK q : q = Statements(op, i)
  OBVIOUS
<1>a. PICK m : m = Len(ValuesOf(t, i))
  OBVIOUS
<1>2. PICK p : p = [k \in DOMAIN op.tags |-> InsertValue(i, m, op.tags[k])]
  OBVIOUS
<1>3. op \in Ops /\ Numbered(t, serial) /\ IdsDiffer(t)
  BY DEF Ready
<1>4. work = t
  BY PreparedFacts DEF ChangingValues
<1>b. m \in Nat
  <2>1. ValuesOf(t, i) = Listed(PairsOf(t.vals, i)) /\ IsArray(PairsOf(t.vals, i))
    BY <1>3, ValuesOfIs, ValuesAreArray
  <2>2. IsSequence(Listed(PairsOf(t.vals, i)))
    BY <2>1, ArrayFacts
  <2> QED
    BY <1>a, <2>1, <2>2, SequenceFacts
<1>5. PICK n : n = Len(op.tags)
  OBVIOUS
<1>6. n \in Nat /\ DOMAIN op.tags = 1..n
  BY <1>3, <1>5, OpValues
<1>7. /\ p = [k \in 1..n |-> p[k]]
      /\ \A k \in 1..n : /\ p[k].do = "insertValue" /\ p[k].fk = i /\ p[k].id = m
                         /\ p[k].value = op.tags[k]
  BY <1>2, <1>6 DEF InsertValue
<1>8. IsSequence(p) /\ Len(p) = n
  BY <1>6, <1>7, FunctionIsSequence
<1>9. \A e : e \in Elements(p) <=> \E k \in 1..n : e = p[k]
  BY <1>8, SequenceFacts DEF Elements
<1>10. \A e \in Elements(p) : OwnStatement(i, e) /\ e.do = "insertValue" /\ e.id \in Nat
  BY <1>b, <1>7, <1>9 DEF OwnStatement
<1>11. PICK s : s = <<SetVersion(i, t.root[i].version + 1, 0)>>
  OBVIOUS
<1>12. q = p \o s
  <2>1. q = addFieldValues(op, i)
    BY <1>1 DEF Statements
  <2>2. Each(op.tags, LAMBDA k : InsertValue(i, Len(ValuesOf(work, i)), op.tags[k])) = p
    BY <1>a, <1>2, <1>4 DEF Each
  <2>3. addFieldValues(op, i) = p \o s
    BY <1>4, <1>11, <2>2, ZenonT(30) DEF addFieldValues
  <2> QED
    BY <2>1, <2>3
<1>13. ValsAfter(t, Elements(p), i) = NewVals(op, t, i)
  <2>1. PICK P : P = {<<m, op.tags[k]>> : k \in DOMAIN op.tags}
    OBVIOUS
  <2>2. \A e \in Elements(p) : e.do \notin {"deleteValue", "replaceValue"}
    BY <1>10
  <2>3. \A e \in Elements(p) : e.do = "insertValue" => <<e.id, e.value>> \in P
    BY <1>6, <1>7, <1>9, <2>1
  <2>4. ASSUME NEW x \in P PROVE \E e \in Elements(p) : e.do = "insertValue" /\ x = <<e.id, e.value>>
    <3>1. PICK k \in 1..n : x = <<m, op.tags[k]>>
      BY <1>6, <2>1
    <3>2. p[k] \in Elements(p)
      BY <1>9
    <3> QED
      BY <1>7, <3>1, <3>2
  <2>5. ValsAfter(t, Elements(p), i) = PairsOf(t.vals, i) \union P
    BY <2>2, <2>3, <2>4, ValsSent
  <2>6. NewVals(op, t, i) = PairsOf(t.vals, i) \union {<<Len(ValuesOf(t, i)), op.tags[k]>> : k \in DOMAIN op.tags}
    BY DEF NewVals
  <2> QED
    BY <1>a, <2>1, <2>5, <2>6
<1>14. q = p \o <<SetVersion(i, t.root[i].version + 1, IF op.kind = "update" THEN op.value ELSE 0)>>
  BY <1>11, <1>12
<1>15. SentWell(op, t, q, i)
  BY <1>8, <1>10, <1>13, <1>14, VersionLast DEF ChangingValues
<1> QED
  BY <1>1, <1>15

(* Values are removed one by one.                                          *)
LEMMA RemoveValuesSent ==
  ASSUME NEW op, NEW t, NEW i, Ready(op, t, i), op.kind = "removeValues"
  PROVE  SentWell(op, t, Statements(op, i), i)
<1>1. PICK q : q = Statements(op, i)
  OBVIOUS
<1>2. PICK p : p = [k \in DOMAIN op.tags |-> [do |-> "deleteValue", fk |-> i, value |-> op.tags[k]]]
  OBVIOUS
<1>3. op \in Ops
  BY DEF Ready
<1>4. work = t
  BY PreparedFacts DEF ChangingValues
<1>5. PICK n : n = Len(op.tags)
  OBVIOUS
<1>6. n \in Nat /\ DOMAIN op.tags = 1..n
  BY <1>3, <1>5, OpValues
<1>7. /\ p = [k \in 1..n |-> p[k]]
      /\ \A k \in 1..n : p[k].do = "deleteValue" /\ p[k].fk = i /\ p[k].value = op.tags[k]
  BY <1>2, <1>6
<1>8. IsSequence(p) /\ Len(p) = n
  BY <1>6, <1>7, FunctionIsSequence
<1>9. \A e : e \in Elements(p) <=> \E k \in 1..n : e = p[k]
  BY <1>8, SequenceFacts DEF Elements
<1>10. \A e \in Elements(p) : OwnStatement(i, e) /\ e.do = "deleteValue"
  BY <1>7, <1>9 DEF OwnStatement
<1>11. PICK s : s = <<SetVersion(i, t.root[i].version + 1, 0)>>
  OBVIOUS
<1>12. q = p \o s
  <2>1. q = removeFieldValues(op, i)
    BY <1>1 DEF Statements
  <2>2. Each(op.tags, LAMBDA k : [do |-> "deleteValue", fk |-> i, value |-> op.tags[k]]) = p
    BY <1>2 DEF Each
  <2>3. removeFieldValues(op, i) = p \o s
    BY <1>4, <1>11, <2>2, ZenonT(30) DEF removeFieldValues
  <2> QED
    BY <2>1, <2>3
<1>13. ValsAfter(t, Elements(p), i) = NewVals(op, t, i)
  <2>1. NewVals(op, t, i) = {x \in PairsOf(t.vals, i) : \A j \in DOMAIN op.tags : op.tags[j] # x[2]}
    BY DEF NewVals
  <2>2. {e \in Elements(p) : e.do \in {"insertValue", "replaceValue"}} = {}
    BY <1>10
  <2>3. PICK left : left = {v \in t.vals : \A e \in Elements(p) : e.do # "replaceValue" /\ (e.do = "deleteValue" => e.value # v.value)}
    OBVIOUS
  <2>4. left = {v \in t.vals : \A j \in DOMAIN op.tags : op.tags[j] # v.value}
    BY <1>6, <1>7, <1>9, <1>10, <2>3
  <2>5. PairsOf(left, i) = {x \in PairsOf(t.vals, i) : \A j \in DOMAIN op.tags : op.tags[j] # x[2]}
    BY <2>4 DEF PairsOf
  <2>6. ValsAfter(t, Elements(p), i) = PairsOf(left, i) \union {}
    BY <2>2, <2>3 DEF ValsAfter
  <2> QED
    BY <2>1, <2>5, <2>6
<1>14. q = p \o <<SetVersion(i, t.root[i].version + 1, IF op.kind = "update" THEN op.value ELSE 0)>>
  BY <1>11, <1>12
<1>15. SentWell(op, t, q, i)
  BY <1>8, <1>10, <1>13, <1>14, VersionLast DEF ChangingValues
<1> QED
  BY <1>1, <1>15

(* Every operation on one entity sends what it is to do.                   *)
LEMMA OneSent ==
  ASSUME NEW op, NEW t, NEW i, Ready(op, t, i)
  PROVE  SentWell(op, t, Statements(op, i), i)
<1>1. op.kind \in ChangingOne
  BY DEF Ready
<1> QED
  BY <1>1, CreateSent, AddSubsSent, AddLinksSent, RemoveSubsSent, RemoveLinksSent, UpdateSent, AddValuesSent,
     RemoveValuesSent
  DEF ChangingOne, ChangingValues, AddingOrRemovingSubs, AddingSubs, RemovingSubs
----------------------------------------------------------------------------
(* Steps                                                                   *)

(* The entity that an operation changes is stored, unless it is created.   *)
LEMMA SeenExists ==
  ASSUME EntityInv, ContentInv, phase \in {"send", "run", "posthook", "commit"}, call.kind \in ChangingOne, seen # 0
  PROVE  /\ call \in Ops /\ seen \in EntityIds
         /\ call.kind = "create" <=> tables.root[seen] = Absent
         /\ call.kind # "create" => /\ IsRow(tables.root[seen])
                                    /\ seen \in First(Where(tables, call, user))
<1>1. call \in Ops /\ seen \in EntityIds
  BY DEF EntityInv, TypeInv, TypeOK, PhaseInv
<1>2. call.kind = "create" => tables.root[seen] = Absent
  BY DEF ContentInv, ReadInv
<1>3. ASSUME call.kind # "create"
      PROVE  seen \in First(Where(tables, call, user)) /\ tables.root[seen] # Absent
  <2>1. seen \in First(Where(tables, call, user))
    BY <1>3 DEF ContentInv, ReadInv
  <2> QED
    BY <2>1 DEF First, Where
<1>4. tables.root[seen] # Absent => IsRow(tables.root[seen])
  BY <1>1 DEF ContentInv, RowIdsInv, Numbered, IsRow
<1> QED
  BY <1>1, <1>2, <1>3, <1>4

(* The next statement of an operation on one entity.                       *)
LEMMA ExecuteOne ==
  ASSUME EntityInv, ContentInv, Execute, phase = "run", call.kind \in ChangingOne, seen # 0
  PROVE  /\ Progressed(call, tables, work', queue', serial', seen, TRUE)
         /\ Numbered(work', serial')
<1>1. /\ queue # <<>> /\ ~NotFound(work, Head(queue)) /\ work' = Effect(work, Head(queue))
      /\ queue' = Tail(queue) \o Then(Head(queue)) /\ serial' = After(serial, Head(queue))
  BY DEF Execute, After
<1>2. IsSequence(queue) /\ \A k \in 1..Len(queue) : Fits(call, seen, queue[k])
  BY DEF EntityInv, RunInv
<1> DEFINE s == queue[1]
           E == Elements(queue)
           R == Elements(Tail(queue))
           F == Elements(queue')
<1>3. /\ Len(queue) \in Nat \ {0} /\ Head(queue) = s /\ Sent(queue, queue')
      /\ Answers(s, E, R, F)
      /\ \A e \in R : \E k \in 2..Len(queue) : e = queue[k]
  BY <1>1, <1>2, QueueStep
<1>4. /\ Progressed(call, tables, work, queue, serial, seen, TRUE)
      /\ Numbered(tables, serial) /\ Numbered(work, serial) /\ serial.sub # 0
  BY DEF ContentInv, WorkInv, Advanced, RowIdsInv
<1>5. Underway(call, tables, work, E, seen) /\ Orderly(call, work, queue, serial, seen)
  BY <1>4 DEF Progressed
<1>6. /\ call \in Ops /\ seen \in EntityIds
      /\ call.kind # "create" => IsRow(tables.root[seen])
  BY SeenExists
<1>7. \A e \in E : e.do \in StatementsOf(call.kind)
  BY <1>2, SequenceFacts DEF Fits, Elements
<1>8. s \in E /\ 1 \in 1..Len(queue)
  BY <1>2, <1>3, SequenceFacts DEF Elements
<1>9. Compatible(E) /\ s.do \in OneStatements
  BY <1>7, <1>8, KindsCompatible DEF Compatible
<1>10. InsertsLast(s, R)
  <2> SUFFICES ASSUME s.do = "insertValue", NEW e \in R PROVE e.do # "replaceValue"
    BY DEF InsertsLast
  <2>1. PICK k \in 2..Len(queue) : e = queue[k]
    BY <1>3
  <2>2. k \in 1..Len(queue) /\ 1 < k
    BY <1>3
  <2> QED
    BY <1>5, <1>8, <2>1, <2>2 DEF Orderly
<1>11. WellFormed(work) /\ LinkRows(work.links)
  BY <1>4 DEF EntityInv, RowsInv, Numbered, LinkRows
<1>12. OwnStatement(seen, s)
  BY <1>5, <1>8 DEF Underway, About, OwnStatement
<1>13. work' = Effect(work, s) /\ serial' = After(serial, s)
  BY <1>1, <1>3
<1>14. Insertable(work, s)
  <2>1. s.do = "insertSub" => s.id \in Nat /\ s.id < serial.sub
    <3>1. s.do = "insertSub" => s.id \in Nat /\ s.id < serial.sub + 1 - 1
      BY <1>5, <1>8 DEF Orderly
    <3> QED
      BY <1>4, <3>1 DEF Numbered
  <2>2. s.do = "insertValue" => s.id \in Nat
    BY <1>5, <1>8 DEF Orderly
  <2>3. s.do = "updateRoot" => Exists(work, s.fk)
    <3>1. s.do = "updateRoot" => call.kind \in Growing
      BY <1>7, <1>8, StatementsOfKinds
      DEF ChangingOne, ChangingValues, AddingOrRemovingSubs, AddingSubs, RemovingSubs, Growing
    <3>2. call.kind \in Growing => Exists(work, seen)
      BY DEF EntityInv, RowsInv, HasEntity
    <3>3. s.do = "updateRoot" => s.fk = seen
      BY <1>2, <1>8, <3>1 DEF Fits
    <3> QED
      BY <3>1, <3>2, <3>3
  <2> QED
    BY <2>1, <2>2, <2>3 DEF Insertable
<1> HIDE DEF s, E, R, F
<1>15. Rewritten(work, s, work')
  BY <1>9, <1>11, <1>13, EffectFields
<1>16. Underway(call, tables, work', F, seen)
  BY <1>3, <1>4, <1>5, <1>6, <1>7, <1>10, <1>11, <1>13, UnderwayStep
<1>17. Numbered(work', serial')
  BY <1>4, <1>9, <1>11, <1>13, <1>14, <1>15, NumberedStatement
<1>18. Orderly(call, work', queue', serial', seen)
  <2>1. PICK w, p : w = work' /\ p = queue'
    OBVIOUS
  <2>2. /\ Sent(queue, p) /\ queue[1].do \in OneStatements /\ Rewritten(work, queue[1], w)
        /\ IsSequence(queue) /\ queue # <<>> /\ Orderly(call, work, queue, serial, seen)
        /\ Numbered(work, serial)
    BY <1>1, <1>2, <1>3, <1>4, <1>5, <1>9, <1>15, <2>1 DEF s
  <2>3. Orderly(call, w, p, After(serial, queue[1]), seen)
    BY <2>2, OrderlyStep
  <2> QED
    BY <1>13, <2>1, <2>3 DEF s
<1>19. ASSUME call.kind # "addSubsByFilters" PROVE SubIdsDiffer(work')
  <2>1. SubIdsDiffer(work)
    BY <1>4, <1>19 DEF Progressed
  <2>2. PICK w : w = work'
    OBVIOUS
  <2>3. /\ IsSequence(queue) /\ queue # <<>> /\ Orderly(call, work, queue, serial, seen)
        /\ OwnStatement(seen, queue[1]) /\ queue[1].do \in OneStatements /\ Rewritten(work, queue[1], w)
    BY <1>1, <1>2, <1>5, <1>9, <1>12, <1>15, <2>2 DEF s
  <2>4. SubIdsDiffer(w)
    BY <1>19, <2>1, <2>3, SubIdsStep
  <2> QED
    BY <2>2, <2>4
<1>20. ASSUME call.kind = "addSubsByFilters" PROVE call.values # <<>> /\ NeverRead(queue', serial')
  <2>1. call.values # <<>> /\ NeverRead(queue, serial)
    BY <1>1, <1>4, <1>20 DEF Progressed
  <2>2. \A k \in 1..Len(queue) : queue[k].do \in {"insertSub", "selectSub"}
    BY <1>2, <1>20, StatementsOfKinds DEF Fits
  <2>3. ~NotFound(work, queue[1])
    BY <1>1, <1>3 DEF s
  <2>4. PICK p : p = queue'
    OBVIOUS
  <2>5. /\ Sent(queue, p) /\ IsSequence(queue) /\ queue # <<>> /\ Orderly(call, work, queue, serial, seen)
        /\ Numbered(work, serial) /\ serial.sub # 0
    BY <1>1, <1>2, <1>3, <1>4, <1>5, <2>4
  <2>6. NeverRead(p, After(serial, queue[1]))
    BY <1>20, <2>1, <2>2, <2>3, <2>5, NeverReadStep
  <2> QED
    BY <1>13, <2>1, <2>4, <2>6 DEF s
<1> QED
  BY <1>16, <1>17, <1>18, <1>19, <1>20 DEF Progressed, F

(* The one statement of a change of all entities that match.               *)
LEMMA ExecuteMany ==
  ASSUME EntityInv, ContentInv, Execute, phase = "run", call.kind \in UpdatingMany
  PROVE  /\ ManyDone(call, tables, work', queue')
         /\ Numbered(work', serial')
<1>1. /\ queue # <<>> /\ work' = Effect(work, Head(queue))
      /\ queue' = Tail(queue) \o Then(Head(queue)) /\ serial' = After(serial, Head(queue))
  BY DEF Execute, After
<1>2. IsSequence(queue)
  BY DEF EntityInv, RunInv
<1>3. Head(queue) = queue[1] /\ Sent(queue, queue')
  BY <1>1, <1>2, QueueStep
<1>4. ManyDone(call, tables, work, queue) /\ Numbered(work, serial) /\ WellFormed(work)
  BY DEF ContentInv, WorkInv, Advanced, RowIdsInv, EntityInv, RowsInv
<1>5. PICK next : next = After(serial, queue[1])
  OBVIOUS
<1>6. Numbered(work, next)
  BY <1>4, <1>5, AfterFacts
<1>7. work' = Effect(work, queue[1])
  BY <1>1, <1>3
<1>8. ManyDone(call, tables, work', queue') /\ Numbered(work', next)
  BY <1>1, <1>2, <1>3, <1>4, <1>6, <1>7, ManyStep
<1> QED
  BY <1>1, <1>3, <1>5, <1>8

(* The next statement of a deletion.                                       *)
LEMMA ExecuteDelete ==
  ASSUME EntityInv, ContentInv, Execute, phase = "run", call.kind \in Deleting
  PROVE  /\ DeleteDone(call, tables, work', queue')
         /\ Numbered(work', serial')
<1>1. /\ queue # <<>> /\ work' = Effect(work, Head(queue))
      /\ queue' = Tail(queue) \o Then(Head(queue)) /\ serial' = After(serial, Head(queue))
  BY DEF Execute, After
<1>2. IsSequence(queue) /\ DeletesLeft(call, DeletesAs(call, account), work, queue)
  BY DEF EntityInv, RunInv
<1>3. Head(queue) = queue[1] /\ Sent(queue, queue')
  BY <1>1, <1>2, QueueStep
<1>4. /\ DeleteDone(call, tables, work, queue) /\ Numbered(work, serial) /\ WellFormed(work)
      /\ WellFormed(tables)
  BY DEF ContentInv, WorkInv, Advanced, RowIdsInv, EntityInv, RowsInv
<1>5. PICK next : next = After(serial, queue[1])
  OBVIOUS
<1>6. Numbered(work, next)
  BY <1>4, <1>5, AfterFacts
<1>7. work' = Effect(work, queue[1])
  BY <1>1, <1>3
<1>8. account = user
  <2>1. account = IF ClearsAccount THEN NoAccount ELSE user
    BY DEF EntityInv, AccountInv
  <2>2. ~ClearsAccount
    BY DEF ClearsAccount, AddingOrRemovingSubs, AddingSubs, RemovingSubs, Deleting, DeletingOne
  <2> QED
    BY <2>1, <2>2
<1>9. DeleteDone(call, tables, work', queue') /\ Numbered(work', next)
  BY <1>1, <1>2, <1>3, <1>4, <1>6, <1>7, <1>8, DeleteStep
<1> QED
  BY <1>1, <1>3, <1>5, <1>9
----------------------------------------------------------------------------
(* What is committed                                                       *)

(* The values of the array field that an operation leaves.                 *)
NewTags(op, t, i) ==
  CASE op.kind = "create" -> op.tags
    [] op.kind = "update" /\ op.tags # <<>> -> op.tags
    [] op.kind = "addValues" -> ValuesOf(t, i) \o op.tags
    [] op.kind = "removeValues" -> Without(ValuesOf(t, i), op.tags)
    [] OTHER -> ValuesOf(t, i)

(* An added value has the greatest id.                                     *)
AddsLast(op, t, i) ==
  op.kind = "addValues" => /\ Len(op.tags) <= 1
                           /\ \A v \in t.vals : v.fk = i => v.id < Len(ValuesOf(t, i))

(* The rows of values that an operation leaves are listed as the values it *)
(* is to leave.                                                            *)
LEMMA NewValsFacts ==
  ASSUME NEW op \in Ops, NEW t, NEW next, Numbered(t, next), IdsDiffer(t), NoOrphansIn(t), NEW i,
         op.kind = "create" => t.root[i] = Absent, AddsLast(op, t, i)
  PROVE  IsArray(NewVals(op, t, i)) /\ Listed(NewVals(op, t, i)) = NewTags(op, t, i)
<1> DEFINE old == PairsOf(t.vals, i)
<1>1. IsArray(old) /\ ValuesOf(t, i) = Listed(old)
  BY ValuesAreArray, ValuesOfIs
<1>2. /\ DOMAIN op.tags = 1..Len(op.tags) /\ Len(op.tags) \in Nat /\ IsSequence(op.tags)
      /\ op.tags = <<>> <=> Len(op.tags) = 0
  BY OpValues
<1>3. CASE op.kind = "create"
  <2>1. old = {}
    BY <1>3, NewIsEmpty
  <2>2. NewVals(op, t, i) = Indexed(op.tags)
    BY <1>3, <2>1 DEF NewVals
  <2> QED
    BY <1>2, <1>3, <2>2, ListedIndexed DEF NewTags
<1>4. CASE op.kind = "update" /\ op.tags # <<>>
  <2>1. NewVals(op, t, i) = Indexed(op.tags) /\ NewTags(op, t, i) = op.tags
    BY <1>4 DEF NewVals, NewTags
  <2> QED
    BY <1>2, <2>1, ListedIndexed
<1>5. CASE op.kind = "addValues"
  <2>1. PICK m : m = Len(ValuesOf(t, i))
    OBVIOUS
  <2>2. m \in Nat /\ IsSequence(Listed(old))
    BY <1>1, <2>1, ArrayFacts
  <2>3. ASSUME NEW p \in old PROVE p[1] < m
    <3>1. PICK v \in t.vals : v.fk = i /\ p = <<v.id, v.value>>
      BY DEF PairsOf
    <3> QED
      BY <1>5, <2>1, <3>1 DEF AddsLast
  <2>4. NewVals(op, t, i) = old \union {<<m, op.tags[k]>> : k \in DOMAIN op.tags}
    BY <1>5, <2>1 DEF NewVals
  <2>5. NewTags(op, t, i) = Listed(old) \o op.tags
    BY <1>1, <1>5 DEF NewTags
  <2>6. Len(op.tags) = 0 \/ Len(op.tags) = 1
    <3>1. PICK n : n = Len(op.tags)
      OBVIOUS
    <3>2. n <= 1
      BY <1>5, <3>1 DEF AddsLast
    <3>3. n \in Nat
      BY <1>2, <3>1
    <3>4. n = 0 \/ n = 1
      BY <3>2, <3>3
    <3> QED
      BY <3>1, <3>4
  <2> HIDE DEF old
  <2>7. CASE Len(op.tags) = 0
    <3>1. op.tags = <<>> /\ NewVals(op, t, i) = old
      BY <1>2, <2>4, <2>7
    <3>2. Listed(old) \o <<>> = Listed(old)
      BY <2>2 DEF IsSequence
    <3> QED
      BY <1>1, <2>5, <3>1, <3>2
  <2>8. CASE Len(op.tags) = 1
    <3>1. PICK v : v = op.tags[1]
      OBVIOUS
    <3>2. DOMAIN op.tags = {1}
      BY <1>2, <2>8
    <3>3. NewVals(op, t, i) = old \union {<<m, v>>}
      BY <2>4, <3>1, <3>2
    <3>4. op.tags = <<v>>
      BY <1>2, <2>8, <3>1 DEF IsSequence
    <3>5. Listed(old) \o <<v>> = Append(Listed(old), v)
      BY <2>2 DEF IsSequence
    <3>6. /\ Listed(old \union {<<m, v>>}) = Append(Listed(old), v)
          /\ IsArray(old \union {<<m, v>>})
      BY <1>1, <2>2, <2>3, ListedAppend
    <3> QED
      BY <2>5, <3>3, <3>4, <3>5, <3>6
  <2> QED
    BY <2>6, <2>7, <2>8
<1>6. CASE op.kind = "removeValues"
  <2>1. PICK kept : kept = {p \in old : \A j \in DOMAIN op.tags : op.tags[j] # p[2]}
    OBVIOUS
  <2>2. NewVals(op, t, i) = kept /\ NewTags(op, t, i) = Without(Listed(old), op.tags)
    BY <1>1, <1>6, <2>1 DEF NewVals, NewTags
  <2> HIDE DEF old
  <2>3. Listed(kept) = Without(Listed(old), op.tags) /\ IsArray(kept)
    BY <1>1, <2>1, ListedWithout
  <2> QED
    BY <2>2, <2>3
<1>7. CASE op.kind \notin {"create", "addValues", "removeValues"} /\ ~(op.kind = "update" /\ op.tags # <<>>)
  <2>1. NewVals(op, t, i) = old /\ NewTags(op, t, i) = ValuesOf(t, i)
    BY <1>7 DEF NewVals, NewTags
  <2> QED
    BY <1>1, <2>1
<1> QED
  BY <1>3, <1>4, <1>5, <1>6, <1>7

(* Values of every entity are arrays, if ids tell them apart.              *)
LEMMA ArraysDiffer ==
  ASSUME NEW t, SubIdsDiffer(t), \A v \in t.vals : IsArray(PairsOf(t.vals, v.fk))
  PROVE  IdsDiffer(t)
<1>1. ASSUME NEW v \in t.vals, NEW w \in t.vals, v.fk = w.fk, v.id = w.id
      PROVE  v.value = w.value
  <2>1. PICK p, q : p = <<v.id, v.value>> /\ q = <<w.id, w.value>>
    OBVIOUS
  <2>2. p \in PairsOf(t.vals, v.fk) /\ q \in PairsOf(t.vals, v.fk)
    BY <1>1, <2>1 DEF PairsOf
  <2>3. p[1] = q[1] => p[2] = q[2]
    BY <2>2 DEF IsArray
  <2> QED
    BY <1>1, <2>1, <2>3
<1> QED
  BY <1>1 DEF IdsDiffer, SubIdsDiffer

(* Rows of one entity only differ: the others are the same entities.       *)
LEMMA OthersSame ==
  ASSUME NEW t, NEW u, NEW i, OnlyOf(t, u, i), NEW j \in EntityIds \ {i}
  PROVE  EntityIn(u, j) = EntityIn(t, j)
<1>1. u.root[j] = t.root[j]
  BY DEF OnlyOf
<1>2. ASSUME NEW a, NEW b, Others(a, i) = Others(b, i) PROVE {r \in a : r.fk = j} = {r \in b : r.fk = j}
  BY <1>2 DEF Others
<1>3. /\ {r \in u.subs : r.fk = j} = {r \in t.subs : r.fk = j}
      /\ {r \in u.vals : r.fk = j} = {r \in t.vals : r.fk = j}
      /\ {r \in u.links : r.fk = j} = {r \in t.links : r.fk = j}
  BY <1>2 DEF OnlyOf
<1>4. PairsOf(u.subs, j) = PairsOf(t.subs, j) /\ PairsOf(u.vals, j) = PairsOf(t.vals, j) /\ LinksOf(u, j) = LinksOf(t, j)
  BY <1>3 DEF PairsOf, LinksOf
<1> QED
  BY <1>1, <1>4 DEF EntityIn

(* What a transaction of an operation on one entity has written.           *)
LEMMA CommittedOne ==
  ASSUME EntityInv, ContentInv, phase = "commit", call.kind \in ChangingOne, seen # 0
  PROVE  /\ IdsDiffer(work)
         /\ \A j \in EntityIds \ {seen} : EntityIn(work, j) = EntityIn(tables, j)
         /\ EntityIn(work, seen) = Entity(NewRoot(call, tables, seen), NewSubs(call, tables, seen),
                                          NewVals(call, tables, seen), NewLinks(call, tables, seen))
         /\ AddsLast(call, tables, seen)
<1>1. Progressed(call, tables, work, queue, serial, seen, FALSE) /\ queue = <<>>
  BY DEF ContentInv, WorkInv, Advanced, EntityInv, TransactionInv
<1>2. Elements(queue) = {}
  BY <1>1 DEF Elements
<1>3. Underway(call, tables, work, {}, seen)
  BY <1>1, <1>2 DEF Progressed
<1>4. SubIdsDiffer(work)
  BY <1>1 DEF Progressed
<1>5. /\ OnlyOf(tables, work, seen) /\ work.root[seen] = NewRoot(call, tables, seen)
      /\ PairsOf(work.subs, seen) = NewSubs(call, tables, seen)
      /\ PairsOf(work.vals, seen) = NewVals(call, tables, seen)
      /\ LinksOf(work, seen) = NewLinks(call, tables, seen)
  <2>1. SubsAfter(work, {}, seen) = PairsOf(work.subs, seen)
    BY SubsUntouched
  <2>2. ValsAfter(work, {}, seen) = PairsOf(work.vals, seen)
    BY ValsUntouched
  <2>3. LinksAfter(work, {}, seen) = LinksOf(work, seen)
    BY LinksUntouched
  <2> QED
    BY <1>3, <2>1, <2>2, <2>3 DEF Underway
<1>6. /\ call \in Ops /\ seen \in EntityIds
      /\ call.kind = "create" <=> tables.root[seen] = Absent
      /\ call.kind # "create" => seen \in First(Where(tables, call, user))
  BY SeenExists
<1>7. /\ Numbered(tables, serial) /\ IdsDiffer(tables) /\ NoOrphansIn(tables) /\ ~Defective(call)
  BY <1>6, OpsAreCalls DEF ContentInv, RowIdsInv, AskedInv, EntityInv, RowsInv
<1>8. AddsLast(call, tables, seen)
  <2> SUFFICES ASSUME call.kind = "addValues"
               PROVE  Len(call.tags) <= 1 /\ \A v \in tables.vals : v.fk = seen => v.id < Len(ValuesOf(tables, seen))
    BY DEF AddsLast
  <2>1. /\ ~(Len(call.tags) > 1)
        /\ \A v \in tables.vals : v.fk = seen => ~(v.id >= Len(ValuesOf(tables, seen)))
    BY <1>6, <1>7 DEF Defective, First
  <2>2. Len(call.tags) \in Nat
    BY <1>6, OpValues
  <2>3. Len(ValuesOf(tables, seen)) \in Nat
    BY <1>7, ValuesAreArray, ValuesOfIs, ArrayFacts
  <2>4. \A v \in tables.vals : v.id \in Nat
    BY <1>7 DEF Numbered
  <2> QED
    BY <2>1, <2>2, <2>3, <2>4
<1>9. IsArray(NewVals(call, tables, seen))
  BY <1>6, <1>7, <1>8, NewValsFacts
<1>10. ASSUME NEW v \in work.vals PROVE IsArray(PairsOf(work.vals, v.fk))
  <2>1. CASE v.fk = seen
    BY <1>5, <1>9, <2>1
  <2>2. CASE v.fk # seen
    <3>1. PairsOf(work.vals, v.fk) = PairsOf(tables.vals, v.fk)
      BY <1>5, <2>2 DEF OnlyOf, Others, PairsOf
    <3> QED
      BY <1>7, <3>1, ValuesAreArray
  <2> QED
    BY <2>1, <2>2
<1>11. IdsDiffer(work)
  BY <1>4, <1>10, ArraysDiffer
<1>12. \A j \in EntityIds \ {seen} : EntityIn(work, j) = EntityIn(tables, j)
  BY <1>5, OthersSame
<1>13. EntityIn(work, seen) = Entity(NewRoot(call, tables, seen), NewSubs(call, tables, seen),
                                     NewVals(call, tables, seen), NewLinks(call, tables, seen))
  BY <1>5 DEF EntityIn
<1> QED
  BY <1>8, <1>11, <1>12, <1>13

(* What a transaction that changes all matching entities has written.      *)
LEMMA CommittedMany ==
  ASSUME EntityInv, ContentInv, phase = "commit", call.kind \in UpdatingMany
  PROVE  /\ IdsDiffer(work)
         /\ work.subs = tables.subs /\ work.vals = tables.vals /\ work.links = tables.links
         /\ \A i \in EntityIds : work.root[i] =
              IF i \in Where(tables, call, user)
              THEN Changed(tables.root[i], tables.root[i].version + 1, call.value) ELSE tables.root[i]
<1>1. queue = <<>> /\ WellFormed(tables) /\ IdsDiffer(tables)
  BY DEF EntityInv, TransactionInv, RowsInv, ContentInv, RowIdsInv
<1>2. PICK s : s = [do |-> "updateRoots", op |-> call, as |-> user]
  OBVIOUS
<1>3. work = Effect(tables, s) /\ s.do = "updateRoots" /\ s.op = call /\ s.as = user
  BY <1>1, <1>2 DEF ContentInv, WorkInv, Advanced, ManyDone
<1>4. /\ \A i \in EntityIds : work.root[i] = IF i \in Where(tables, s.op, s.as)
                              THEN Changed(tables.root[i], tables.root[i].version + 1, s.op.value) ELSE tables.root[i]
      /\ work.subs = tables.subs /\ work.vals = tables.vals /\ work.links = tables.links
  BY <1>1, <1>3, ManyEffect
<1>5. IdsDiffer(work)
  BY <1>1, <1>4 DEF IdsDiffer
<1> QED
  BY <1>3, <1>4, <1>5

(* A deletion concerns the entities that the caller may delete.            *)
LEMMA DeletesOwned ==
  ASSUME EntityInv, ContentInv, phase = "commit", call.kind \in Deleting
  PROVE  /\ Where(tables, call, DeletesAs(call, user)) = Where(tables, call, user)
         /\ \A i \in EntityIds : i \in Targets(tables, call, DeletesAs(call, user)) =>
              i \in Where(tables, call, user) \/ tables.root[i] = Absent
<1>1. call \in Ops /\ call # NoCall /\ ~Defective(call)
  BY OpsAreCalls DEF EntityInv, TypeInv, TypeOK, PhaseInv, ContentInv, AskedInv
<1>2. CASE call.kind = "delete"
  <2>1. call.id # 0 /\ call.filter = 0 /\ DeletesAs(call, user) = NoAccount
    BY <1>1, <1>2, OpsAssumption DEF DeletesAs
  <2>2. user # NoAccount => Where(tables, call, user) # {}
    BY <1>2 DEF ContentInv, ReadInv
  <2>3. Targets(tables, call, NoAccount) = {call.id}
    BY <1>2 DEF Targets
  <2>4. \A i \in Where(tables, call, user) : i = call.id
    BY <2>1 DEF Where
  <2>5. Where(tables, call, user) \subseteq Where(tables, call, NoAccount)
    BY DEF Where
  <2>6. ASSUME NEW i \in Where(tables, call, NoAccount) PROVE i \in Where(tables, call, user)
    <3>1. i = call.id
      BY <2>1, <2>6 DEF Where
    <3>2. CASE user = NoAccount
      BY <2>6, <3>2
    <3>3. CASE user # NoAccount
      BY <2>2, <2>4, <3>1, <3>3
    <3> QED
      BY <3>2, <3>3
  <2>7. ASSUME NEW i \in EntityIds, i = call.id, tables.root[i] # Absent PROVE i \in Where(tables, call, NoAccount)
    BY <2>1, <2>7 DEF Where
  <2> QED
    BY <2>1, <2>3, <2>5, <2>6, <2>7
<1>3. CASE call.kind = "deleteAll"
  <2>1. call.id = 0 /\ call.filter = 0 /\ user = NoAccount /\ DeletesAs(call, user) = user
    BY <1>1, <1>3, OpsAssumption DEF DeletesAs, Defective
  <2> QED
    BY <2>1 DEF Where
<1>4. CASE call.kind \notin {"delete", "deleteAll"}
  BY <1>4 DEF DeletesAs, Targets
<1> QED
  BY <1>2, <1>3, <1>4

(* What the transaction of a deletion has written.                         *)
LEMMA CommittedDelete ==
  ASSUME EntityInv, ContentInv, phase = "commit", call.kind \in Deleting
  PROVE  /\ IdsDiffer(work)
         /\ \A i \in Where(tables, call, user) : work.root[i] = Absent
         /\ \A i \in EntityIds \ Where(tables, call, user) : EntityIn(work, i) = EntityIn(tables, i)
<1>1. queue = <<>> /\ WellFormed(tables) /\ IdsDiffer(tables) /\ NoOrphansIn(tables) /\ NoOrphansIn(work)
  BY DEF EntityInv, TransactionInv, RowsInv, ContentInv, RowIdsInv
<1> DEFINE who == DeletesAs(call, user)
           ids == Targets(tables, call, who)
           gone == Where(tables, call, user)
           s == DeleteWhere("deleteRoots", call, who)
           u == Effect(tables, s)
<1>2. /\ work.root = u.root
      /\ Beside(work.subs, ids) = Beside(tables.subs, ids)
      /\ Beside(work.vals, ids) = Beside(tables.vals, ids)
      /\ Beside(work.links, ids) = Beside(tables.links, ids)
      /\ work.subs \subseteq tables.subs
  BY <1>1 DEF ContentInv, WorkInv, Advanced, DeleteDone
<1>3. /\ Where(tables, call, who) = gone
      /\ \A i \in EntityIds : i \in ids => i \in gone \/ tables.root[i] = Absent
  BY DeletesOwned
<1>4. \A i \in EntityIds : work.root[i] = IF i \in gone THEN Absent ELSE tables.root[i]
  <2>1. s.do = "deleteRoots" /\ s.op = call /\ s.as = who
    BY DEF DeleteWhere
  <2> HIDE DEF s, who, gone
  <2>2. Removes(tables, s, u)
    BY <1>1, <2>1, DeleteEffect
  <2>3. u.root = [i \in EntityIds |-> IF i \in gone THEN Absent ELSE tables.root[i]]
    BY <1>3, <2>1, <2>2 DEF Removes
  <2> QED
    BY <1>2, <2>3
<1> HIDE DEF ids, gone, s, u, who
<1>5. ASSUME NEW r \in work.subs \union work.vals \union work.links
      PROVE  r.fk \in EntityIds /\ r.fk \notin ids
  <2>1. r.fk \in EntityIds /\ work.root[r.fk] # Absent
    BY <1>1 DEF NoOrphansIn
  <2> QED
    BY <1>3, <1>4, <2>1
<1>6. /\ work.subs = Beside(tables.subs, ids)
      /\ work.vals = Beside(tables.vals, ids)
      /\ work.links = Beside(tables.links, ids)
  <2>1. Beside(work.subs, ids) = work.subs /\ Beside(work.vals, ids) = work.vals /\ Beside(work.links, ids) = work.links
    BY <1>5 DEF Beside
  <2> QED
    BY <1>2, <2>1
<1>7. IdsDiffer(work)
  BY <1>1, <1>6 DEF IdsDiffer, Beside
<1>8. ASSUME NEW i \in EntityIds \ gone PROVE EntityIn(work, i) = EntityIn(tables, i)
  <2>1. work.root[i] = tables.root[i]
    BY <1>4
  <2>2. CASE tables.root[i] = Absent
    BY <2>1, <2>2 DEF EntityIn, Entity
  <2>3. CASE tables.root[i] # Absent
    <3>1. i \notin ids
      BY <1>3, <2>3
    <3>2. /\ {r \in work.subs : r.fk = i} = {r \in tables.subs : r.fk = i}
          /\ {r \in work.vals : r.fk = i} = {r \in tables.vals : r.fk = i}
          /\ {r \in work.links : r.fk = i} = {r \in tables.links : r.fk = i}
      BY <1>6, <3>1 DEF Beside
    <3>3. /\ PairsOf(work.subs, i) = PairsOf(tables.subs, i)
          /\ PairsOf(work.vals, i) = PairsOf(tables.vals, i)
          /\ LinksOf(work, i) = LinksOf(tables, i)
      BY <3>2 DEF PairsOf, LinksOf
    <3> QED
      BY <2>1, <3>3 DEF EntityIn
  <2> QED
    BY <2>2, <2>3
<1>9. \A i \in gone : work.root[i] = Absent
  <2>1. gone \subseteq EntityIds
    BY DEF gone, Where
  <2> QED
    BY <1>4, <2>1
<1> QED
  BY <1>7, <1>8, <1>9 DEF gone

(* Ids tell the rows that are committed apart.                             *)
LEMMA CommittedIds ==
  ASSUME EntityInv, ContentInv, phase = "commit"
  PROVE  IdsDiffer(work)
<1>1. call \in Ops /\ call.kind \in Kinds
  BY OpsAreCalls DEF EntityInv, TypeInv, TypeOK, PhaseInv
<1>2. IdsDiffer(tables)
  BY DEF ContentInv, RowIdsInv
<1>3. CASE call.kind \in ChangingOne /\ seen # 0
  BY <1>3, CommittedOne
<1>4. CASE call.kind \in UpdatingMany
  BY <1>4, CommittedMany
<1>5. CASE call.kind \in Deleting
  BY <1>5, CommittedDelete
<1>6. CASE call.kind \in Queries \/ (call.kind \in ChangingOne /\ seen = 0)
  <2>1. work = tables
    BY <1>6 DEF ContentInv, WorkInv, Advanced
  <2> QED
    BY <1>2, <2>1
<1> QED
  BY <1>1, <1>3, <1>4, <1>5, <1>6 DEF Kinds, ChangingOne, UpdatingMany

(* Committed rows change when an operation commits, and only then.         *)
LEMMA TablesChange ==
  ASSUME EntityInv, ContentInv, ~Deviations, [Next]_vars
  PROVE  tables' = tables \/ (Commit /\ tx # "failed" /\ tables' = work)
<1>1. CASE Execute
  <2>1. phase \in {"run", "failing"} /\ call \in Ops
    BY <1>1, NextStatement DEF Execute
  <2>2. tx # "none"
    BY <2>1, OpsAreCalls DEF EntityInv, TypeInv, PhaseInv, Begun
  <2> QED
    BY <1>1, <2>2 DEF Execute
<1>2. CASE QueryFindsNothing
  BY <1>2 DEF QueryFindsNothing, ContentInv, WorkInv, Advanced
<1>3. CASE Commit
  BY <1>3 DEF Commit
<1> QED
  BY <1>1, <1>2, <1>3 DEF Next, DataStoreStep, Ask, Begin, BeginFails, CheckOwner, ReadEntity, ReadEntityFails,
    PreHooksPass, PreHookRefuses, InsertRoot, UpdateVersion, WriteFails, Send, ExecuteFails, ExecuteRollback,
    AllAnswered, ReadBackFails, PostHookPasses, PostHookRefuses, PostHookThrows, CommitFails, Query, QueryFails, vars

(* The numbers after a statement that inserts no numbered row.             *)
LEMMA AfterSame ==
  ASSUME NEW t, NEW next, Numbered(t, next), NEW s, s.do \notin {"insertSub", "insertValue"}
  PROVE  After(next, s) = next
<1>1. next \in [root : Nat, sub : Nat, val : Nat]
  BY DEF Numbered
<1> QED
  BY <1>1 DEF After

(* The version of the entity seen, before sub-entities or links change.    *)
LEMMA VersionWritten ==
  ASSUME EntityInv, ContentInv, UpdateVersion
  PROVE  work' = Prepared(call, tables, seen) /\ Numbered(work', serial)
<1> DEFINE s == SetVersion(seen, work.root[seen].version + 1, 0)
<1>1. phase = "version" /\ work' = Effect(work, s) /\ work = tables
  BY DEF UpdateVersion, ContentInv, WorkInv, Advanced
<1>2. /\ Exists(work, seen) /\ WellFormed(work) /\ Numbered(work, serial)
      /\ call.kind \in AddingOrRemovingSubs /\ call.kind # "create"
  BY <1>1 DEF EntityInv, RowsInv, HasEntity, TypeInv, PhaseInv, ContentInv, RowIdsInv, AddingOrRemovingSubs,
    AddingSubs, RemovingSubs
<1>3. s.do = "updateRoot" /\ s.fk = seen /\ s.value = 0 /\ s.version = work.root[seen].version + 1
  BY DEF SetVersion
<1> HIDE DEF s
<1>4. seen # 0 /\ seen \in EntityIds
  BY <1>2, ConstantsAssumption DEF Exists
<1>5. work' = [work EXCEPT !.root[seen] = Changed(@, s.version, @.value)]
  BY <1>1, <1>3 DEF Effect
<1>6. NewRoot(call, tables, seen) = Changed(work.root[seen], s.version, work.root[seen].value)
  <2>1. call.kind # "update"
    BY <1>2 DEF AddingOrRemovingSubs, AddingSubs, RemovingSubs
  <2> QED
    BY <1>1, <1>2, <1>3, <2>1 DEF NewRoot
<1>7. work' = Prepared(call, tables, seen)
  <2>1. Prepared(call, tables, seen) = [tables EXCEPT !.root[seen] = NewRoot(call, tables, seen)]
    BY <1>2, <1>4 DEF Prepared
  <2> QED
    BY <1>1, <1>5, <1>6, <2>1
<1>8. Rewritten(work, s, work')
  BY <1>1, <1>2, <1>3, EffectFields DEF OneStatements
<1>9. Insertable(work, s)
  BY <1>2, <1>3 DEF Insertable
<1>10. Numbered(work', After(serial, s))
  BY <1>2, <1>3, <1>8, <1>9, NumberedStatement DEF OneStatements
<1> QED
  BY <1>2, <1>3, <1>7, <1>10, AfterSame

(* The root row of a new entity.                                           *)
LEMMA RootInserted ==
  ASSUME EntityInv, ContentInv, InsertRoot
  PROVE  /\ seen' \in EntityIds /\ tables.root[seen'] = Absent
         /\ work' = Prepared(call, tables, seen')
         /\ Numbered(work', serial') /\ Numbered(tables, serial') /\ serial'.sub = serial.sub
<1> DEFINE row == [owner |-> call.owner, version |-> 1, value |-> call.value]
           i == serial.root
<1>1. /\ phase = "insert" /\ work' = [work EXCEPT !.root[i] = row] /\ seen' = i
      /\ serial' = [serial EXCEPT !.root = @ + 1] /\ work = tables
  BY DEF InsertRoot, ContentInv, WorkInv, Advanced
<1>2. /\ i \in EntityIds /\ call.kind = "create" /\ WellFormed(tables) /\ Numbered(tables, serial)
  BY <1>1 DEF EntityInv, TypeInv, PhaseInv, RowsInv, ContentInv, RowIdsInv
<1>3. serial \in [root : Nat, sub : Nat, val : Nat] /\ i \in Nat
  BY <1>2 DEF Numbered
<1>4. tables.root[i] = Absent
  <2>1. tables.root[i] # Absent => i < serial.root
    BY <1>2 DEF Numbered
  <2>2. ~(i < serial.root)
    BY <1>3
  <2> QED
    BY <2>1, <2>2
<1>5. serial' \in [root : Nat, sub : Nat, val : Nat] /\ serial'.root = i + 1 /\ serial'.sub = serial.sub
  BY <1>1, <1>3
<1>6. work' = Prepared(call, tables, i)
  <2>1. i # 0
    BY <1>2, ConstantsAssumption
  <2>2. NewRoot(call, tables, i) = row
    BY <1>2 DEF NewRoot
  <2> HIDE DEF row
  <2>3. Prepared(call, tables, i) = [tables EXCEPT !.root[i] = row]
    BY <1>2, <2>1, <2>2 DEF Prepared
  <2> QED
    BY <1>1, <2>3
<1>7. row = [owner |-> row.owner, version |-> row.version, value |-> row.value]
  OBVIOUS
<1> HIDE DEF row
<1>8. ASSUME NEW t, t.subs = tables.subs, t.vals = tables.vals, t.links = tables.links,
             \A j \in EntityIds : t.root[j] = tables.root[j] \/ (j = i /\ t.root[j] = row)
      PROVE  Numbered(t, serial')
  <2> DEFINE next == serial'
  <2>1. /\ next \in [root : Nat, sub : Nat, val : Nat] /\ next.root = i + 1 /\ next.sub = serial.sub
    BY <1>5
  <2>2. ASSUME NEW j \in EntityIds, t.root[j] # Absent
        PROVE  /\ j < i + 1
               /\ t.root[j] = [owner |-> t.root[j].owner, version |-> t.root[j].version, value |-> t.root[j].value]
    <3>0. j \in Nat /\ i \in Nat
      BY <1>3, ConstantsAssumption
    <3>1. CASE t.root[j] = tables.root[j]
      <4>1. j < i
        BY <1>2, <2>2, <3>1 DEF Numbered
      <4>2. tables.root[j] = [owner |-> tables.root[j].owner, version |-> tables.root[j].version, value |-> tables.root[j].value]
        BY <1>2, <2>2, <3>1 DEF Numbered
      <4> QED
        BY <3>0, <3>1, <4>1, <4>2
    <3>2. CASE j = i /\ t.root[j] = row
      BY <1>7, <3>0, <3>2
    <3> QED
      BY <1>8, <3>1, <3>2
  <2> HIDE DEF next
  <2>3. /\ \A r \in t.subs : r.row \in Nat /\ r.row < next.sub /\ r.id \in Nat /\ r.id < r.row
        /\ \A r, s \in t.subs : r.row = s.row => r = s
        /\ IsFiniteSet(t.vals) /\ \A v \in t.vals : v.row \in Nat /\ v.id \in Nat
        /\ \A l \in t.links : l = [fk |-> l.fk, link |-> l.link]
    BY <1>2, <1>8, <2>1 DEF Numbered
  <2>4. Numbered(t, next)
    BY <2>1, <2>2, <2>3 DEF Numbered
  <2> QED
    BY <2>4 DEF next
<1>9. Numbered(tables, serial')
  BY <1>8
<1>10. Numbered(work', serial')
  <2>1. DOMAIN tables = {"root", "subs", "vals", "links"} /\ tables.root = [j \in EntityIds |-> tables.root[j]]
    BY <1>2 DEF WellFormed
  <2>2. /\ work'.subs = tables.subs /\ work'.vals = tables.vals /\ work'.links = tables.links
        /\ work'.root = [tables.root EXCEPT ![i] = row]
    BY <1>1, <2>1
  <2>3. \A j \in EntityIds : work'.root[j] = tables.root[j] \/ (j = i /\ work'.root[j] = row)
    BY <2>1, <2>2
  <2> QED
    BY <1>8, <2>2, <2>3
<1> QED
  BY <1>1, <1>2, <1>4, <1>5, <1>6, <1>9, <1>10

(* The rows after a statement are numbered, too.                           *)
LEMMA ExecuteNumbered ==
  ASSUME EntityInv, ContentInv, Execute
  PROVE  Numbered(tables, serial') /\ Numbered(work', serial') /\ serial'.sub # 0
<1>1. /\ queue # <<>> /\ Head(queue) # Rollback /\ tx # "failed" /\ ~NotFound(work, Head(queue))
      /\ work' = Effect(work, Head(queue)) /\ serial' = After(serial, Head(queue))
  BY DEF Execute, After
<1>2. phase \in {"run", "failing"} /\ call \in Ops
  BY <1>1, NextStatement
<1>3. Numbered(tables, serial) /\ Numbered(work, serial) /\ serial.sub # 0
  BY DEF ContentInv, RowIdsInv
<1>4. PICK next : next = serial'
  OBVIOUS
<1>5. Numbered(tables, next) /\ Numbered(work, next) /\ next.sub # 0
  <2>1. /\ Numbered(tables, next) /\ Numbered(work, next)
        /\ next.sub = IF Head(queue).do = "insertSub" THEN serial.sub + 1 ELSE serial.sub
    BY <1>1, <1>3, <1>4, AfterFacts
  <2>2. serial.sub \in Nat
    BY <1>3 DEF Numbered
  <2> QED
    BY <1>3, <2>1, <2>2
<1>6. CASE phase = "failing"
  <2>1. work' = work
    BY <1>1, <1>6, QuietStatement
  <2> QED
    BY <1>4, <1>5, <2>1
<1>7. CASE phase = "run"
  <2>1. call.kind \in Kinds /\ call.kind \notin Queries
    BY <1>2, <1>7, OpsAreCalls DEF EntityInv, TypeInv, PhaseInv
  <2>2. call.kind \in ChangingOne => seen # 0
    BY <1>1, <1>7 DEF ContentInv, WorkInv, Advanced
  <2>3. Numbered(work', serial')
    BY <1>7, <2>1, <2>2, ExecuteOne, ExecuteMany, ExecuteDelete DEF Kinds, ChangingOne, UpdatingMany
  <2> QED
    BY <1>4, <1>5, <2>3
<1> QED
  BY <1>2, <1>6, <1>7

(* Every step keeps the rows numbered, and ids telling them apart.         *)
LEMMA RowIdsStep ==
  ASSUME EntityInv, ContentInv, ~Deviations, [Next]_vars
  PROVE  RowIdsInv'
<1>1. Numbered(tables, serial) /\ Numbered(work, serial) /\ serial.sub # 0 /\ IdsDiffer(tables)
  BY DEF ContentInv, RowIdsInv
<1>2. CASE serial' = serial /\ work' \in {work, tables} /\ tables' \in {tables}
  BY <1>1, <1>2 DEF RowIdsInv
<1>3. CASE InsertRoot
  <2>1. tables' = tables
    BY <1>3 DEF InsertRoot
  <2> QED
    BY <1>1, <1>3, <2>1, RootInserted DEF RowIdsInv
<1>4. CASE UpdateVersion
  <2>1. tables' = tables /\ serial' = serial
    BY <1>4 DEF UpdateVersion
  <2> QED
    BY <1>1, <1>4, <2>1, VersionWritten DEF RowIdsInv
<1>5. CASE Execute
  <2>1. tables' = tables
    BY <1>5, TablesChange DEF Execute, Commit, EntityInv, TransactionInv
  <2> QED
    BY <1>1, <1>5, <2>1, ExecuteNumbered DEF RowIdsInv
<1>6. CASE Commit
  <2>1. phase = "commit" /\ tables' \in {tables, work} /\ work' = tables' /\ serial' = serial
    BY <1>6 DEF Commit
  <2>2. IdsDiffer(work)
    BY <2>1, CommittedIds
  <2> QED
    BY <1>1, <2>1, <2>2 DEF RowIdsInv
<1>7. CASE QueryFindsNothing
  <2>1. tables' = tables /\ work' = work /\ serial' = serial
    BY <1>7 DEF QueryFindsNothing, ContentInv, WorkInv, Advanced
  <2> QED
    BY <1>2, <2>1
<1>8. CASE ExecuteRollback
  BY <1>2, <1>8 DEF ExecuteRollback
<1> QED
  BY <1>2, <1>3, <1>4, <1>5, <1>6, <1>7, <1>8
  DEF Next, DataStoreStep, Ask, Begin, BeginFails, CheckOwner, ReadEntity, ReadEntityFails,
    PreHooksPass, PreHookRefuses, WriteFails, Send, ExecuteFails,
    AllAnswered, ReadBackFails, PostHookPasses, PostHookRefuses, PostHookThrows, CommitFails, Query, QueryFails, vars

(* A call is answered with the user account it was asked with.             *)
LEMMA AskedStep ==
  ASSUME EntityInv, ContentInv, ~Deviations, [Next]_vars
  PROVE  AskedInv'
<1>1. ASSUME NEW op \in Ops, Ask(op) PROVE AskedInv'
  <2>1. /\ call' = op /\ op.as = user /\ ~Defective(op) /\ user' = user /\ tables' = tables
    BY <1>1 DEF Ask
  <2> QED
    BY <2>1 DEF AskedInv, Defective
<1>2. CASE call' = NoCall
  BY <1>2 DEF AskedInv
<1>3. CASE call' = call /\ user' = user /\ tables' = tables
  <2>1. call # NoCall => call.as = user /\ ~Defective(call)
    BY DEF ContentInv, AskedInv
  <2> QED
    BY <1>3, <2>1 DEF AskedInv, Defective
<1>4. call' \in {call, NoCall} \/ \E op \in Ops : Ask(op)
  BY DEF Next, DataStoreStep, Begin, BeginFails, CheckOwner, ReadEntity, ReadEntityFails,
    PreHooksPass, PreHookRefuses, InsertRoot, UpdateVersion, WriteFails, Send, Execute, ExecuteFails, ExecuteRollback,
    AllAnswered, ReadBackFails, PostHookPasses, PostHookRefuses, PostHookThrows, Commit, CommitFails, Query,
    QueryFindsNothing, QueryFails, vars, Fail, Answer
<1>5. user' = user
  BY DEF Next, DataStoreStep, Ask, Begin, BeginFails, CheckOwner, ReadEntity, ReadEntityFails,
    PreHooksPass, PreHookRefuses, InsertRoot, UpdateVersion, WriteFails, Send, Execute, ExecuteFails, ExecuteRollback,
    AllAnswered, ReadBackFails, PostHookPasses, PostHookRefuses, PostHookThrows, Commit, CommitFails, Query,
    QueryFindsNothing, QueryFails, vars
<1>6. tables' = tables \/ call' = NoCall
  BY TablesChange DEF Commit, Answer
<1> QED
  BY <1>1, <1>2, <1>3, <1>4, <1>5, <1>6

(* An operation has no answer, and no failed transaction, while it works.  *)
LEMMA AnswerStep ==
  ASSUME EntityInv, ContentInv, ~Deviations, [Next]_vars
  PROVE  AnswerInv'
<1>a. /\ phase \notin {"idle", "posthook", "commit", "failing"} => answer = NoAnswer /\ tx # "failed"
      /\ phase \in {"posthook", "commit"} => (tx = "failed" <=> answer = Failed)
      /\ phase = "idle" => tx = "none"
      /\ tx \in {"none", "active", "failed"}
      /\ Failed # NoAnswer
  BY DEF ContentInv, AnswerInv, EntityInv, TransactionInv, TypeInv, TypeOK, NoAnswer, Failed
<1>b. phase' \in {"idle", "failing"} => AnswerInv'
  BY DEF AnswerInv
<1>c. Fail => phase' \in {"idle", "failing"}
  BY DEF Fail, Answer
<1>1. ASSUME NEW op \in Ops, Ask(op) PROVE AnswerInv'
  BY <1>a, <1>1 DEF Ask, AnswerInv
<1>2. CASE Begin
  BY <1>a, <1>2 DEF Begin, AnswerInv
<1>3. CASE CheckOwner \/ ReadEntity \/ PreHooksPass \/ UpdateVersion
  BY <1>a, <1>b, <1>c, <1>3 DEF CheckOwner, ReadEntity, PreHooksPass, UpdateVersion, AnswerInv
<1>4. CASE BeginFails \/ PreHookRefuses \/ WriteFails \/ PostHookRefuses \/ PostHookThrows \/ Commit
            \/ CommitFails \/ QueryFindsNothing \/ QueryFails \/ ExecuteRollback
  BY <1>b, <1>c, <1>4 DEF BeginFails, PreHookRefuses, WriteFails, PostHookRefuses, PostHookThrows, Commit,
    CommitFails, QueryFindsNothing, QueryFails, ExecuteRollback, Answer
<1>5. CASE ReadEntityFails
  BY <1>b, <1>c, <1>5 DEF ReadEntityFails
<1>6. CASE InsertRoot \/ Send \/ AllAnswered \/ PostHookPasses
  BY <1>a, <1>6 DEF InsertRoot, Send, AllAnswered, PostHookPasses, AnswerInv
<1>7. CASE Execute
  BY <1>a, <1>b, <1>7, NextStatement DEF Execute, AnswerInv
<1>8. CASE ExecuteFails
  <2>1. phase' = "failing"
    BY <1>8, NextStatement DEF ExecuteFails, BranchFails
  <2> QED
    BY <1>b, <2>1
<1>9. CASE ReadBackFails
  BY <1>a, <1>9 DEF ReadBackFails, AnswerInv
<1>10. CASE Query
  <2>1. [status |-> "none", found |-> Found(call)] # Failed
    BY DEF Failed
  <2> QED
    BY <1>a, <1>b, <1>10, <2>1 DEF Query, Answer, AnswerInv
<1>11. CASE UNCHANGED vars
  BY <1>a, <1>11 DEF vars, AnswerInv
<1> QED
  BY <1>1, <1>2, <1>3, <1>4, <1>5, <1>6, <1>7, <1>8, <1>9, <1>10, <1>11 DEF Next, DataStoreStep

(* The entity that an operation has found stays the one it is about.       *)
ReadPhases == {"hooks", "insert", "version", "send", "run", "query", "posthook", "commit"}

(* Steps that keep the entity that was found.                              *)
LEMMA ReadKept ==
  ASSUME ReadInv, phase \in ReadPhases \ {"hooks"}, call.kind = "create" => phase # "insert",
         call' = call, user' = user, tables' = tables, seen' = seen,
         phase' \in ReadPhases, phase' = "query" => phase = "query"
  PROVE  ReadInv'
  BY DEF ReadInv, ReadPhases

(* Every step keeps ReadInv.                                               *)
LEMMA ReadStep ==
  ASSUME EntityInv, ContentInv, ~Deviations, [Next]_vars
  PROVE  ReadInv'
<1>a. /\ ReadInv /\ TypeInv
      /\ phase # "idle" => call \in Ops /\ call # NoCall /\ call.kind \in Kinds
      /\ phase \in {"begin", "check", "read", "hooks"} => work = tables /\ account = user
  BY OpsAreCalls DEF ContentInv, EntityInv, TypeInv, TypeOK, PhaseInv, WorkInv, Advanced, AccountInv
<1>b. phase' \notin ReadPhases => ReadInv'
  BY DEF ReadInv, ReadPhases
<1>c. Fail => phase' \in {"idle", "failing"}
  BY DEF Fail, Answer
<1>d. phase' \in {"idle", "begin", "check", "read", "failing"} => ReadInv'
  BY <1>b DEF ReadPhases
<1>e. phase \in {"check", "insert"} => call.kind = "create"
  BY <1>a DEF TypeInv, PhaseInv
<1>1. CASE \/ \E op \in Ops : Ask(op)
           \/ BeginFails \/ PreHookRefuses \/ WriteFails \/ PostHookRefuses \/ PostHookThrows \/ Commit
           \/ CommitFails \/ QueryFindsNothing \/ QueryFails \/ ExecuteRollback
  BY <1>c, <1>d, <1>1 DEF Ask, BeginFails, PreHookRefuses, WriteFails, PostHookRefuses, PostHookThrows, Commit,
    CommitFails, QueryFindsNothing, QueryFails, ExecuteRollback, Answer
<1>2. CASE Begin
  <2>1. /\ phase = "begin" /\ call' = call /\ tables' = tables /\ user' = user
        /\ phase' = CASE call.kind = "create" -> "check"
                     [] call.kind \in Queries /\ ~ReadsFirst(call) -> "query"
                     [] ReadsFirst(call) -> "read"
                     [] OTHER -> "send"
    BY <1>2 DEF Begin
  <2>2. CASE call.kind = "create" \/ ReadsFirst(call)
    BY <1>d, <2>1, <2>2 DEF ReadsFirst, Queries, AddingOrRemovingSubs, AddingSubs, RemovingSubs, ChangingValues, DeletingOne
  <2>3. CASE call.kind # "create" /\ ~ReadsFirst(call)
    <3>1. phase' \in {"query", "send"} /\ (phase' = "query" => call.kind \in Queries)
      BY <2>1, <2>3
    <3>2. call.kind \notin ChangingOne \union {"updateByFilters"}
      BY <2>3 DEF ReadsFirst, ChangingOne
    <3>3. call.kind \in {"delete", "contains"} => user = NoAccount
      BY <1>a, <2>1, <2>3 DEF ReadsFirst, DeletingOne
    <3> QED
      BY <2>1, <2>3, <3>1, <3>2, <3>3 DEF ReadInv, ChangingOne, ChangingValues, AddingOrRemovingSubs, RemovingSubs
  <2> QED
    BY <2>2, <2>3
<1>3. CASE CheckOwner
  <2>1. CASE account \in {NoAccount, call.owner}
    <3>1. /\ call.kind = "create" /\ phase' = "hooks" /\ call' = call /\ user' = user /\ user \in {NoAccount, call.owner}
      BY <1>a, <1>e, <1>3, <2>1 DEF CheckOwner
    <3> QED
      BY <3>1 DEF ReadInv, Queries
  <2>2. CASE account \notin {NoAccount, call.owner}
    BY <1>c, <1>d, <1>3, <2>2 DEF CheckOwner
  <2> QED
    BY <2>1, <2>2
<1>4. CASE ReadEntity
  <2>1. /\ phase = "read" /\ tables' = tables /\ user' = user /\ work = tables /\ account = user
        /\ call.kind \notin (Queries \ {"contains"}) \union {"create"}
    BY <1>a, <1>4 DEF ReadEntity, TypeInv, PhaseInv
  <2>2. CASE seen' \in First(Where(work, call, account)) /\ call' = call
             /\ phase' = IF call.kind = "contains" THEN "query" ELSE "hooks"
    <3>1. Where(tables, call, user) # {} /\ seen' \in First(Where(tables, call, user))
      BY <2>1, <2>2 DEF First
    <3> QED
      BY <2>1, <2>2, <3>1 DEF ReadInv, Queries
  <2>3. CASE Where(work, call, account) = {} /\ seen' = 0 /\ call.kind = "removeSubsByFilters" /\ phase' = "send" /\ call' = call
    BY <2>1, <2>3 DEF ReadInv, Queries
  <2>4. CASE Fail
    BY <1>c, <1>d, <2>4
  <2> QED
    BY <1>4, <2>2, <2>3, <2>4 DEF ReadEntity
<1>5. CASE ReadEntityFails
  BY <1>c, <1>d, <1>5 DEF ReadEntityFails
<1>6. CASE PreHooksPass
  <2>1. phase = "hooks" /\ seen' = seen /\ tables' = tables /\ user' = user /\ work = tables
    BY <1>a, <1>6 DEF PreHooksPass
  <2>2. CASE Fail
    BY <1>c, <1>d, <2>2
  <2>3. CASE /\ ~(call.kind = "update" /\ call.expect \notin {0, work.root[seen].version})
             /\ phase' = CASE call.kind = "create" -> "insert"
                          [] call.kind \in AddingOrRemovingSubs -> "version"
                          [] OTHER -> "send"
             /\ call' = call
    <3>1. phase' \in {"insert", "version", "send"} /\ (call.kind = "create" => phase' = "insert")
      BY <2>3 DEF AddingOrRemovingSubs, AddingSubs, RemovingSubs
    <3>2. call.kind = "update" => call.expect \in {0, tables.root[seen].version}
      BY <2>1, <2>3
    <3> QED
      BY <1>a, <2>1, <2>3, <3>1, <3>2 DEF ReadInv
  <2> QED
    BY <1>6, <2>2, <2>3 DEF PreHooksPass
<1>7. CASE InsertRoot
  <2>1. /\ phase = "insert" /\ call.kind = "create" /\ phase' = "send" /\ call' = call /\ user' = user /\ tables' = tables
    BY <1>e, <1>7 DEF InsertRoot
  <2>2. seen' \in EntityIds /\ tables.root[seen'] = Absent
    BY <1>7, RootInserted
  <2>3. user \in {NoAccount, call.owner}
    BY <1>a, <2>1 DEF ReadInv
  <2> QED
    BY <2>1, <2>2, <2>3 DEF ReadInv, Queries
<1>8. CASE UpdateVersion
  <2>1. phase = "version" /\ tables' = tables /\ user' = user /\ seen' = seen
    BY <1>8 DEF UpdateVersion
  <2>2. CASE Fail
    BY <1>c, <1>d, <2>2
  <2>3. CASE phase' = "send" /\ call' = call
    BY <1>a, <2>1, <2>3, ReadKept DEF ReadPhases
  <2> QED
    BY <1>8, <2>2, <2>3 DEF UpdateVersion
<1>9. CASE Send \/ AllAnswered \/ ReadBackFails \/ PostHookPasses
  BY <1>a, <1>9, ReadKept DEF Send, AllAnswered, ReadBackFails, PostHookPasses, ReadPhases
<1>10. CASE Execute
  <2>1. phase \in {"run", "failing"} /\ tables' = tables /\ call' = call /\ user' = user /\ seen' = seen /\ phase' = phase
    BY <1>10, NextStatement, TablesChange DEF Execute, Commit
  <2> QED
    BY <1>a, <1>d, <2>1, ReadKept DEF ReadPhases
<1>11. CASE ExecuteFails
  <2>1. phase' = "failing"
    BY <1>11, NextStatement DEF ExecuteFails, BranchFails
  <2> QED
    BY <1>d, <2>1
<1>12. CASE Query
  <2>1. CASE InTransaction(call)
    BY <1>a, <1>12, <2>1, ReadKept DEF Query, ReadPhases
  <2>2. CASE ~InTransaction(call)
    BY <1>d, <1>12, <2>2 DEF Query, Answer
  <2> QED
    BY <2>1, <2>2
<1>13. CASE UNCHANGED vars
  BY <1>a, <1>13 DEF vars, ReadInv
<1> QED
  BY <1>1, <1>2, <1>3, <1>4, <1>5, <1>6, <1>7, <1>8, <1>9, <1>10, <1>11, <1>12, <1>13 DEF Next, DataStoreStep

(* The statements of an operation, when they are sent.                     *)
LEMMA SendOne ==
  ASSUME EntityInv, ContentInv, ~Deviations, [Next]_vars, Send, call.kind \in ChangingOne, seen # 0
  PROVE  Progressed(call, tables, work, Statements(call, seen), serial, seen, TRUE)
<1> DEFINE q == Statements(call, seen)
<1>1. phase = "send" /\ work = Prepared(call, tables, seen) /\ queue' = q /\ phase' = "run"
  BY DEF Send, ContentInv, WorkInv, Advanced
<1>2. /\ call \in Ops /\ seen \in EntityIds /\ call # NoCall
      /\ call.kind = "create" <=> tables.root[seen] = Absent
      /\ call.kind # "create" => seen \in First(Where(tables, call, user))
  BY <1>1, SeenExists, OpsAreCalls
<1>3. /\ WellFormed(tables) /\ Numbered(tables, serial) /\ IdsDiffer(tables) /\ NoOrphansIn(tables) /\ serial.sub # 0
      /\ ~Defective(call) /\ (call.kind = "update" => call.subs = {})
  BY <1>2 DEF ContentInv, RowIdsInv, AskedInv, EntityInv, RowsInv, CallInv
<1>4. call.kind = "addSubs" => SubsOf(tables, seen) = {}
  BY <1>2, <1>3 DEF Defective, First
<1>5. Ready(call, tables, seen)
  BY <1>1, <1>2, <1>3, <1>4 DEF Ready
<1> HIDE DEF q
<1>6. Underway(call, tables, work, Elements(q), seen) /\ Orderly(call, work, q, serial, seen)
  BY <1>5, OneSent DEF SentWell, q
<1>7. SubIdsDiffer(work)
  BY <1>3, <1>5, PreparedFacts DEF IdsDiffer, SubIdsDiffer
<1>8. ASSUME call.kind = "addSubsByFilters"
      PROVE  IF call.values = <<>> THEN q = <<>> ELSE NeverRead(q, serial)
  <2>1. Len(q) = Len(call.values) /\ \A k \in 1..Len(call.values) : q[k].do = "insertSub"
    BY <1>5, <1>8, AddSubsSent DEF q
  <2>2. IsSequence(q)
    <3>1. IsSequence(queue')
      BY <1>1, RunStep DEF RunInv
    <3> QED
      BY <1>1, <3>1
  <2>3. Len(q) \in Nat /\ (q # <<>> <=> Len(q) # 0)
    BY <2>2, SequenceFacts
  <2>4. call.values = <<>> <=> Len(call.values) = 0
    BY <1>2, OpValues
  <2>5. CASE Len(q) = 0
    BY <2>1, <2>3, <2>4, <2>5
  <2>6. CASE Len(q) # 0
    <3>1. 1 \in 1..Len(q)
      BY <2>3, <2>6
    <3> QED
      BY <2>1, <2>4, <2>6, <3>1 DEF NeverRead
  <2> QED
    BY <2>5, <2>6
<1> QED
  BY <1>6, <1>7, <1>8 DEF Progressed, q

(* What is done does not depend on the numbers of rows that are to come.   *)
LEMMA DoneKept ==
  ASSUME user' = user, NEW op, NEW t, NEW u, NEW q
  PROVE  /\ ManyDone(op, t, u, q)' <=> ManyDone(op, t, u, q)
         /\ DeleteDone(op, t, u, q)' <=> DeleteDone(op, t, u, q)
<1>1. PICK s : s = [do |-> "updateRoots", op |-> op, as |-> user]
  OBVIOUS
<1>2. Effect(t, s)' = Effect(t, s)
  BY <1>1 DEF Effect
<1>3. ManyDone(op, t, u, q)' <=> ManyDone(op, t, u, q)
  BY <1>1, <1>2 DEF ManyDone
<1>4. PICK d : d = DeleteWhere("deleteRoots", op, DeletesAs(op, user))
  OBVIOUS
<1>5. Effect(t, d)' = Effect(t, d)
  BY <1>4 DEF Effect, DeleteWhere
<1>6. DeleteDone(op, t, u, q)' <=> DeleteDone(op, t, u, q)
  BY <1>4, <1>5 DEF DeleteDone
<1> QED
  BY <1>3, <1>6

(* WorkInv after a step, from the values that it leaves.                   *)
LEMMA AdvancedKept ==
  ASSUME user' = user, phase' \in {"run", "posthook", "commit"},
         NEW op, NEW t, NEW u, NEW q, NEW next, NEW i, NEW running, NEW result,
         op = call', t = tables', u = work', q = queue', next = serial', i = seen',
         running <=> phase' = "run", result = answer',
         Advanced(op, t, u, q, next, i, running, result)
  PROVE  WorkInv'
<1>1. PICK now : now = (phase' = "run")
  OBVIOUS
<1>2. Advanced(op, t, u, q, next, i, now, result)
  <2>1. Progressed(op, t, u, q, next, i, running) => Progressed(op, t, u, q, next, i, now)
    BY <1>1 DEF Progressed
  <2> QED
    BY <2>1 DEF Advanced
<1>3. Advanced(op, t, u, q, next, i, now, result)'
  <2>1. /\ ManyDone(op, t, u, q)' <=> ManyDone(op, t, u, q)
        /\ DeleteDone(op, t, u, q)' <=> DeleteDone(op, t, u, q)
    BY DoneKept
  <2> QED
    BY <1>2, <2>1 DEF Advanced
<1>4. now = (phase = "run")'
  BY <1>1
<1> QED
  BY <1>3, <1>4 DEF WorkInv

(* The statements that are sent are all that is left to do.                *)
LEMMA SendStep ==
  ASSUME EntityInv, ContentInv, ~Deviations, [Next]_vars, Send
  PROVE  WorkInv'
<1> DEFINE q == Statements(call, seen)
<1>1. /\ phase = "send" /\ work = Prepared(call, tables, seen) /\ queue' = q /\ phase' = "run" /\ account = user
      /\ call' = call /\ tables' = tables /\ work' = work /\ serial' = serial /\ seen' = seen /\ user' = user
  BY DEF Send, ContentInv, WorkInv, EntityInv, AccountInv
<1>2. /\ call \in Ops /\ call.kind \notin Queries /\ WellFormed(work) /\ (call.kind = "update" => call.subs = {})
      /\ call.kind \in Growing => Exists(work, seen)
  BY <1>1 DEF EntityInv, TypeInv, TypeOK, PhaseInv, RowsInv, CallInv, HasEntity
<1>3. ASSUME call.kind \in ChangingOne, seen # 0
      PROVE  Progressed(call, tables, work, q, serial, seen, TRUE)
  BY <1>3, SendOne
<1>4. ASSUME call.kind \in ChangingOne, seen = 0 PROVE work = tables /\ q = <<>>
  <2>1. call.kind = "removeSubsByFilters"
    BY <1>1, <1>4, ConstantsAssumption DEF ContentInv, ReadInv, First, Where
  <2>2. q = <<>>
    BY <1>4, <2>1 DEF Statements, removeSubEntitiesByFilters
  <2> QED
    BY <1>1, <1>4, <2>2 DEF Prepared
<1>5. call.kind \notin ChangingOne => work = tables
  BY <1>1 DEF Prepared, ChangingOne
<1>6. ASSUME call.kind \in UpdatingMany PROVE ManyDone(call, tables, work, q)
  <2>1. q = <<[do |-> "updateRoots", op |-> call, as |-> user]>>
    BY <1>1, <1>6 DEF Statements, updateEntityByFilters, updateEntitiesByFilters, UpdatingMany
  <2>2. call.kind \notin ChangingOne
    BY <1>6 DEF UpdatingMany, ChangingOne, ChangingValues, AddingOrRemovingSubs, AddingSubs, RemovingSubs
  <2> QED
    BY <1>5, <2>1, <2>2 DEF ManyDone
<1>7. ASSUME call.kind \in Deleting PROVE DeleteDone(call, tables, work, q)
  <2>1. q = DeleteStatements(call, DeletesAs(call, user))
    BY <1>1, <1>2, <1>7, StatementsFit DEF DeletesAs
  <2>2. call.kind \notin ChangingOne
    BY <1>7 DEF Deleting, DeletingOne, ChangingOne, ChangingValues, AddingOrRemovingSubs, AddingSubs, RemovingSubs
  <2>3. q # <<>>
    BY <2>1 DEF DeleteStatements
  <2> QED
    BY <1>5, <2>2, <2>3 DEF DeleteDone
<1> HIDE DEF q
<1>8. PICK result : result = answer'
  OBVIOUS
<1>9. Advanced(call, tables, work, q, serial, seen, TRUE, result)
  BY <1>2, <1>3, <1>4, <1>6, <1>7 DEF Advanced
<1>10. PICK op, t, u, p, next, i :
         op = call /\ t = tables /\ u = work /\ p = q /\ next = serial /\ i = seen
  OBVIOUS
<1>11. Advanced(op, t, u, p, next, i, TRUE, result)
  BY <1>9, <1>10
<1>12. /\ op = call' /\ t = tables' /\ u = work' /\ p = queue' /\ next = serial' /\ i = seen'
       /\ TRUE <=> phase' = "run"
  BY <1>1, <1>10
<1> QED
  BY <1>1, <1>8, <1>11, <1>12, AdvancedKept

(* Before the statements are sent, only the root row may have changed.     *)
LEMMA WorkStep ==
  ASSUME EntityInv, ContentInv, ~Deviations, [Next]_vars
  PROVE  WorkInv'
<1>a. /\ WorkInv /\ TypeInv
      /\ phase # "idle" => call \in Ops /\ call # NoCall /\ call.kind \in Kinds
      /\ phase = "idle" => work = tables
      /\ phase \in {"begin", "check", "read", "hooks", "query"} => work = tables /\ account = user /\ queue = <<>>
  BY OpsAreCalls DEF ContentInv, EntityInv, TypeInv, TypeOK, PhaseInv, WorkInv, AccountInv, TransactionInv
<1>b. phase' \in {"idle", "failing"} => WorkInv'
  BY DEF WorkInv
<1>c. Fail => phase' \in {"idle", "failing"}
  BY DEF Fail, Answer
<1>d. phase' \in {"idle", "begin", "check", "read", "hooks", "insert", "version", "query", "failing"} /\ work' = tables' => WorkInv'
  BY DEF WorkInv
<1>e. phase' = "send" /\ work' = Prepared(call', tables', seen') => WorkInv'
  BY DEF WorkInv
<1>1. CASE \/ \E op \in Ops : Ask(op)
           \/ BeginFails \/ PreHookRefuses \/ WriteFails \/ PostHookRefuses \/ PostHookThrows \/ Commit
           \/ CommitFails \/ QueryFindsNothing \/ QueryFails \/ ExecuteRollback \/ CheckOwner \/ ReadEntityFails
  BY <1>a, <1>b, <1>c, <1>d, <1>1 DEF Ask, BeginFails, PreHookRefuses, WriteFails, PostHookRefuses, PostHookThrows, Commit,
    CommitFails, QueryFindsNothing, QueryFails, ExecuteRollback, CheckOwner, ReadEntityFails, Answer
<1>2. CASE Begin
  <2>1. /\ phase = "begin" /\ work' = work /\ tables' = tables /\ work = tables /\ call' = call /\ seen' = seen
        /\ phase' \in {"check", "query", "read", "send"}
        /\ phase' = "send" => call.kind \notin {"create"} \union AddingOrRemovingSubs
    BY <1>a, <1>2 DEF Begin, ReadsFirst
  <2>2. phase' = "send" => work' = Prepared(call', tables', seen')
    BY <2>1 DEF Prepared
  <2> QED
    BY <1>d, <1>e, <2>1, <2>2
<1>3. CASE ReadEntity
  <2>1. phase = "read" /\ work' = work /\ tables' = tables /\ work = tables
    BY <1>a, <1>3 DEF ReadEntity
  <2>2. CASE phase' = "send" /\ seen' = 0
    <3>1. work' = Prepared(call', tables', seen')
      BY <2>1, <2>2 DEF Prepared
    <3> QED
      BY <1>e, <2>2, <3>1
  <2>3. CASE phase' # "send" \/ seen' # 0
    BY <1>b, <1>c, <1>d, <1>3, <2>1, <2>3 DEF ReadEntity
  <2> QED
    BY <2>2, <2>3
<1>4. CASE PreHooksPass
  <2>1. phase = "hooks" /\ work' = work /\ tables' = tables /\ work = tables /\ seen' = seen
    BY <1>a, <1>4 DEF PreHooksPass
  <2>2. CASE Fail
    BY <1>b, <1>c, <2>2
  <2>3. CASE /\ phase' = CASE call.kind = "create" -> "insert"
                          [] call.kind \in AddingOrRemovingSubs -> "version"
                          [] OTHER -> "send"
             /\ call' = call
    <3>1. /\ phase' \in {"insert", "version", "send"}
          /\ phase' = "send" => call.kind \notin {"create"} \union AddingOrRemovingSubs
      BY <2>3 DEF AddingOrRemovingSubs, AddingSubs, RemovingSubs
    <3>2. phase' = "send" => work' = Prepared(call', tables', seen')
      BY <2>1, <2>3, <3>1 DEF Prepared
    <3> QED
      BY <1>d, <1>e, <2>1, <3>1, <3>2
  <2> QED
    BY <1>4, <2>2, <2>3 DEF PreHooksPass
<1>5. CASE InsertRoot
  <2>1. tables' = tables /\ call' = call /\ phase' = "send"
    BY <1>5 DEF InsertRoot
  <2>2. work' = Prepared(call, tables, seen')
    BY <1>5, RootInserted
  <2> QED
    BY <1>e, <2>1, <2>2
<1>6. CASE UpdateVersion
  <2>1. tables' = tables /\ seen' = seen /\ work' = Prepared(call, tables, seen)
    BY <1>6, VersionWritten DEF UpdateVersion
  <2> QED
    BY <1>b, <1>c, <1>e, <1>6, <2>1 DEF UpdateVersion
<1>7. CASE Send
  BY <1>7, SendStep
<1>8. CASE Execute
  <2>1. /\ phase \in {"run", "failing"} /\ tables' = tables /\ call' = call /\ user' = user /\ seen' = seen
        /\ phase' = phase /\ queue # <<>>
    BY <1>8, NextStatement, TablesChange DEF Execute, Commit
  <2>2. CASE phase = "failing"
    BY <1>b, <2>1, <2>2
  <2>3. CASE phase = "run"
    <3>1. call.kind \notin Queries /\ ~(call.kind \in ChangingOne /\ seen = 0)
      BY <1>a, <2>1, <2>3 DEF TypeInv, PhaseInv, WorkInv, Advanced
    <3>2. PICK op, t, u, q, next, i, result :
            /\ op = call' /\ t = tables' /\ u = work' /\ q = queue' /\ next = serial' /\ i = seen' /\ result = answer'
      OBVIOUS
    <3>3. op.kind \in ChangingOne /\ i # 0 => Progressed(op, t, u, q, next, i, TRUE)
      BY <1>8, <2>1, <2>3, <3>2, ExecuteOne
    <3>4. op.kind \in UpdatingMany => ManyDone(op, t, u, q)
      BY <1>8, <2>1, <2>3, <3>2, ExecuteMany
    <3>5. op.kind \in Deleting => DeleteDone(op, t, u, q)
      BY <1>8, <2>1, <2>3, <3>2, ExecuteDelete
    <3>6. Advanced(op, t, u, q, next, i, TRUE, result)
      BY <2>1, <3>1, <3>2, <3>3, <3>4, <3>5 DEF Advanced
    <3> QED
      BY <2>1, <2>3, <3>2, <3>6, AdvancedKept
  <2> QED
    BY <2>1, <2>2, <2>3
<1>9. CASE ExecuteFails
  <2>1. phase' = "failing"
    BY <1>9, NextStatement DEF ExecuteFails, BranchFails
  <2> QED
    BY <1>b, <2>1
<1>10. ASSUME AllAnswered \/ ReadBackFails \/ PostHookPasses PROVE WorkInv'
  <2>1. /\ phase \in {"run", "posthook"} /\ phase' \in {"posthook", "commit"} /\ tables' = tables /\ call' = call
        /\ user' = user /\ seen' = seen /\ work' = work /\ queue' = queue /\ serial' = serial
        /\ phase = "run" => queue = <<>>
        /\ answer' = answer \/ call.kind \notin Queries
    BY <1>10 DEF AllAnswered, ReadBackFails, PostHookPasses, Queries
  <2>2. PICK op, t, u, q, next, i, result :
          /\ op = call' /\ t = tables' /\ u = work' /\ q = queue' /\ next = serial' /\ i = seen' /\ result = answer'
    OBVIOUS
  <2>3. Advanced(op, t, u, q, next, i, phase = "run", result)
    <3>1. Advanced(call, tables, work, queue, serial, seen, phase = "run", answer)
      BY <1>a, <2>1 DEF WorkInv
    <3> QED
      BY <2>1, <2>2, <3>1 DEF Advanced
  <2>4. Progressed(op, t, u, q, next, i, phase = "run") => Progressed(op, t, u, q, next, i, FALSE)
    <3>1. CASE phase = "run"
      <4>1. q = <<>>
        BY <2>1, <2>2, <3>1
      <4>2. ~NeverRead(q, next)
        BY <4>1 DEF NeverRead
      <4> QED
        BY <4>2 DEF Progressed
    <3>2. CASE phase # "run"
      BY <3>2 DEF Progressed
    <3> QED
      BY <3>1, <3>2
  <2>5. Advanced(op, t, u, q, next, i, FALSE, result)
    BY <2>3, <2>4 DEF Advanced
  <2>6. FALSE <=> phase' = "run"
    BY <2>1
  <2> QED
    BY <2>1, <2>2, <2>5, <2>6, AdvancedKept
<1>11. CASE Query
  <2>1. /\ phase = "query" /\ tables' = tables /\ work' = work /\ queue' = queue /\ queue = <<>> /\ work = tables
        /\ account = user /\ user' = user /\ call.kind # "getByIds" /\ call.kind \in Queries
        /\ call.kind \in {"get", "getByFilters"} => Found(call) # {}
    BY <1>a, <1>11 DEF Query, ContentInv, ReadInv
  <2>2. CASE ~InTransaction(call)
    BY <1>b, <1>11, <2>2 DEF Query, Answer
  <2>3. CASE InTransaction(call)
    <3>1. phase' = "posthook" /\ answer' = [status |-> "none", found |-> Found(call)] /\ call' = call
      BY <1>11, <2>3 DEF Query
    <3>2. Found(call) = FoundIn(tables, call, user)
      BY <2>1 DEF Found, FoundIn, doesEntityArrayFieldContainValue, getAllEntities
    <3>3. PICK op, t, u, q, next, i, result :
            /\ op = call' /\ t = tables' /\ u = work' /\ q = queue' /\ next = serial' /\ i = seen' /\ result = answer'
      OBVIOUS
    <3>4. /\ op.kind \in Queries /\ u = t /\ q = <<>> /\ result.found = FoundIn(t, op, user) /\ op.kind # "getByIds"
          /\ op.kind \in {"get", "getByFilters"} => FoundIn(t, op, user) # {}
      BY <2>1, <3>1, <3>2, <3>3
    <3>5. op.kind \notin ChangingOne \union UpdatingMany \union Deleting
      BY <3>4 DEF Queries, ChangingOne, UpdatingMany, Deleting, DeletingOne, ChangingValues, AddingOrRemovingSubs, AddingSubs,
        RemovingSubs
    <3>6. Advanced(op, t, u, q, next, i, FALSE, result)
      BY <3>4, <3>5 DEF Advanced
    <3>7. FALSE <=> phase' = "run"
      BY <3>1
    <3> QED
      BY <2>1, <3>1, <3>3, <3>6, <3>7, AdvancedKept
  <2> QED
    BY <2>2, <2>3
<1>12. CASE UNCHANGED vars
  <2>1. /\ tables' = tables /\ work' = work /\ queue' = queue /\ call' = call /\ seen' = seen /\ serial' = serial
        /\ user' = user /\ answer' = answer /\ phase' = phase
    BY <1>12 DEF vars
  <2>2. CASE phase \notin {"run", "posthook", "commit"}
    BY <1>a, <2>1, <2>2 DEF WorkInv
  <2>3. CASE phase \in {"run", "posthook", "commit"}
    <3>1. PICK op, t, u, q, next, i, result, running :
            /\ op = call' /\ t = tables' /\ u = work' /\ q = queue' /\ next = serial' /\ i = seen' /\ result = answer'
            /\ running = (phase = "run")
      OBVIOUS
    <3>2. Advanced(call, tables, work, queue, serial, seen, phase = "run", answer)
      BY <1>a, <2>3 DEF WorkInv
    <3>3. Advanced(op, t, u, q, next, i, running, result)
      BY <2>1, <3>1, <3>2
    <3>4. running <=> phase' = "run"
      BY <2>1, <3>1
    <3> QED
      BY <2>1, <2>3, <3>1, <3>3, <3>4, AdvancedKept
  <2> QED
    BY <2>2, <2>3
<1> QED
  BY <1>1, <1>2, <1>3, <1>4, <1>5, <1>6, <1>7, <1>8, <1>9, <1>10, <1>11, <1>12 DEF Next, DataStoreStep

(* The initial state.                                                      *)
LEMMA ContentInvInit == Init => ContentInv
<1> SUFFICES ASSUME Init PROVE ContentInv
  OBVIOUS
<1>1. /\ WellFormed(tables) /\ Numbered(tables, FirstSerial(tables)) /\ IdsDiffer(tables)
  BY ConstantsAssumption DEF Init
<1>2. FirstSerial(tables).sub # 0
  <2>1. Cardinality(tables.subs) \in Nat
    BY <1>1, FS_CardinalityType DEF WellFormed
  <2> QED
    BY <2>1 DEF FirstSerial
<1>3. RowIdsInv
  BY <1>1, <1>2 DEF Init, RowIdsInv
<1>4. AskedInv /\ AnswerInv /\ ReadInv /\ WorkInv
  BY DEF Init, AskedInv, AnswerInv, ReadInv, WorkInv
<1> QED
  BY <1>3, <1>4 DEF ContentInv

(* The rows of the transaction of an operation are, together with the     *)
(* statements that are left to do, those that the operation is to leave;   *)
(* ids tell the committed sub-entities and values of an entity apart.      *)
THEOREM ContentInvariant ==
  ASSUME ~Deviations
  PROVE  Spec => [](EntityInv /\ ContentInv)
<1>1. Init => ContentInv
  BY ContentInvInit
<1>2. EntityInv /\ ContentInv /\ [Next]_vars => ContentInv'
  BY RowIdsStep, AskedStep, AnswerStep, ReadStep, WorkStep DEF ContentInv
<1> QED
  BY <1>1, <1>2, EntityInvariant, PTL DEF Spec
----------------------------------------------------------------------------
(* Entities as EntityStore changes them                                    *)

(* An entity with other fields and the next version.                       *)
WithFields(e, fields) ==
  [name \in DOMAIN e |-> IF name = "version" THEN e.version + 1
                         ELSE IF name \in DOMAIN fields THEN fields[name] ELSE e[name]]

EntityOf(owner, version, value, subs, tags, links) ==
  [owner |-> owner, version |-> version, value |-> value, subs |-> subs, tags |-> tags, links |-> links]

(* Its fields.                                                             *)
LEMMA WithFieldsIs ==
  ASSUME NEW o, NEW v, NEW x, NEW s, NEW g, NEW l, NEW fields, "owner" \notin DOMAIN fields
  PROVE  WithFields(EntityOf(o, v, x, s, g, l), fields) =
           EntityOf(o, v + 1, IF "value" \in DOMAIN fields THEN fields["value"] ELSE x,
                    IF "subs" \in DOMAIN fields THEN fields["subs"] ELSE s,
                    IF "tags" \in DOMAIN fields THEN fields["tags"] ELSE g,
                    IF "links" \in DOMAIN fields THEN fields["links"] ELSE l)
<1>1. PICK e : e = EntityOf(o, v, x, s, g, l)
  OBVIOUS
<1>2. /\ DOMAIN e = {"owner", "version", "value", "subs", "tags", "links"}
      /\ e.owner = o /\ e.version = v /\ e.value = x /\ e.subs = s /\ e.tags = g /\ e.links = l
  BY <1>1 DEF EntityOf
<1>3. PICK x2, s2, g2, l2 :
        /\ x2 = IF "value" \in DOMAIN fields THEN fields["value"] ELSE x
        /\ s2 = IF "subs" \in DOMAIN fields THEN fields["subs"] ELSE s
        /\ g2 = IF "tags" \in DOMAIN fields THEN fields["tags"] ELSE g
        /\ l2 = IF "links" \in DOMAIN fields THEN fields["links"] ELSE l
  OBVIOUS
<1>4. WithFields(e, fields) = [name \in {"owner", "version", "value", "subs", "tags", "links"} |->
          IF name = "version" THEN v + 1 ELSE IF name \in DOMAIN fields THEN fields[name] ELSE e[name]]
  BY <1>2 DEF WithFields
<1>5. WithFields(e, fields) = EntityOf(o, v + 1, x2, s2, g2, l2)
  BY <1>2, <1>3, <1>4 DEF EntityOf
<1> QED
  BY <1>1, <1>3, <1>5

(* A stored entity, and the same after an operation.                       *)
LEMMA EntityFields ==
  ASSUME NEW t, NEW next, WellFormed(t), Numbered(t, next), IdsDiffer(t), NEW i \in EntityIds, t.root[i] # Absent
  PROVE  /\ EntityIn(t, i) = EntityOf(t.root[i].owner, t.root[i].version, t.root[i].value,
                                      PairsOf(t.subs, i), ValuesOf(t, i), LinksOf(t, i))
         /\ t.root[i].version \in Nat \ {0} /\ IsRow(t.root[i])
<1>1. ValuesOf(t, i) = Listed(PairsOf(t.vals, i))
  BY ValuesOfIs
<1>2. EntityIn(t, i) = EntityOf(t.root[i].owner, t.root[i].version, t.root[i].value,
                                PairsOf(t.subs, i), ValuesOf(t, i), LinksOf(t, i))
  BY <1>1 DEF EntityIn, Entity, EntityOf
<1>3. t.root[i].version \in Nat \ {0} /\ IsRow(t.root[i])
  BY DEF WellFormed, Numbered, IsRow
<1> QED
  BY <1>2, <1>3

(* What an operation makes of a stored entity.                             *)
LEMMA NewFields ==
  ASSUME NEW op \in Ops, op.kind \in ChangingOne \ {"create"}, NEW t, NEW next, WellFormed(t), Numbered(t, next),
         IdsDiffer(t), NoOrphansIn(t), NEW i \in EntityIds, t.root[i] # Absent, AddsLast(op, t, i)
  PROVE  Entity(NewRoot(op, t, i), NewSubs(op, t, i), NewVals(op, t, i), NewLinks(op, t, i)) =
           EntityOf(t.root[i].owner, t.root[i].version + 1,
                    IF op.kind = "update" /\ op.value # 0 THEN op.value ELSE t.root[i].value,
                    NewSubs(op, t, i), NewTags(op, t, i), NewLinks(op, t, i))
<1>1. PICK x : x = IF op.kind = "update" /\ op.value # 0 THEN op.value ELSE t.root[i].value
  OBVIOUS
<1>2. PICK row : row = t.root[i]
  OBVIOUS
<1>3. row.version \in Nat \ {0} /\ IsRow(row)
  BY <1>2, EntityFields
<1>4. NewRoot(op, t, i) = [owner |-> row.owner, version |-> row.version + 1, value |-> x]
  <2>1. NewRoot(op, t, i) = Changed(row, row.version + 1, x)
    BY <1>1, <1>2 DEF NewRoot
  <2> QED
    BY <1>3, <2>1, ChangedRow
<1>5. NewRoot(op, t, i) # Absent
  <2>1. row.version + 1 # 0
    BY <1>3
  <2> QED
    BY <1>4, <2>1 DEF Absent
<1>6. Listed(NewVals(op, t, i)) = NewTags(op, t, i)
  BY NewValsFacts
<1>7. PICK s, g, l : s = NewSubs(op, t, i) /\ g = NewTags(op, t, i) /\ l = NewLinks(op, t, i)
  OBVIOUS
<1>8. Entity(NewRoot(op, t, i), s, NewVals(op, t, i), l) = EntityOf(row.owner, row.version + 1, x, s, g, l)
  <2>1. PICK new : new = NewRoot(op, t, i)
    OBVIOUS
  <2>2. new.owner = row.owner /\ new.version = row.version + 1 /\ new.value = x /\ new # Absent
    BY <1>4, <1>5, <2>1
  <2>3. Entity(new, s, NewVals(op, t, i), l) = EntityOf(new.owner, new.version, new.value, s, g, l)
    BY <1>6, <1>7, <2>2 DEF Entity, EntityOf
  <2> QED
    BY <2>1, <2>2, <2>3
<1> QED
  BY <1>1, <1>2, <1>7, <1>8

(* The entity that a creating operation leaves.                            *)
LEMMA CreatedFields ==
  ASSUME NEW op \in Ops, op.kind = "create", NEW t, NEW next, WellFormed(t), Numbered(t, next),
         IdsDiffer(t), NoOrphansIn(t), NEW i \in EntityIds, t.root[i] = Absent
  PROVE  Entity(NewRoot(op, t, i), NewSubs(op, t, i), NewVals(op, t, i), NewLinks(op, t, i)) =
           EntityOf(op.owner, 1, op.value, Indexed(op.values), op.tags, op.links)
<1>1. PairsOf(t.subs, i) = {} /\ LinksOf(t, i) = {}
  BY NewIsEmpty
<1>2. NewSubs(op, t, i) = Indexed(op.values) /\ NewLinks(op, t, i) = op.links
  BY <1>1 DEF NewSubs, NewLinks
<1>3. AddsLast(op, t, i)
  BY DEF AddsLast
<1>4. Listed(NewVals(op, t, i)) = op.tags
  BY <1>3, NewValsFacts DEF NewTags
<1>5. PICK row : row = [owner |-> op.owner, version |-> 1, value |-> op.value]
  OBVIOUS
<1>6. row # Absent /\ row.owner = op.owner /\ row.version = 1 /\ row.value = op.value
  BY <1>5 DEF Absent
<1>7. NewRoot(op, t, i) = row
  BY <1>5 DEF NewRoot
<1> QED
  BY <1>2, <1>4, <1>6, <1>7 DEF Entity, EntityOf

(* What each operation replaces in an entity e.                            *)
FieldsGiven(op, e) ==
  CASE op.kind \in {"addSubs", "addSubsByFilters"} -> [subs |-> e.subs \union Indexed(op.values)]
    [] op.kind \in {"removeSubs", "removeSubsByFilters"} ->
         [subs |-> {sub \in e.subs : ~op.all /\ sub[1] # op.sub}]
    [] op.kind = "update" -> [value |-> IF op.value = 0 THEN e.value ELSE op.value,
                              tags |-> IF op.tags = <<>> THEN e.tags ELSE op.tags, subs |-> e.subs]
    [] op.kind = "addValues" -> [tags |-> e.tags \o op.tags]
    [] op.kind = "removeValues" -> [tags |-> Without(e.tags, op.tags)]
    [] op.kind = "addLinks" -> [links |-> e.links \union op.links]
    [] op.kind = "removeLinks" -> [links |-> {l \in e.links : ~op.all /\ l # op.sub}]

(* The rows that an operation leaves are read as the entity with those     *)
(* fields replaced.                                                        *)
LEMMA ChangedAsGiven ==
  ASSUME NEW op \in Ops, op.kind \in ChangingOne \ {"create"}, NEW t, NEW next, WellFormed(t), Numbered(t, next),
         IdsDiffer(t), NoOrphansIn(t), NEW i \in EntityIds, t.root[i] # Absent, AddsLast(op, t, i),
         NEW e, e = EntityIn(t, i)
  PROVE  Entity(NewRoot(op, t, i), NewSubs(op, t, i), NewVals(op, t, i), NewLinks(op, t, i))
           = WithFields(e, FieldsGiven(op, e))
<1>1. PICK o, v, x, s, g, l :
        /\ o = t.root[i].owner /\ v = t.root[i].version /\ x = t.root[i].value
        /\ s = PairsOf(t.subs, i) /\ g = ValuesOf(t, i) /\ l = LinksOf(t, i)
  OBVIOUS
<1>2. e = EntityOf(o, v, x, s, g, l)
  BY <1>1, EntityFields
<1>3. e.value = x /\ e.subs = s /\ e.tags = g /\ e.links = l
  BY <1>2 DEF EntityOf
<1>4. PICK new : new = Entity(NewRoot(op, t, i), NewSubs(op, t, i), NewVals(op, t, i), NewLinks(op, t, i))
  OBVIOUS
<1>5. new = EntityOf(o, v + 1, IF op.kind = "update" /\ op.value # 0 THEN op.value ELSE x,
                     NewSubs(op, t, i), NewTags(op, t, i), NewLinks(op, t, i))
  BY <1>1, <1>4, NewFields
<1>6. CASE op.kind \in {"addSubs", "addSubsByFilters"}
  <2>1. PICK s2 : s2 = s \union Indexed(op.values)
    OBVIOUS
  <2>2. NewSubs(op, t, i) = s2 /\ NewTags(op, t, i) = g /\ NewLinks(op, t, i) = l
    BY <1>1, <1>6, <2>1 DEF NewSubs, NewTags, NewLinks
  <2>3. PICK fields : fields = [subs |-> s2]
    OBVIOUS
  <2>4. WithFields(e, fields) = EntityOf(o, v + 1, x, s2, g, l)
    BY <1>2, <2>3, WithFieldsIs
  <2>5. FieldsGiven(op, e) = fields
    BY <1>3, <1>6, <2>1, <2>3 DEF FieldsGiven
  <2> QED
    BY <1>4, <1>5, <1>6, <2>2, <2>4, <2>5
<1>7. CASE op.kind \in {"removeSubs", "removeSubsByFilters"}
  <2>1. PICK s2 : s2 = {sub \in s : ~op.all /\ sub[1] # op.sub}
    OBVIOUS
  <2>2. NewSubs(op, t, i) = s2 /\ NewTags(op, t, i) = g /\ NewLinks(op, t, i) = l
    BY <1>1, <1>7, <2>1 DEF NewSubs, NewTags, NewLinks
  <2>3. PICK fields : fields = [subs |-> s2]
    OBVIOUS
  <2>4. WithFields(e, fields) = EntityOf(o, v + 1, x, s2, g, l)
    BY <1>2, <2>3, WithFieldsIs
  <2>5. FieldsGiven(op, e) = fields
    BY <1>3, <1>7, <2>1, <2>3 DEF FieldsGiven
  <2> QED
    BY <1>4, <1>5, <1>7, <2>2, <2>4, <2>5
<1>8. CASE op.kind = "update"
  <2>1. PICK x2, g2 : x2 = (IF op.value = 0 THEN x ELSE op.value) /\ g2 = IF op.tags = <<>> THEN g ELSE op.tags
    OBVIOUS
  <2>2. /\ NewSubs(op, t, i) = s /\ NewTags(op, t, i) = g2 /\ NewLinks(op, t, i) = l
        /\ (IF op.kind = "update" /\ op.value # 0 THEN op.value ELSE x) = x2
    BY <1>1, <1>8, <2>1 DEF NewSubs, NewTags, NewLinks
  <2>3. PICK fields : fields = [value |-> x2, tags |-> g2, subs |-> s]
    OBVIOUS
  <2>4. WithFields(e, fields) = EntityOf(o, v + 1, x2, s, g2, l)
    BY <1>2, <2>3, WithFieldsIs
  <2>5. FieldsGiven(op, e) = fields
    BY <1>3, <1>8, <2>1, <2>3 DEF FieldsGiven
  <2> QED
    BY <1>4, <1>5, <2>2, <2>4, <2>5
<1>9. CASE op.kind \in ChangingValues
  <2>1. PICK g2 : g2 = NewTags(op, t, i)
    OBVIOUS
  <2>2. NewSubs(op, t, i) = s /\ NewLinks(op, t, i) = l
    BY <1>1, <1>9 DEF NewSubs, NewLinks, ChangingValues
  <2>3. PICK fields : fields = [tags |-> g2]
    OBVIOUS
  <2>4. WithFields(e, fields) = EntityOf(o, v + 1, x, s, g2, l)
    BY <1>2, <2>3, WithFieldsIs
  <2>5. FieldsGiven(op, e) = fields
    BY <1>1, <1>3, <1>9, <2>1, <2>3 DEF FieldsGiven, ChangingValues, NewTags
  <2> QED
    BY <1>4, <1>5, <1>9, <2>1, <2>2, <2>4, <2>5 DEF ChangingValues
<1>10. CASE op.kind = "addLinks"
  <2>1. PICK l2 : l2 = l \union op.links
    OBVIOUS
  <2>2. NewSubs(op, t, i) = s /\ NewTags(op, t, i) = g /\ NewLinks(op, t, i) = l2
    BY <1>1, <1>10, <2>1 DEF NewSubs, NewTags, NewLinks
  <2>3. PICK fields : fields = [links |-> l2]
    OBVIOUS
  <2>4. WithFields(e, fields) = EntityOf(o, v + 1, x, s, g, l2)
    BY <1>2, <2>3, WithFieldsIs
  <2>5. FieldsGiven(op, e) = fields
    BY <1>3, <1>10, <2>1, <2>3 DEF FieldsGiven
  <2> QED
    BY <1>4, <1>5, <1>10, <2>2, <2>4, <2>5
<1>11. CASE op.kind = "removeLinks"
  <2>1. PICK l2 : l2 = {link \in l : ~op.all /\ link # op.sub}
    OBVIOUS
  <2>2. NewSubs(op, t, i) = s /\ NewTags(op, t, i) = g /\ NewLinks(op, t, i) = l2
    BY <1>1, <1>11, <2>1 DEF NewSubs, NewTags, NewLinks
  <2>3. PICK fields : fields = [links |-> l2]
    OBVIOUS
  <2>4. WithFields(e, fields) = EntityOf(o, v + 1, x, s, g, l2)
    BY <1>2, <2>3, WithFieldsIs
  <2>5. FieldsGiven(op, e) = fields
    BY <1>3, <1>11, <2>1, <2>3 DEF FieldsGiven
  <2> QED
    BY <1>4, <1>5, <1>11, <2>2, <2>4, <2>5
<1> QED
  BY <1>6, <1>7, <1>8, <1>9, <1>10, <1>11 DEF ChangingOne, ChangingValues, AddingOrRemovingSubs, AddingSubs, RemovingSubs
----------------------------------------------------------------------------
(* Steps of EntityStore                                                    *)

Asking == [c \in {"caller"} |-> call]
Answering == [c \in {"caller"} |-> IF call = NoCall THEN answer ELSE NoAnswer]

(* The entities that the rows are read as.                                 *)
LEMMA StoredFacts ==
  ASSUME NEW t, NEW next, WellFormed(t), Numbered(t, next), IdsDiffer(t), NEW i \in EntityIds
  PROVE  /\ Stored(t)[i] = EntityIn(t, i)
         /\ Stored(t)[i] = Absent <=> t.root[i] = Absent
         /\ t.root[i] # Absent => /\ Stored(t)[i].owner = t.root[i].owner
                                  /\ Stored(t)[i].value = t.root[i].value
                                  /\ Stored(t)[i].version = t.root[i].version
                                  /\ Stored(t)[i].subs = PairsOf(t.subs, i)
                                  /\ Stored(t)[i].tags = ValuesOf(t, i)
<1>1. Stored(t)[i] = EntityIn(t, i)
  BY StoredIs
<1>2. CASE t.root[i] = Absent
  BY <1>1, <1>2 DEF EntityIn, Entity
<1>3. CASE t.root[i] # Absent
  <2>1. PICK o, v, x, s, g, l :
          /\ o = t.root[i].owner /\ v = t.root[i].version /\ x = t.root[i].value
          /\ s = PairsOf(t.subs, i) /\ g = ValuesOf(t, i) /\ l = LinksOf(t, i)
    OBVIOUS
  <2>2. Stored(t)[i] = EntityOf(o, v, x, s, g, l) /\ v # 0
    BY <1>1, <1>3, <2>1, EntityFields
  <2>3. EntityOf(o, v, x, s, g, l) # Absent
    BY <2>2 DEF EntityOf, Absent
  <2> QED
    BY <1>1, <1>3, <2>1, <2>2, <2>3 DEF EntityOf
<1> QED
  BY <1>2, <1>3

(* The rows of an operation that is under way are those of entities.       *)
LEMMA TablesWell ==
  ASSUME EntityInv, ContentInv
  PROVE  WellFormed(tables) /\ Numbered(tables, serial) /\ IdsDiffer(tables) /\ NoOrphansIn(tables)
  BY DEF EntityInv, RowsInv, ContentInv, RowIdsInv

(* What a call is about, for the data store and for EntityStore.           *)
LEMMA MatchingIsWhere ==
  ASSUME EntityInv, ContentInv, NEW op, op.as = user
  PROVE  /\ Store!Owned(op) = {i \in EntityIds : tables.root[i] # Absent /\ user \in {NoAccount, tables.root[i].owner}}
         /\ Store!Matching(op) = Where(tables, op, user)
         /\ Store!First(Store!Matching(op)) = First(Where(tables, op, user))
<1>1. \A i \in EntityIds : /\ Stored(tables)[i] = Absent <=> tables.root[i] = Absent
                           /\ tables.root[i] # Absent => /\ Stored(tables)[i].owner = tables.root[i].owner
                                                         /\ Stored(tables)[i].value = tables.root[i].value
  BY TablesWell, StoredFacts
<1>2. Store!Owned(op) = {i \in EntityIds : tables.root[i] # Absent /\ user \in {NoAccount, tables.root[i].owner}}
  BY <1>1 DEF Store!Owned, Store!Absent, Absent
<1>3. Store!Matching(op) = Where(tables, op, user)
  BY <1>1, <1>2 DEF Store!Matching, Where
<1> QED
  BY <1>2, <1>3 DEF Store!First, First

(* What remains of an array without some values.                           *)
LEMMA StoreWithout ==
  ASSUME NEW s, NEW values
  PROVE  Store!Without(s, values) = Without(s, values)
BY DEF Store!Without, Without, Store!Nth, Nth, Store!Cardinality, Cardinality, Store!IsFiniteSet, IsFiniteSet

(* An entity gets other fields.                                            *)
LEMMA StoreUpdated ==
  ASSUME NEW i, NEW fields,
         Stored(tables)' = [Stored(tables) EXCEPT ![i] = WithFields(Stored(tables)[i], fields)]
  PROVE  Store!Updated(i, fields)
  BY DEF Store!Updated, WithFields

(* Steps of EntityStore: none.                                             *)
LEMMA StoreStutters ==
  ASSUME tables' = tables, Answering' = Answering, call' = call
  PROVE  UNCHANGED Store!vars
<1>1. Stored(tables)' = Stored(tables) /\ Asking' = Asking
  BY DEF Asking
<1> QED
  BY <1>1 DEF Store!vars, Asking, Answering

(* A call is answered with an error and has changed nothing.               *)
LEMMA StoreRefuses ==
  ASSUME call # NoCall, tables' = tables, call' = NoCall, answer' = Failed
  PROVE  Store!Next
<1>1. Stored(tables)' = Stored(tables)
  OBVIOUS
<1>2. Answering' = [Answering EXCEPT !["caller"] = Failed] /\ Asking' = [Asking EXCEPT !["caller"] = NoCall]
  BY DEF Answering, Asking
<1>3. Store!Refuse("caller")
  BY <1>1, <1>2 DEF Store!Refuse, Asking, Answering, Store!NoCall, NoCall, Store!Failed, Failed
<1> QED
  BY <1>3 DEF Store!Next

(* A call has its effect and its answer.                                   *)
LEMMA StorePerforms ==
  ASSUME call # NoCall, call' = NoCall, Store!Performed("caller", call)
  PROVE  Store!Next
<1>1. Asking' = [Asking EXCEPT !["caller"] = NoCall] /\ Asking["caller"] = call
  BY DEF Asking
<1>2. Store!Perform("caller")
  BY <1>1 DEF Store!Perform, Asking, Store!NoCall, NoCall
<1> QED
  BY <1>2 DEF Store!Next

(* A call is made.                                                         *)
LEMMA StoreAsks ==
  ASSUME NEW op \in Ops, call = NoCall, call' = op, tables' = tables, answer' = NoAnswer
  PROVE  Store!Next
<1>1. Stored(tables)' = Stored(tables)
  OBVIOUS
<1>2. /\ Asking["caller"] = NoCall /\ Asking' = [Asking EXCEPT !["caller"] = op]
      /\ Answering' = [Answering EXCEPT !["caller"] = NoAnswer]
  BY DEF Asking, Answering
<1>3. Store!Ask("caller", op)
  BY <1>1, <1>2 DEF Store!Ask, Asking, Answering, Store!NoCall, NoCall, Store!NoAnswer, NoAnswer
<1> QED
  BY <1>3 DEF Store!Next

(* The answer that a call gets.                                            *)
LEMMA AnswerGiven ==
  ASSUME NEW result, call' = NoCall, answer' = result
  PROVE  Answering' = [Answering EXCEPT !["caller"] = result]
  BY DEF Answering
----------------------------------------------------------------------------
(* What a committed operation has done to the entities                     *)

(* The rows of the transaction become the committed ones.                  *)
LEMMA CommitStores ==
  ASSUME EntityInv, ContentInv, Commit, tx # "failed"
  PROVE  /\ phase = "commit" /\ call \in Ops /\ call # NoCall /\ call.as = user /\ ~Defective(call)
         /\ tables' = work /\ call' = NoCall
         /\ answer # Failed
         /\ call.kind = "create" => answer' = Answered({seen})
         /\ call.kind \in Queries => answer' = Answered(answer.found)
         /\ call.kind \notin Queries \union {"create"} => answer' = Answered({})
         /\ Stored(tables) = [i \in EntityIds |-> EntityIn(tables, i)]
         /\ Stored(tables)' = [i \in EntityIds |-> EntityIn(work, i)]
<1>1. phase = "commit" /\ call \in Ops /\ call # NoCall
  BY DEF Commit, EntityInv, TypeInv, TypeOK, PhaseInv
<1>2. answer # Failed
  BY <1>1 DEF ContentInv, AnswerInv
<1>3. tables' = work /\ call' = NoCall
  BY DEF Commit, Answer
<1>7. answer' = CASE call.kind = "create" -> Answered({seen})
                  [] call.kind \in Queries -> Answered(answer.found)
                  [] OTHER -> Answered({})
  BY <1>2 DEF Commit, Answer
<1>8. "create" \notin Queries
  BY DEF Queries
<1>9. /\ call.kind = "create" => answer' = Answered({seen})
      /\ call.kind \in Queries => answer' = Answered(answer.found)
      /\ call.kind \notin Queries \union {"create"} => answer' = Answered({})
  BY <1>7, <1>8
<1>4. Numbered(tables, serial) /\ IdsDiffer(tables) /\ Numbered(work, serial) /\ IdsDiffer(work)
  BY <1>1, CommittedIds DEF ContentInv, RowIdsInv
<1>5. /\ Stored(tables) = [i \in EntityIds |-> EntityIn(tables, i)]
      /\ Stored(work) = [i \in EntityIds |-> EntityIn(work, i)]
  BY <1>4, StoredIs
<1>6. Stored(tables)' = Stored(work)
  BY <1>3
<1> QED
  BY <1>1, <1>2, <1>3, <1>5, <1>6, <1>9 DEF ContentInv, AskedInv

(* One entity is replaced by another.                                      *)
LEMMA OneStored ==
  ASSUME EntityInv, ContentInv, Commit, tx # "failed", call.kind \in ChangingOne, seen # 0
  PROVE  Stored(tables)' = [Stored(tables) EXCEPT ![seen] =
           Entity(NewRoot(call, tables, seen), NewSubs(call, tables, seen),
                  NewVals(call, tables, seen), NewLinks(call, tables, seen))]
<1>1. phase = "commit" /\ seen \in EntityIds
  BY CommitStores, SeenExists
<1>2. PICK new : new = Entity(NewRoot(call, tables, seen), NewSubs(call, tables, seen),
                              NewVals(call, tables, seen), NewLinks(call, tables, seen))
  OBVIOUS
<1>3. /\ \A j \in EntityIds \ {seen} : EntityIn(work, j) = EntityIn(tables, j)
      /\ EntityIn(work, seen) = new
  BY <1>1, <1>2, CommittedOne
<1>4. /\ Stored(tables) = [i \in EntityIds |-> EntityIn(tables, i)]
      /\ Stored(tables)' = [i \in EntityIds |-> EntityIn(work, i)]
  BY CommitStores
<1>5. Stored(tables)' = [Stored(tables) EXCEPT ![seen] = new]
  BY <1>1, <1>3, <1>4
<1> QED
  BY <1>2, <1>5

(* createEntity.                                                           *)
LEMMA CreatePerforms ==
  ASSUME EntityInv, ContentInv, Commit, tx # "failed", call.kind = "create"
  PROVE  Store!Performed("caller", call)
<1>1. /\ phase = "commit" /\ call \in Ops /\ call.as = user /\ call' = NoCall /\ answer' = Answered({seen})
      /\ call.kind \in ChangingOne
  BY CommitStores DEF ChangingOne
<1>2. seen # 0 /\ user \in {NoAccount, call.owner}
  <2>1. seen \in EntityIds
    BY <1>1 DEF ContentInv, ReadInv
  <2> QED
    BY <1>1, <2>1, ConstantsAssumption DEF ContentInv, ReadInv
<1>3. seen \in EntityIds /\ tables.root[seen] = Absent
  BY <1>1, <1>2, SeenExists
<1>4. PICK e : e = EntityOf(call.owner, 1, call.value, Indexed(call.values), call.tags, call.links)
  OBVIOUS
<1>5. Entity(NewRoot(call, tables, seen), NewSubs(call, tables, seen),
             NewVals(call, tables, seen), NewLinks(call, tables, seen)) = e
  BY <1>1, <1>3, <1>4, TablesWell, CreatedFields
<1>6. Stored(tables)' = [Stored(tables) EXCEPT ![seen] = e]
  BY <1>1, <1>2, <1>5, OneStored
<1>7. Stored(tables)[seen] = Store!Absent
  BY <1>3, TablesWell, StoredFacts DEF Store!Absent, Absent
<1>8. Answering' = [Answering EXCEPT !["caller"] = Store!Answered({seen})]
  <2>1. PICK result : result = Answered({seen})
    OBVIOUS
  <2>2. Answering' = [Answering EXCEPT !["caller"] = result]
    BY <1>1, <2>1, AnswerGiven
  <2> QED
    BY <2>1, <2>2 DEF Store!Answered, Answered
<1>9. e = [owner |-> call.owner, version |-> 1, value |-> call.value,
           subs |-> {<<k - 1, call.values[k]>> : k \in DOMAIN call.values},
           tags |-> call.tags, links |-> call.links]
  BY <1>4 DEF EntityOf, Indexed
<1>10. Store!Created("caller", call)
  BY <1>1, <1>2, <1>3, <1>6, <1>7, <1>8, <1>9 DEF Store!Created, Answering
<1> QED
  BY <1>10 DEF Store!Performed

(* A change of one stored entity, for EntityStore.                         *)
LEMMA FieldsPerform ==
  ASSUME NEW op \in Ops, op.kind \in ChangingOne \ {"create"}, NEW i \in Store!First(Store!Matching(op)),
         NEW e, e = Stored(tables)[i], Store!Updated(i, FieldsGiven(op, e)),
         op.kind = "addSubs" => e.subs = {}, op.kind = "addSubsByFilters" => op.values = <<>>,
         op.kind = "update" => op.subs = {} /\ op.expect \in {0, e.version},
         Answering' = [Answering EXCEPT !["caller"] = Store!Answered({})]
  PROVE  Store!Performed("caller", op)
<1>1. PICK fields : fields = FieldsGiven(op, e)
  OBVIOUS
<1>2. Store!Updated(i, fields)
  BY <1>1
<1>3. CASE op.kind \in {"addSubs", "addSubsByFilters"}
  <2>1. op.values = <<>> => DOMAIN op.values = {}
    OBVIOUS
  <2>2. e.subs = {} \/ DOMAIN op.values = {}
    BY <1>3, <2>1
  <2>3. PICK subs : subs = e.subs \union {<<0 + k - 1, op.values[k]>> : k \in DOMAIN op.values}
    OBVIOUS
  <2>4. Indexed(op.values) = {<<0 + k - 1, op.values[k]>> : k \in DOMAIN op.values}
    <3>1. \A k \in DOMAIN op.values : 0 + k - 1 = k - 1
      BY OpValues
    <3> QED
      BY <3>1 DEF Indexed
  <2>5. fields = [subs |-> subs]
    BY <1>1, <1>3, <2>3, <2>4 DEF FieldsGiven
  <2>6. Store!SubEntitiesAdded(op, i)
    <3>1. 0 \in 0..4
      OBVIOUS
    <3>2. \A sub \in e.subs, k \in DOMAIN op.values : sub[1] < 0 + k - 1
      BY <2>2
    <3> QED
      BY <1>2, <2>3, <2>5, <3>1, <3>2 DEF Store!SubEntitiesAdded
  <2> QED
    BY <1>3, <2>6 DEF Store!Performed, Store!OneChanged, Answering
<1>4. CASE op.kind \in {"removeSubs", "removeSubsByFilters"}
  <2>1. fields = [subs |-> {sub \in e.subs : ~op.all /\ sub[1] # op.sub}]
    BY <1>1, <1>4 DEF FieldsGiven
  <2>2. Store!SubEntitiesRemoved(op, i)
    BY <1>2, <2>1 DEF Store!SubEntitiesRemoved
  <2> QED
    BY <1>4, <2>2 DEF Store!Performed, Store!OneChanged, Answering
<1>5. CASE op.kind = "update"
  <2>1. fields = [value |-> IF op.value = 0 THEN e.value ELSE op.value,
                  tags |-> IF op.tags = <<>> THEN e.tags ELSE op.tags, subs |-> e.subs]
    BY <1>1, <1>5 DEF FieldsGiven
  <2>2. Store!EntityUpdated(op, i)
    BY <1>2, <1>5, <2>1 DEF Store!EntityUpdated
  <2> QED
    BY <1>5, <2>2 DEF Store!Performed, Store!OneChanged, Answering
<1>6. CASE op.kind = "addValues"
  <2>1. fields = [tags |-> e.tags \o op.tags]
    BY <1>1, <1>6 DEF FieldsGiven
  <2> QED
    BY <1>2, <1>6, <2>1 DEF Store!Performed, Store!OneChanged, Answering
<1>7. CASE op.kind = "removeValues"
  <2>1. fields = [tags |-> Store!Without(e.tags, op.tags)]
    BY <1>1, <1>7, StoreWithout DEF FieldsGiven
  <2> QED
    BY <1>2, <1>7, <2>1 DEF Store!Performed, Store!OneChanged, Answering
<1>8. CASE op.kind = "addLinks"
  <2>1. fields = [links |-> e.links \union op.links]
    BY <1>1, <1>8 DEF FieldsGiven
  <2> QED
    BY <1>2, <1>8, <2>1 DEF Store!Performed, Store!OneChanged, Answering
<1>9. CASE op.kind = "removeLinks"
  <2>1. fields = [links |-> {l \in e.links : ~op.all /\ l # op.sub}]
    BY <1>1, <1>9 DEF FieldsGiven
  <2> QED
    BY <1>2, <1>9, <2>1 DEF Store!Performed, Store!OneChanged, Answering
<1> QED
  BY <1>3, <1>4, <1>5, <1>6, <1>7, <1>8, <1>9
  DEF ChangingOne, ChangingValues, AddingOrRemovingSubs, AddingSubs, RemovingSubs

(* An operation that has changed one entity.                               *)
LEMMA ChangePerforms ==
  ASSUME EntityInv, ContentInv, Commit, tx # "failed", call.kind \in ChangingOne \ {"create"}, seen # 0
  PROVE  Store!Performed("caller", call)
<1>1. /\ phase = "commit" /\ call \in Ops /\ call.as = user /\ ~Defective(call) /\ call' = NoCall
      /\ answer' = Answered({}) /\ call.kind \in ChangingOne
  <2>1. call.kind \notin Queries \union {"create"}
    BY DEF ChangingOne, ChangingValues, AddingOrRemovingSubs, AddingSubs, RemovingSubs, Queries
  <2> QED
    BY <2>1, CommitStores
<1>2. /\ seen \in EntityIds /\ tables.root[seen] # Absent
      /\ seen \in First(Where(tables, call, user))
  BY <1>1, SeenExists
<1>3. PICK e : e = Stored(tables)[seen]
  OBVIOUS
<1>4. /\ e = EntityIn(tables, seen) /\ e.version = tables.root[seen].version
      /\ e.subs = PairsOf(tables.subs, seen)
  BY <1>2, <1>3, TablesWell, StoredFacts
<1>5. Entity(NewRoot(call, tables, seen), NewSubs(call, tables, seen),
             NewVals(call, tables, seen), NewLinks(call, tables, seen)) = WithFields(e, FieldsGiven(call, e))
  BY <1>1, <1>2, <1>4, TablesWell, CommittedOne, ChangedAsGiven
<1>6. Stored(tables)' = [Stored(tables) EXCEPT ![seen] = WithFields(e, FieldsGiven(call, e))]
  BY <1>1, <1>5, OneStored
<1>7. PICK fields : fields = FieldsGiven(call, e)
  OBVIOUS
<1>8. Store!Updated(seen, fields)
  BY <1>3, <1>6, <1>7, StoreUpdated
<1>9. Answering' = [Answering EXCEPT !["caller"] = Store!Answered({})]
  <2>1. PICK result : result = Answered({})
    OBVIOUS
  <2>2. Answering' = [Answering EXCEPT !["caller"] = result]
    BY <1>1, <2>1, AnswerGiven
  <2> QED
    BY <2>1, <2>2 DEF Store!Answered, Answered
<1>10. seen \in Store!First(Store!Matching(call))
  BY <1>1, <1>2, MatchingIsWhere
<1>11. ASSUME call.kind = "addSubs" PROVE e.subs = {}
  <2>1. SubsOf(tables, seen) = {}
    BY <1>1, <1>2, <1>11 DEF Defective, First
  <2>2. \A r \in tables.subs : r.row \in Nat
    BY TablesWell DEF Numbered
  <2>3. PairsOf(tables.subs, seen) = {<<s.id, s.value>> : s \in SubsOf(tables, seen)}
    BY <2>2, TablesWell, SubsOfIs
  <2> QED
    BY <1>4, <2>1, <2>3
<1>12. ASSUME call.kind = "addSubsByFilters" PROVE call.values = <<>>
  <2>1. Progressed(call, tables, work, queue, serial, seen, FALSE)
    BY <1>1 DEF ContentInv, WorkInv, Advanced
  <2> QED
    BY <1>12, <2>1 DEF Progressed
<1>13. ASSUME call.kind = "update" PROVE call.subs = {} /\ call.expect \in {0, e.version}
  <2>1. call.subs = {}
    BY <1>13 DEF EntityInv, CallInv
  <2>2. call.expect \in {0, tables.root[seen].version}
    BY <1>1, <1>13 DEF ContentInv, ReadInv
  <2> QED
    BY <1>4, <2>1, <2>2
<1> QED
  BY <1>1, <1>3, <1>7, <1>8, <1>9, <1>10, <1>11, <1>12, <1>13, FieldsPerform

(* An operation that has changed nothing, for the lack of an entity.       *)
LEMMA NothingPerforms ==
  ASSUME EntityInv, ContentInv, Commit, tx # "failed", call.kind \in ChangingOne, seen = 0
  PROVE  Store!Performed("caller", call)
<1>1. /\ phase = "commit" /\ call \in Ops /\ call.as = user /\ call' = NoCall /\ tables' = work
  BY CommitStores
<1>2. call.kind = "removeSubsByFilters" /\ Where(tables, call, user) = {}
  <2>1. seen \notin EntityIds
    BY ConstantsAssumption
  <2>2. seen \notin First(Where(tables, call, user))
    BY <2>1 DEF First, Where
  <2>3. call.kind # "create"
    BY <1>1, <2>1 DEF ContentInv, ReadInv
  <2> QED
    BY <1>1, <2>2, <2>3 DEF ContentInv, ReadInv
<1>3. answer' = Answered({})
  <2>1. call.kind \notin Queries \union {"create"}
    BY <1>2 DEF Queries
  <2> QED
    BY <2>1, CommitStores
<1>4. work = tables
  BY <1>1 DEF ContentInv, WorkInv, Advanced
<1>5. Stored(tables)' = Stored(tables)
  BY <1>1, <1>4
<1>6. Answering' = [Answering EXCEPT !["caller"] = Store!Answered({})]
  <2>1. PICK result : result = Answered({})
    OBVIOUS
  <2>2. Answering' = [Answering EXCEPT !["caller"] = result]
    BY <1>1, <1>3, <2>1, AnswerGiven
  <2> QED
    BY <2>1, <2>2 DEF Store!Answered, Answered
<1>7. Store!Matching(call) = {}
  BY <1>1, <1>2, MatchingIsWhere
<1> QED
  BY <1>2, <1>5, <1>6, <1>7 DEF Store!Performed, Answering

(* An entity that gets a value.                                            *)
ValueIn(e, y) == [e EXCEPT !.value = y, !.version = @ + 1]

(* Only its value and its version differ.                                  *)
LEMMA ValueGiven ==
  ASSUME NEW e, NEW o, NEW v, NEW x, NEW s, NEW g, NEW l, e = EntityOf(o, v, x, s, g, l), NEW y
  PROVE  ValueIn(e, y) = EntityOf(o, v + 1, y, s, g, l)
<1>1. PICK new : new = [e EXCEPT !.value = y, !.version = @ + 1]
  OBVIOUS
<1>2. /\ DOMAIN e = {"owner", "version", "value", "subs", "tags", "links"}
      /\ e.owner = o /\ e.version = v /\ e.value = x /\ e.subs = s /\ e.tags = g /\ e.links = l
  BY DEF EntityOf
<1>3. PICK w : w = v + 1
  OBVIOUS
<1>4. new = [name \in {"owner", "version", "value", "subs", "tags", "links"} |->
               IF name = "version" THEN w ELSE IF name = "value" THEN y ELSE e[name]]
  BY <1>1, <1>2, <1>3
<1>5. new = EntityOf(o, w, y, s, g, l)
  BY <1>2, <1>4 DEF EntityOf
<1> QED
  BY <1>1, <1>3, <1>5 DEF ValueIn

(* The rows of an entity of which only the root row changes.               *)
LEMMA RootChanged ==
  ASSUME NEW t, NEW u, u.subs = t.subs, u.vals = t.vals, u.links = t.links, NEW i
  PROVE  EntityIn(u, i) = Entity(u.root[i], PairsOf(t.subs, i), PairsOf(t.vals, i), LinksOf(t, i))
<1>1. LinksOf(u, i) = LinksOf(t, i)
  BY DEF LinksOf
<1> QED
  BY <1>1 DEF EntityIn

(* updateEntityByFilters and updateEntitiesByFilters.                      *)
LEMMA ManyPerform ==
  ASSUME EntityInv, ContentInv, Commit, tx # "failed", call.kind \in UpdatingMany
  PROVE  Store!Performed("caller", call)
<1>1. /\ phase = "commit" /\ call \in Ops /\ call.as = user /\ call' = NoCall /\ tables' = work
      /\ answer' = Answered({})
      /\ Stored(tables)' = [i \in EntityIds |-> EntityIn(work, i)]
  <2>1. call.kind \notin Queries \union {"create"}
    BY DEF UpdatingMany, Queries
  <2> QED
    BY <2>1, CommitStores
<1>2. /\ work.subs = tables.subs /\ work.vals = tables.vals /\ work.links = tables.links
      /\ \A i \in EntityIds : work.root[i] =
           IF i \in Where(tables, call, user)
           THEN Changed(tables.root[i], tables.root[i].version + 1, call.value) ELSE tables.root[i]
  BY <1>1, CommittedMany
<1>3. ASSUME NEW i \in EntityIds
      PROVE  EntityIn(work, i) = IF i \in Where(tables, call, user)
               THEN [Stored(tables)[i] EXCEPT !.value = call.value, !.version = @ + 1] ELSE Stored(tables)[i]
  <2>1. EntityIn(work, i) = Entity(work.root[i], PairsOf(tables.subs, i), PairsOf(tables.vals, i), LinksOf(tables, i))
    BY <1>2, RootChanged
  <2>2. Stored(tables)[i] = EntityIn(tables, i)
    BY TablesWell, StoredFacts
  <2>3. CASE i \notin Where(tables, call, user)
    BY <1>2, <2>1, <2>2, <2>3 DEF EntityIn
  <2>4. CASE i \in Where(tables, call, user)
    <3>1. PICK row : row = tables.root[i]
      OBVIOUS
    <3>2. tables.root[i] # Absent
      BY <2>4 DEF Where
    <3>3. row # Absent /\ row.version \in Nat \ {0} /\ IsRow(row)
      BY <3>1, <3>2, TablesWell, EntityFields
    <3>4. PICK s, g, l : /\ s = PairsOf(tables.subs, i) /\ g = Listed(PairsOf(tables.vals, i))
                         /\ l = LinksOf(tables, i)
      OBVIOUS
    <3>5. PICK v, y : v = row.version + 1 /\ y = call.value
      OBVIOUS
    <3>6. EntityIn(tables, i) = EntityOf(row.owner, row.version, row.value, s, g, l)
      BY <3>1, <3>3, <3>4 DEF EntityIn, Entity, EntityOf
    <3>11. PICK e : e = Stored(tables)[i]
      OBVIOUS
    <3>12. e = EntityOf(row.owner, row.version, row.value, s, g, l)
      BY <2>2, <3>6, <3>11
    <3>13. ValueIn(e, y) = EntityOf(row.owner, row.version + 1, y, s, g, l)
      BY <3>12, ValueGiven
    <3>7. [Stored(tables)[i] EXCEPT !.value = y, !.version = @ + 1] = EntityOf(row.owner, v, y, s, g, l)
      BY <3>5, <3>11, <3>13 DEF ValueIn
    <3>8. work.root[i] = [owner |-> row.owner, version |-> v, value |-> y]
      <4>1. work.root[i] = Changed(row, v, y)
        BY <1>2, <2>4, <3>1, <3>5
      <4> QED
        BY <3>3, <4>1, ChangedRow
    <3>9. work.root[i] # Absent
      <4>1. v # 0
        BY <3>3, <3>5
      <4> QED
        BY <3>8, <4>1 DEF Absent
    <3>10. EntityIn(work, i) = EntityOf(row.owner, v, y, s, g, l)
      BY <2>1, <3>4, <3>8, <3>9 DEF Entity, EntityOf
    <3> QED
      BY <2>4, <3>5, <3>7, <3>10
  <2> QED
    BY <2>3, <2>4
<1>4. Store!Matching(call) = Where(tables, call, user)
  BY <1>1, MatchingIsWhere
<1>5. Store!AllUpdated(call)
  BY <1>1, <1>3, <1>4 DEF Store!AllUpdated
<1>6. Answering' = [Answering EXCEPT !["caller"] = Store!Answered({})]
  <2>1. PICK result : result = Answered({})
    OBVIOUS
  <2>2. Answering' = [Answering EXCEPT !["caller"] = result]
    BY <1>1, <2>1, AnswerGiven
  <2> QED
    BY <2>1, <2>2 DEF Store!Answered, Answered
<1>7. call.kind = "updateByFilters" => Store!Matching(call) # {}
  <2>1. call.kind = "updateByFilters" => seen \in First(Where(tables, call, user))
    BY <1>1 DEF ContentInv, ReadInv
  <2> QED
    BY <1>4, <2>1 DEF First
<1> QED
  BY <1>5, <1>6, <1>7 DEF Store!Performed, Answering, UpdatingMany

(* The deletions.                                                          *)
LEMMA DeletionPerforms ==
  ASSUME EntityInv, ContentInv, Commit, tx # "failed", call.kind \in Deleting
  PROVE  Store!Performed("caller", call)
<1>1. /\ phase = "commit" /\ call \in Ops /\ call.as = user /\ call' = NoCall /\ tables' = work
      /\ answer' = Answered({})
      /\ Stored(tables) = [i \in EntityIds |-> EntityIn(tables, i)]
      /\ Stored(tables)' = [i \in EntityIds |-> EntityIn(work, i)]
  <2>1. call.kind \notin Queries \union {"create"}
    BY DEF Deleting, DeletingOne, Queries
  <2> QED
    BY <2>1, CommitStores
<1>2. /\ \A i \in Where(tables, call, user) : work.root[i] = Absent
      /\ \A i \in EntityIds \ Where(tables, call, user) : EntityIn(work, i) = EntityIn(tables, i)
  BY <1>1, CommittedDelete
<1>3. PICK gone : gone = Where(tables, call, user)
  OBVIOUS
<1>4. ASSUME NEW i \in EntityIds
      PROVE  EntityIn(work, i) = IF i \in gone THEN Store!Absent ELSE Stored(tables)[i]
  <2>1. i \in gone => EntityIn(work, i) = Absent
    BY <1>2, <1>3 DEF EntityIn, Entity
  <2>2. i \notin gone => EntityIn(work, i) = Stored(tables)[i]
    BY <1>1, <1>2, <1>3
  <2> QED
    BY <2>1, <2>2 DEF Store!Absent, Absent
<1>5. Store!Matching(call) = gone
  BY <1>1, <1>3, MatchingIsWhere
<1>6. Store!Removed(gone)
  BY <1>1, <1>4 DEF Store!Removed
<1>7. Answering' = [Answering EXCEPT !["caller"] = Store!Answered({})]
  <2>1. PICK result : result = Answered({})
    OBVIOUS
  <2>2. Answering' = [Answering EXCEPT !["caller"] = result]
    BY <1>1, <2>1, AnswerGiven
  <2> QED
    BY <2>1, <2>2 DEF Store!Answered, Answered
<1>8. Store!SomeRemoved(call)
  BY <1>5, <1>6 DEF Store!SomeRemoved
<1> QED
  BY <1>5, <1>6, <1>7, <1>8 DEF Store!Performed, Answering, Deleting, DeletingOne
----------------------------------------------------------------------------
(* What a query answers                                                    *)

(* The values that are listed are those of the pairs.                      *)
LEMMA ListedValues ==
  ASSUME NEW pairs, IsArray(pairs), NEW x
  PROVE  (\E k \in DOMAIN Listed(pairs) : Listed(pairs)[k] = x) <=> \E p \in pairs : p[2] = x
<1>1. PICK n : n = Cardinality(IdsOf(pairs))
  OBVIOUS
<1>2. PICK f : f = [k \in 1..n |-> Nth(IdsOf(pairs), k)]
  OBVIOUS
<1>3. PICK s : s = Listed(pairs)
  OBVIOUS
<1>4. pairs = {<<f[k], s[k]>> : k \in 1..n} /\ s = [k \in 1..n |-> s[k]]
  BY <1>1, <1>2, <1>3, ArrayFacts
<1>5. DOMAIN s = 1..n
  BY <1>4
<1>6. ASSUME NEW k \in 1..n, s[k] = x PROVE \E p \in pairs : p[2] = x
  <2>1. PICK p : p = <<f[k], s[k]>>
    OBVIOUS
  <2>2. p \in pairs /\ p[2] = x
    BY <1>4, <1>6, <2>1
  <2> QED
    BY <2>2
<1>7. ASSUME NEW p \in pairs, p[2] = x PROVE \E k \in 1..n : s[k] = x
  <2>1. PICK k \in 1..n : p = <<f[k], s[k]>>
    BY <1>4
  <2>2. s[k] = x
    BY <1>7, <2>1
  <2> QED
    BY <2>2
<1> QED
  BY <1>3, <1>5, <1>6, <1>7

(* doesEntityArrayFieldContainValue.                                       *)
LEMMA ContainsFound ==
  ASSUME EntityInv, ContentInv, call \in Ops, call.kind = "contains", call.as = user,
         user # NoAccount => Where(tables, call, user) # {}
  PROVE  Store!Found(call) = FoundIn(tables, call, user)
<1>1. call.id # 0 /\ call.filter = 0
  BY OpsAssumption
<1>2. PICK found : found = FoundIn(tables, call, user)
  OBVIOUS
<1>3. found = {i \in {call.id} : \E v \in tables.vals : v.fk = i /\ v.value = call.value}
  BY <1>2 DEF FoundIn
<1>4. PICK where : where = Where(tables, call, user)
  OBVIOUS
<1>5. \A i \in where : i = call.id /\ i \in EntityIds /\ tables.root[i] # Absent
  BY <1>1, <1>4 DEF Where
<1>6. ASSUME NEW v \in tables.vals, v.fk = call.id PROVE call.id \in where
  <2>1. call.id \in EntityIds /\ tables.root[call.id] # Absent
    BY <1>6, TablesWell DEF NoOrphansIn
  <2>2. CASE user = NoAccount
    BY <1>1, <1>4, <2>1, <2>2 DEF Where
  <2>3. CASE user # NoAccount
    BY <1>4, <1>5, <2>3
  <2> QED
    BY <2>2, <2>3
<1>7. ASSUME NEW i \in where
      PROVE  (\E k \in DOMAIN Stored(tables)[i].tags : Stored(tables)[i].tags[k] = call.value)
             <=> \E v \in tables.vals : v.fk = i /\ v.value = call.value
  <2>1. PICK pairs : pairs = PairsOf(tables.vals, i)
    OBVIOUS
  <2>2. Stored(tables)[i].tags = Listed(pairs) /\ IsArray(pairs)
    <3>1. Stored(tables)[i].tags = ValuesOf(tables, i)
      BY <1>5, TablesWell, StoredFacts
    <3> QED
      BY <2>1, <3>1, TablesWell, ValuesOfIs, ValuesAreArray
  <2>3. PICK x : x = call.value
    OBVIOUS
  <2>4. (\E p \in pairs : p[2] = x) <=> \E v \in tables.vals : v.fk = i /\ v.value = x
    <3>1. ASSUME NEW p \in pairs, p[2] = x PROVE \E v \in tables.vals : v.fk = i /\ v.value = x
      <4>1. PICK v \in tables.vals : v.fk = i /\ p = <<v.id, v.value>>
        BY <2>1 DEF PairsOf
      <4>2. v.value = x
        BY <3>1, <4>1
      <4> QED
        BY <4>1, <4>2
    <3>2. ASSUME NEW v \in tables.vals, v.fk = i, v.value = x PROVE \E p \in pairs : p[2] = x
      <4>1. PICK p : p = <<v.id, v.value>>
        OBVIOUS
      <4>2. p \in pairs /\ p[2] = x
        BY <2>1, <3>2, <4>1 DEF PairsOf
      <4> QED
        BY <4>2
    <3> QED
      BY <3>1, <3>2
  <2> QED
    BY <2>2, <2>3, <2>4, ListedValues
<1>8. Store!Matching(call) = where
  BY <1>4, MatchingIsWhere
<1>9. Store!Found(call) = {i \in where : \E k \in DOMAIN Stored(tables)[i].tags :
                             Stored(tables)[i].tags[k] = call.value}
  BY <1>8 DEF Store!Found
<1>10. {i \in where : \E k \in DOMAIN Stored(tables)[i].tags : Stored(tables)[i].tags[k] = call.value}
         = {i \in where : \E v \in tables.vals : v.fk = i /\ v.value = call.value}
  BY <1>7
<1>11. {i \in where : \E v \in tables.vals : v.fk = i /\ v.value = call.value} = found
  BY <1>3, <1>5, <1>6
<1> QED
  BY <1>2, <1>9, <1>10, <1>11

(* What the queries find is what EntityStore says.                         *)
LEMMA FoundIsFound ==
  ASSUME EntityInv, ContentInv, call \in Ops, call.kind \in Queries \ {"getByIds"}, call.as = user,
         call.kind = "contains" /\ user # NoAccount => Where(tables, call, user) # {}
  PROVE  Store!Found(call) = FoundIn(tables, call, user)
<1>1. /\ Store!Matching(call) = Where(tables, call, user)
      /\ Store!First(Store!Matching(call)) = First(Where(tables, call, user))
  BY MatchingIsWhere
<1>2. CASE call.kind \in {"get", "getByFilters"}
  BY <1>1, <1>2 DEF Store!Found, FoundIn
<1>3. CASE call.kind = "contains"
  BY <1>3, ContainsFound
<1>4. CASE call.kind = "getAll"
  <2>1. call.id = 0 /\ call.filter = 0
    BY <1>4, OpsAssumption
  <2>2. Where(tables, call, user)
          = {i \in EntityIds : tables.root[i] # Absent /\ user \in {NoAccount, tables.root[i].owner}}
    BY <2>1 DEF Where
  <2>3. Store!Found(call) = Where(tables, call, user)
    BY <1>1, <1>4 DEF Store!Found
  <2>4. FoundIn(tables, call, user)
          = {i \in EntityIds : tables.root[i] # Absent /\ user \in {NoAccount, tables.root[i].owner}}
    BY <1>4 DEF FoundIn
  <2> QED
    BY <2>2, <2>3, <2>4
<1>5. CASE call.kind = "getEntities"
  BY <1>1, <1>5 DEF Store!Found, FoundIn
<1> QED
  BY <1>2, <1>3, <1>4, <1>5 DEF Queries

(* A query, as EntityStore performs it.                                    *)
LEMMA QueryPerforms ==
  ASSUME EntityInv, ContentInv, call \in Ops, call.kind \in Queries \ {"getByIds"}, call.as = user,
         call.kind = "contains" /\ user # NoAccount => Where(tables, call, user) # {},
         NEW ids, ids = FoundIn(tables, call, user), call.kind \in {"get", "getByFilters"} => ids # {},
         tables' = tables, call' = NoCall, answer' = Answered(ids)
  PROVE  Store!Performed("caller", call)
<1>1. Store!Found(call) = ids
  BY FoundIsFound
<1>2. Stored(tables)' = Stored(tables)
  OBVIOUS
<1>3. Answering' = [Answering EXCEPT !["caller"] = Store!Answered(ids)]
  <2>1. PICK result : result = Answered(ids)
    OBVIOUS
  <2>2. Answering' = [Answering EXCEPT !["caller"] = result]
    BY <2>1, AnswerGiven
  <2> QED
    BY <2>1, <2>2 DEF Store!Answered, Answered
<1>4. call.kind \in {"get", "getByFilters", "getEntities", "getByIds", "getAll", "count", "contains"}
  BY DEF Queries
<1> QED
  BY <1>1, <1>2, <1>3, <1>4 DEF Store!Performed, Answering
----------------------------------------------------------------------------
(* SqlEntityOperations implements EntityStore                              *)

(* COMMIT is the moment at which an operation takes effect; of a failed    *)
(* transaction it is an error, and nothing has changed.                    *)
LEMMA CommitRefines ==
  ASSUME EntityInv, ContentInv, Commit
  PROVE  Store!Next
<1>1. phase = "commit" /\ call \in Ops /\ call # NoCall /\ call' = NoCall /\ call.kind \in Kinds
  BY OpsAreCalls DEF Commit, Answer, EntityInv, TypeInv, TypeOK, PhaseInv
<1>2. CASE tx = "failed"
  <2>1. answer = Failed
    BY <1>1, <1>2 DEF ContentInv, AnswerInv
  <2>2. tables' = tables /\ answer' = Failed
    BY <1>2, <2>1 DEF Commit, Answer
  <2> QED
    BY <1>1, <2>2, StoreRefuses
<1>3. CASE tx # "failed"
  <2>1. CASE call.kind = "create"
    BY <1>1, <1>3, <2>1, CreatePerforms, StorePerforms
  <2>2. CASE call.kind \in ChangingOne \ {"create"} /\ seen # 0
    BY <1>1, <1>3, <2>2, ChangePerforms, StorePerforms
  <2>3. CASE call.kind \in ChangingOne /\ seen = 0
    BY <1>1, <1>3, <2>3, NothingPerforms, StorePerforms
  <2>4. CASE call.kind \in UpdatingMany
    BY <1>1, <1>3, <2>4, ManyPerform, StorePerforms
  <2>5. CASE call.kind \in Deleting
    BY <1>1, <1>3, <2>5, DeletionPerforms, StorePerforms
  <2>6. CASE call.kind \in Queries
    <3>1. /\ call.as = user /\ tables' = work /\ answer # Failed /\ answer' = Answered(answer.found)
      BY <1>3, <2>6, CommitStores
    <3>2. /\ work = tables /\ answer.found = FoundIn(tables, call, user) /\ call.kind # "getByIds"
          /\ call.kind \in {"get", "getByFilters"} => FoundIn(tables, call, user) # {}
      BY <1>1, <2>6, <3>1 DEF ContentInv, WorkInv, Advanced
    <3>3. call.kind = "contains" /\ user # NoAccount => Where(tables, call, user) # {}
      BY <1>1 DEF ContentInv, ReadInv
    <3>4. PICK ids : ids = FoundIn(tables, call, user)
      OBVIOUS
    <3>5. Store!Performed("caller", call)
      BY <1>1, <2>6, <3>1, <3>2, <3>3, <3>4, QueryPerforms
    <3> QED
      BY <1>1, <3>5, StorePerforms
  <2> QED
    BY <1>1, <2>1, <2>2, <2>3, <2>4, <2>5, <2>6 DEF Kinds, ChangingOne, UpdatingMany
<1> QED
  BY <1>2, <1>3

(* A query outside a transaction takes effect when it is answered.         *)
LEMMA QueryRefines ==
  ASSUME EntityInv, ContentInv, Query
  PROVE  Store!Next \/ UNCHANGED Store!vars
<1>1. /\ phase = "query" /\ call \in Ops /\ call # NoCall /\ tables' = tables
      /\ call.as = user /\ account = user /\ work = tables
  BY DEF Query, EntityInv, TypeInv, TypeOK, PhaseInv, AccountInv, ContentInv, AskedInv, WorkInv
<1>2. CASE InTransaction(call)
  <2>1. call' = call
    BY <1>2 DEF Query
  <2>2. Answering' = Answering
    BY <1>1, <2>1 DEF Answering
  <2> QED
    BY <1>1, <2>1, <2>2, StoreStutters
<1>3. CASE ~InTransaction(call)
  <2>1. /\ call' = NoCall /\ answer' = Answered(Found(call)) /\ call.kind # "getByIds"
        /\ call.kind \in {"get", "getByFilters"} => Found(call) # {}
    BY <1>3 DEF Query, Answer
  <2>2. call.kind \in Queries /\ (call.kind = "contains" /\ user # NoAccount => Where(tables, call, user) # {})
    BY <1>1 DEF ContentInv, ReadInv
  <2>3. Found(call) = FoundIn(tables, call, user)
    BY <1>1 DEF Found, FoundIn, doesEntityArrayFieldContainValue, getAllEntities
  <2>4. PICK ids : ids = FoundIn(tables, call, user)
    OBVIOUS
  <2>5. Store!Performed("caller", call)
    BY <1>1, <2>1, <2>2, <2>3, <2>4, QueryPerforms
  <2> QED
    BY <1>1, <2>1, <2>5, StorePerforms
<1> QED
  BY <1>2, <1>3

(* The initial states are those of EntityStore.                            *)
LEMMA InitRefines == Init => Store!Init
<1> SUFFICES ASSUME Init PROVE Store!Init
  OBVIOUS
<1>1. Stored(tables) \in {Stored(t) : t \in InitialTables}
  BY DEF Init
<1>2. Asking = [c \in {"caller"} |-> NoCall] /\ Answering = [c \in {"caller"} |-> NoAnswer]
  BY DEF Init, Asking, Answering
<1> QED
  BY <1>1, <1>2 DEF Store!Init, Asking, Answering, Store!NoCall, NoCall, Store!NoAnswer, NoAnswer

(* Every step is a step of EntityStore, or changes nothing of it.          *)
LEMMA StepRefines ==
  ASSUME EntityInv, ContentInv, ~Deviations, [Next]_vars
  PROVE  Store!Next \/ UNCHANGED Store!vars
<1>a. phase # "idle" <=> call # NoCall
  BY DEF EntityInv, TypeInv, TypeOK
<1>b. tables' = tables \/ Commit
  BY TablesChange
<1>c. queue # <<>> => phase \in {"run", "failing"}
  BY NextStatement
<1>s. ASSUME call' = call, ~Commit, phase # "idle" PROVE UNCHANGED Store!vars
  <2>1. Answering' = Answering
    BY <1>a, <1>s DEF Answering
  <2> QED
    BY <1>b, <1>s, <2>1, StoreStutters
<1>r. ASSUME Answer(Failed), ~Commit, phase # "idle" PROVE Store!Next
  BY <1>a, <1>b, <1>r, StoreRefuses DEF Answer
<1>f. ASSUME Fail, ~Commit, phase # "idle" PROVE Store!Next \/ UNCHANGED Store!vars
  BY <1>r, <1>s, <1>f DEF Fail
<1>1. ASSUME NEW op \in Ops, Ask(op) PROVE Store!Next
  BY <1>a, <1>1, StoreAsks DEF Ask
<1>2. CASE \/ Begin \/ InsertRoot \/ Send \/ AllAnswered \/ ReadBackFails \/ PostHookPasses
  <2>1. call' = call /\ ~Commit /\ phase # "idle"
    BY <1>2 DEF Begin, InsertRoot, Send, AllAnswered, ReadBackFails, PostHookPasses, Commit
  <2> QED
    BY <1>s, <2>1
<1>3. CASE Execute \/ ExecuteFails
  <2>1. call' = call /\ ~Commit /\ phase # "idle"
    BY <1>c, <1>3 DEF Execute, ExecuteFails, Commit
  <2> QED
    BY <1>s, <2>1
<1>4. CASE BeginFails \/ ExecuteRollback \/ QueryFindsNothing
  <2>1. Answer(Failed) /\ ~Commit /\ phase # "idle"
    BY <1>c, <1>4 DEF BeginFails, ExecuteRollback, QueryFindsNothing, Commit
  <2> QED
    BY <1>r, <2>1
<1>5. CASE PreHookRefuses \/ WriteFails \/ PostHookRefuses \/ PostHookThrows \/ QueryFails
  <2>1. Fail /\ ~Commit /\ phase # "idle"
    BY <1>5 DEF PreHookRefuses, WriteFails, PostHookRefuses, PostHookThrows, QueryFails, Commit
  <2> QED
    BY <1>f, <2>1
<1>6. CASE CheckOwner \/ ReadEntity \/ ReadEntityFails \/ PreHooksPass \/ UpdateVersion
  <2>1. (Fail \/ call' = call) /\ ~Commit /\ phase # "idle"
    BY <1>6 DEF CheckOwner, ReadEntity, ReadEntityFails, PreHooksPass, UpdateVersion, Commit
  <2> QED
    BY <1>f, <1>s, <2>1
<1>7. CASE CommitFails
  <2>1. Fail /\ tables' = tables /\ phase = "commit"
    BY <1>7 DEF CommitFails
  <2>2. CASE Answer(Failed)
    BY <1>a, <2>1, <2>2, StoreRefuses DEF Answer
  <2>3. CASE call' = call
    <3>1. Answering' = Answering
      BY <1>a, <2>1, <2>3 DEF Answering
    <3> QED
      BY <2>1, <2>3, <3>1, StoreStutters
  <2> QED
    BY <2>1, <2>2, <2>3 DEF Fail
<1>8. CASE Commit
  BY <1>8, CommitRefines
<1>9. CASE Query
  BY <1>9, QueryRefines
<1>10. CASE UNCHANGED vars
  <2>1. tables' = tables /\ call' = call /\ answer' = answer
    BY <1>10 DEF vars
  <2>2. Answering' = Answering
    BY <2>1 DEF Answering
  <2> QED
    BY <2>1, <2>2, StoreStutters
<1> QED
  BY <1>1, <1>2, <1>3, <1>4, <1>5, <1>6, <1>7, <1>8, <1>9, <1>10 DEF Next, DataStoreStep

(* The operations do to the stored entities what EntityStore says, each at *)
(* one moment, or answer an error and have changed nothing, whatever       *)
(* statement fails: for all entities, rows, user accounts and calls, as    *)
(* long as no call is made that departs from EntityStore.                  *)
THEOREM EntityStoreImplemented ==
  ASSUME ~Deviations
  PROVE  Spec => ImplementsEntityStore
<1>1. EntityInv /\ ContentInv /\ [Next]_vars => [Store!Next]_(Store!vars)
  BY StepRefines
<1> QED
  BY <1>1, InitRefines, ContentInvariant, PTL DEF Spec, ImplementsEntityStore, Store!Spec
=============================================================================
