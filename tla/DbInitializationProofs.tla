------------------------ MODULE DbInitializationProofs ------------------------
(***************************************************************************)
(* Proofs about DbInitialization, for every number of pods, every sequence *)
(* of parts of the schema and every number of errors and crashes.          *)
(***************************************************************************)
EXTENDS DbInitialization, TLAPS, FiniteSetTheorems, SequenceTheorems

Initializes(p) == pc[p] \in {"select", "create", "unique", "key", "mark"}

(* A part that a pod need not look at again.                               *)
Settled(x) == x \in schema \/ (x \in Indexes /\ x \in lost)

(* What a pod has looked at or created exists: nothing is ever dropped.    *)
LookedAtExist(p) ==
  /\ Initializes(p) =>
       \A x \in PartNames \ todo[p] : (pc[p] = "create" /\ x = part[p]) \/ Settled(x)
  /\ pc[p] = "create" => part[p] \in Tables \union ForeignIds
  /\ pc[p] \in {"unique", "key"} => part[p] \in ForeignIds
  /\ pc[p] = "key" => <<part[p], "unique index">> \in constraints
  /\ pc[p] = "mark" => todo[p] = {}

PartsLookedAtExist == \A p \in Pods : LookedAtExist(p)

(* The column of a foreign id is not left without its constraints unless a *)
(* try has given them up.                                                  *)
ConstraintsKept == \A x \in ForeignIds : x \in schema => ConstraintsComplete(x)

SchemaInv == PartsLookedAtExist /\ ConstraintsKept /\ InitializedMeansSchema

(* Until the row is removed, there is an initializing pod only when there  *)
(* is a row, and no second one.                                            *)
RowElects ==
  ~removed =>
    /\ row = "absent" => \A p \in Pods : ~Initializes(p)
    /\ \A p, q \in Pods : Initializes(p) /\ Initializes(q) => p = q

----------------------------------------------------------------------------
(* Every part has one of the four kinds.                                   *)
LEMMA KindsOfParts ==
  /\ PartNames = Tables \union ForeignIds \union Indexes
  /\ Tables \intersect ForeignIds = {}
  /\ Indexes \intersect (Tables \union ForeignIds) = {}
  /\ OfKind("index") \subseteq Indexes /\ OfKind("unique index") \subseteq Indexes
  /\ NoPart \notin PartNames
<1>1. ASSUME NEW x \in PartNames PROVE Parts[x] \in {"table", "index", "unique index", "foreign id"}
  BY DbInitializationAssumption, ElementOfSeq, Zenon DEF PartNames
<1>2. PartNames = Tables \union ForeignIds \union Indexes
  BY <1>1 DEF Tables, ForeignIds, Indexes, OfKind
<1>3. /\ Tables \intersect ForeignIds = {}
      /\ Indexes \intersect (Tables \union ForeignIds) = {}
      /\ OfKind("index") \subseteq Indexes /\ OfKind("unique index") \subseteq Indexes
  BY DEF Tables, ForeignIds, Indexes, OfKind
<1>4. NoPart \notin PartNames
  BY DEF PartNames, NoPart
<1>. QED BY <1>2, <1>3, <1>4

LEMMA BoundsAreNat == MaxErrors \in Nat /\ MaxCrashes \in Nat
BY DbInitializationAssumption

(* The initial values have their types, and steps keep them.               *)
LEMMA InitialTypes == Init => TypeOK
<1>. SUFFICES ASSUME Init PROVE TypeOK
  OBVIOUS
<1>1. /\ todo \in [Pods -> SUBSET PartNames]
      /\ listed \in [Pods -> SUBSET ForeignIds] /\ twice \in [Pods -> SUBSET ForeignIds]
  <2>1. {} \in SUBSET PartNames /\ {} \in SUBSET ForeignIds
    OBVIOUS
  <2>. QED BY <2>1 DEF Init
<1>2. errors \in 0..MaxErrors /\ crashes \in 0..MaxCrashes
  BY BoundsAreNat DEF Init
<1>3. part \in [Pods -> PartNames \union {NoPart}]
  BY DEF Init
<1>. QED BY <1>1, <1>2, <1>3 DEF Init, TypeOK, PCs

(* The lists of foreign ids keep their types.                              *)
LEMMA ListsTyped ==
  ASSUME NEW p \in Pods, NEW x \in PartNames, TypeOK,
         ListForeignIds(p, x) \/ UNCHANGED listVars
  PROVE  listed' \in [Pods -> SUBSET ForeignIds] /\ twice' \in [Pods -> SUBSET ForeignIds]
<1>1. CASE UNCHANGED listVars
  BY <1>1 DEF listVars, TypeOK
<1>2. CASE ListForeignIds(p, x)
  <2>. DEFINE new == {y \in ForeignIds : Owner[y] = x}
  <2>1. listed[p] \union new \in SUBSET ForeignIds /\ twice[p] \union (listed[p] \intersect new) \in SUBSET ForeignIds
    BY DEF TypeOK
  <2>. QED BY <1>2, <2>1 DEF ListForeignIds, TypeOK
<1>. QED BY <1>1, <1>2

(* What is given up is a part.                                             *)
LEMMA GivenUpTyped ==
  ASSUME NEW p \in Pods, TypeOK, PartsLookedAtExist, GiveUpPart(p)
  PROVE  lost' \subseteq PartNames
<1>1. pc[p] \in {"unique", "key"} => part[p] \in PartNames
  BY KindsOfParts DEF PartsLookedAtExist, LookedAtExist
<1>. QED BY <1>1 DEF GiveUpPart, TypeOK

LEMMA AbandonTyped ==
  ASSUME NEW p \in Pods, TypeOK, PartsLookedAtExist, Abandon(p),
         listed' \in [Pods -> SUBSET ForeignIds], twice' \in [Pods -> SUBSET ForeignIds],
         errors' \in 0..MaxErrors
  PROVE  TypeOK'
<1>1. lost' \subseteq PartNames
  BY GivenUpTyped DEF Abandon
<1>2. todo' \in [Pods -> SUBSET PartNames] /\ part' \in [Pods -> PartNames \union {NoPart}]
  BY DEF Abandon, TypeOK
<1>3. pc' \in [Pods -> PCs]
  BY DEF Abandon, Goto, TypeOK, PCs
<1>. QED BY <1>1, <1>2, <1>3 DEF Abandon, TypeOK, rowVars, lifeVars

LEMMA TypeInvariance == TypeOK /\ PartsLookedAtExist /\ [Next]_vars => TypeOK'
<1>. SUFFICES ASSUME TypeOK, PartsLookedAtExist, [Next]_vars PROVE TypeOK'
  OBVIOUS
<1>. USE BoundsAreNat DEF TypeOK, PCs, Goto, rowVars, dbVars, podVars, lifeVars, tryVars, listVars
<1>1. ASSUME NEW p \in Pods, InsertRow(p) PROVE TypeOK'
  BY <1>1 DEF InsertRow
<1>2. ASSUME NEW p \in Pods, FindRow(p) PROVE TypeOK'
  BY <1>2 DEF FindRow
<1>3. ASSUME NEW p \in Pods, NEW x \in PartNames, Select(p, x) PROVE TypeOK'
  <2>1. listed' \in [Pods -> SUBSET ForeignIds] /\ twice' \in [Pods -> SUBSET ForeignIds]
    BY <1>3, ListsTyped DEF Select
  <2>2. todo' \in [Pods -> SUBSET PartNames]
    BY <1>3 DEF Select, Done
  <2>3. part' \in [Pods -> PartNames \union {NoPart}] /\ pc' \in [Pods -> PCs]
    BY <1>3 DEF Select
  <2>. QED BY <1>3, <2>1, <2>2, <2>3 DEF Select
<1>4. ASSUME NEW p \in Pods, NEW x \in PartNames, CreateIndex(p, x) PROVE TypeOK'
  <2>1. todo' \in [Pods -> SUBSET PartNames]
    BY <1>4 DEF CreateIndex, Done
  <2>. QED BY <1>4, <2>1 DEF CreateIndex
<1>5. ASSUME NEW p \in Pods, NEW x \in PartNames, CreateIndexFails(p, x) PROVE TypeOK'
  <2>1. todo' \in [Pods -> SUBSET PartNames]
    BY <1>5 DEF CreateIndexFails, Done
  <2>2. errors' \in 0..MaxErrors
    <3>1. UNCHANGED errors \/ DatabaseError
      BY <1>5, Zenon DEF CreateIndexFails
    <3>. QED BY <3>1 DEF DatabaseError
  <2>. QED BY <1>5, <2>1, <2>2 DEF CreateIndexFails
<1>6. ASSUME NEW p \in Pods, Create(p) PROVE TypeOK'
  <2>1. part[p] \in PartNames
    BY <1>6, KindsOfParts DEF Create, PartsLookedAtExist, LookedAtExist
  <2>. QED BY <1>6, <2>1 DEF Create, GoOnCreating, PartDone
<1>7. ASSUME NEW p \in Pods, PartExists(p) PROVE TypeOK'
  <2>1. errors' \in 0..MaxErrors
    BY <1>7 DEF PartExists, DatabaseError
  <2>. QED BY <1>7, <2>1, AbandonTyped DEF PartExists, Throw
<1>8. ASSUME NEW p \in Pods, AddUniqueIndex(p) PROVE TypeOK'
  <2>1. <<part[p], "unique index">> \in ForeignIds \X Constraints
    BY <1>8 DEF AddUniqueIndex, PartsLookedAtExist, LookedAtExist, Constraints
  <2>. QED BY <1>8, <2>1 DEF AddUniqueIndex, AddConstraint, GoOnCreating
<1>9. ASSUME NEW p \in Pods, AddForeignKey(p) PROVE TypeOK'
  <2>1. <<part[p], "foreign key">> \in ForeignIds \X Constraints
    BY <1>9 DEF AddForeignKey, PartsLookedAtExist, LookedAtExist, Constraints
  <2>. QED BY <1>9, <2>1 DEF AddForeignKey, AddConstraint, GoOnCreating, PartDone
<1>10. ASSUME NEW p \in Pods, LoopsDone(p) PROVE TypeOK'
  BY <1>10 DEF LoopsDone
<1>11. ASSUME NEW p \in Pods, SetDbInitialized(p) PROVE TypeOK'
  BY <1>11 DEF SetDbInitialized
<1>12. ASSUME NEW p \in Pods, ExecuteTasks(p) PROVE TypeOK'
  BY <1>12 DEF ExecuteTasks
<1>13. ASSUME NEW p \in Pods, InitializeCronTable(p) PROVE TypeOK'
  BY <1>13 DEF InitializeCronTable
<1>14. ASSUME NEW p \in Pods, CronTableFails(p) PROVE TypeOK'
  <2>1. errors' \in 0..MaxErrors
    BY <1>14 DEF CronTableFails, DatabaseError
  <2>. QED BY <1>14, <2>1, AbandonTyped DEF CronTableFails, Throw
<1>15. ASSUME NEW p \in Pods, RemoveDbInitialization(p) PROVE TypeOK'
  BY <1>15 DEF RemoveDbInitialization, ReturnFalse
<1>16. ASSUME NEW p \in Pods, TryAgain(p) PROVE TypeOK'
  BY <1>16 DEF TryAgain
<1>17. ASSUME NEW p \in Pods, Restart(p) PROVE TypeOK'
  BY <1>17 DEF Restart
<1>18. ASSUME NEW p \in Pods, NotReady(p) PROVE TypeOK'
  BY <1>18 DEF NotReady, ReturnFalse, DatabaseError
<1>19. ASSUME NEW p \in Pods, SelectFails(p) PROVE TypeOK'
  <2>1. errors' \in 0..MaxErrors
    BY <1>19 DEF SelectFails, DatabaseError
  <2>. QED BY <1>19, <2>1, AbandonTyped DEF SelectFails, Throw
<1>20. ASSUME NEW p \in Pods, NEW x \in PartNames, SelectFailsForTable(p, x) PROVE TypeOK'
  <2>1. listed' \in [Pods -> SUBSET ForeignIds] /\ twice' \in [Pods -> SUBSET ForeignIds]
    BY <1>20, ListsTyped DEF SelectFailsForTable
  <2>2. todo' \in [Pods -> SUBSET PartNames]
    BY <1>20 DEF SelectFailsForTable, Done
  <2>3. part' \in [Pods -> PartNames \union {NoPart}] /\ pc' \in [Pods -> PCs]
    BY <1>20 DEF SelectFailsForTable
  <2>4. errors' \in 0..MaxErrors
    BY <1>20 DEF SelectFailsForTable, DatabaseError
  <2>. QED BY <1>20, <2>1, <2>2, <2>3, <2>4 DEF SelectFailsForTable
<1>21. ASSUME NEW p \in Pods, NEW x \in PartNames, AlterTableFails(p, x) PROVE TypeOK'
  <2>1. listed' \in [Pods -> SUBSET ForeignIds] /\ twice' \in [Pods -> SUBSET ForeignIds]
    <3>1. ListForeignIds(p, x) \/ UNCHANGED listVars
      BY <1>21, Zenon DEF AlterTableFails
    <3>. QED BY <3>1, ListsTyped
  <2>2. errors' \in 0..MaxErrors
    BY <1>21 DEF AlterTableFails, DatabaseError
  <2>3. Abandon(p)
    BY <1>21 DEF AlterTableFails
  <2>. QED BY <2>1, <2>2, <2>3, AbandonTyped
<1>22. ASSUME NEW p \in Pods, StatementFails(p) PROVE TypeOK'
  <2>1. errors' \in 0..MaxErrors
    BY <1>22 DEF StatementFails, DatabaseError
  <2>. QED BY <1>22, <2>1, AbandonTyped DEF StatementFails, Throw
<1>23. ASSUME NEW p \in Pods, TasksFail(p) PROVE TypeOK'
  <2>1. errors' \in 0..MaxErrors
    BY <1>23 DEF TasksFail, DatabaseError
  <2>. QED BY <1>23, <2>1, AbandonTyped DEF TasksFail, Throw
<1>24. ASSUME NEW p \in Pods, RemoveFails(p) PROVE TypeOK'
  BY <1>24 DEF RemoveFails, ReturnFalse, DatabaseError
<1>25. ASSUME NEW p \in Pods, Crash(p) PROVE TypeOK'
  <2>1. lost' \subseteq PartNames
    BY <1>25, GivenUpTyped DEF Crash
  <2>2. todo' \in [Pods -> SUBSET PartNames] /\ part' \in [Pods -> PartNames \union {NoPart}]
    BY <1>25 DEF Crash
  <2>3. listed' \in [Pods -> SUBSET ForeignIds] /\ twice' \in [Pods -> SUBSET ForeignIds]
    BY <1>25 DEF Crash
  <2>. QED BY <1>25, <2>1, <2>2, <2>3 DEF Crash
<1>26. ASSUME NEW p \in Pods, StartupCheck(p) PROVE TypeOK'
  BY <1>26 DEF StartupCheck
<1>27. ASSUME NEW p \in Pods, RemoveAgain(p) PROVE TypeOK'
  BY <1>27 DEF RemoveAgain
<1>28. CASE FiveMinutesPass
  BY <1>28 DEF FiveMinutesPass
<1>29. CASE UNCHANGED vars
  BY <1>29 DEF vars
<1>. QED BY <1>1, <1>2, <1>3, <1>4, <1>5, <1>6, <1>7, <1>8, <1>9, <1>10, <1>11, <1>12, <1>13, <1>14, <1>15, <1>16, <1>17, <1>18, <1>19, <1>20, <1>21, <1>22, <1>23, <1>24, <1>25, <1>26, <1>27, <1>28, <1>29 DEF Next, Proceed, Fail

----------------------------------------------------------------------------
(* Parts stay settled.                                                     *)
LEMMA SettledStays ==
  ASSUME schema \subseteq schema', lost \subseteq lost', NEW x
  PROVE  /\ Settled(x) => Settled(x)'
         /\ x \in schema' => Settled(x)'
BY DEF Settled

(* A step of p keeps the invariant when it drops nothing, keeps what p has *)
(* looked at, and does not leave a foreign id to nobody.                   *)
LEMMA OnePodMoves ==
  ASSUME NEW p \in Pods, SchemaInv,
         schema \subseteq schema', lost \subseteq lost', constraints \subseteq constraints',
         row' = "initialized" => row = "initialized" \/ pc[p] = "mark",
         \A q \in Pods \ {p} : pc'[q] = pc[q] /\ todo'[q] = todo[q] /\ part'[q] = part[q],
         LookedAtExist(p)',
         \A x \in ForeignIds : x \in schema' => x \in schema \/ ConstraintsComplete(x)',
         \A x \in ForeignIds :
           pc[p] \in {"unique", "key"} /\ part[p] = x => ConstraintsComplete(x)'
  PROVE  SchemaInv'
<1>1. PartsLookedAtExist'
  <2>. SUFFICES ASSUME NEW q \in Pods, q # p PROVE LookedAtExist(q)'
    BY DEF PartsLookedAtExist
  <2>. QED BY DEF SchemaInv, PartsLookedAtExist, LookedAtExist, Initializes, Settled
<1>2. ConstraintsKept'
  <2>. SUFFICES ASSUME NEW x \in ForeignIds, x \in schema PROVE ConstraintsComplete(x)'
    BY DEF ConstraintsKept
  <2>1. CASE \E q \in Pods : pc[q] \in {"unique", "key"} /\ part[q] = x
    <3>1. PICK q \in Pods : pc[q] \in {"unique", "key"} /\ part[q] = x
      BY <2>1
    <3>2. CASE q = p
      BY <3>1, <3>2
    <3>3. CASE q # p
      BY <3>1, <3>3 DEF ConstraintsComplete
    <3>. QED BY <3>2, <3>3
  <2>2. CASE {x} \X Constraints \subseteq constraints \/ x \in lost
    BY <2>2 DEF ConstraintsComplete
  <2>. QED BY <2>1, <2>2 DEF SchemaInv, ConstraintsKept, ConstraintsComplete
<1>3. InitializedMeansSchema'
  <2>. SUFFICES ASSUME row' = "initialized" PROVE InitializedMeansSchema'
    BY DEF InitializedMeansSchema
  <2>1. /\ Tables \union ForeignIds \subseteq schema'
        /\ Indexes \subseteq schema' \union lost'
    <3>1. CASE row = "initialized"
      BY <3>1 DEF SchemaInv, InitializedMeansSchema
    <3>2. CASE pc[p] = "mark"
      <4>1. \A x \in PartNames : Settled(x)
        BY <3>2 DEF SchemaInv, PartsLookedAtExist, LookedAtExist, Initializes
      <4>. QED BY <4>1, KindsOfParts DEF Settled
    <3>. QED BY <3>1, <3>2
  <2>. QED BY <1>2, <2>1 DEF InitializedMeansSchema, ConstraintsKept
<1>. QED BY <1>1, <1>2, <1>3 DEF SchemaInv

(* p comes to where it does not initialize, and was not at the constraints *)
(* of a foreign id.                                                        *)
LEMMA OnePodLeaves ==
  ASSUME NEW p \in Pods, SchemaInv,
         schema' = schema, constraints' = constraints,
         lost' = lost \/ GiveUpPart(p),
         pc[p] \in {"unique", "key"} => GiveUpPart(p),
         row' = "initialized" => row = "initialized" \/ pc[p] = "mark",
         \A q \in Pods \ {p} : pc'[q] = pc[q] /\ todo'[q] = todo[q] /\ part'[q] = part[q],
         ~Initializes(p)'
  PROVE  SchemaInv'
<1>1. LookedAtExist(p)'
  BY DEF LookedAtExist, Initializes
<1>2. lost \subseteq lost' /\ (pc[p] \in {"unique", "key"} => part[p] \in lost')
  BY DEF GiveUpPart
<1>3. \A x \in ForeignIds :
        pc[p] \in {"unique", "key"} /\ part[p] = x => ConstraintsComplete(x)'
  BY <1>2 DEF ConstraintsComplete
<1>. QED BY <1>1, <1>2, <1>3, OnePodMoves

(* The catch of initializeDatabase.                                        *)
LEMMA AbandonKeeps ==
  ASSUME NEW p \in Pods, TypeOK, SchemaInv, Abandon(p)
  PROVE  SchemaInv'
<1>1. ~Initializes(p)'
  BY DEF Abandon, Goto, Initializes, TypeOK
<1>2. \A q \in Pods \ {p} : pc'[q] = pc[q] /\ todo'[q] = todo[q] /\ part'[q] = part[q]
  BY DEF Abandon, Goto, TypeOK
<1>. QED BY <1>1, <1>2, OnePodLeaves DEF Abandon, rowVars

(* The parts that a pod has looked at or created go on existing.           *)
LEMMA SchemaInvariance == TypeOK /\ SchemaInv /\ [Next]_vars => SchemaInv'
<1>. SUFFICES ASSUME TypeOK, SchemaInv, [Next]_vars PROVE SchemaInv'
  OBVIOUS
<1>. USE DEF TypeOK, Goto, rowVars, dbVars, podVars, lifeVars, tryVars, listVars
<1>1. ASSUME NEW p \in Pods, InsertRow(p) PROVE SchemaInv'
  <2>1. LookedAtExist(p)'
    BY <1>1, KindsOfParts DEF InsertRow, SchemaInv, PartsLookedAtExist, LookedAtExist, Initializes, Settled, IsNext
  <2>2. \A q \in Pods \ {p} : pc'[q] = pc[q] /\ todo'[q] = todo[q] /\ part'[q] = part[q]
    BY <1>1 DEF InsertRow
  <2>3. pc[p] \notin {"unique", "key"}
    BY <1>1 DEF InsertRow, IsNext
  <2>. QED BY <1>1, <2>1, <2>2, <2>3, OnePodMoves DEF InsertRow
<1>2. ASSUME NEW p \in Pods, FindRow(p) PROVE SchemaInv'
  <2>1. ~Initializes(p)' /\ pc[p] \notin {"unique", "key"}
    BY <1>2 DEF FindRow, Initializes
  <2>2. \A q \in Pods \ {p} : pc'[q] = pc[q] /\ todo'[q] = todo[q] /\ part'[q] = part[q]
    BY <1>2 DEF FindRow
  <2>. QED BY <1>2, <2>1, <2>2, OnePodLeaves DEF FindRow
<1>3. ASSUME NEW p \in Pods, NEW x \in PartNames, Select(p, x) PROVE SchemaInv'
  <2>1. LookedAtExist(p)'
    <3>1. pc[p] = "select" /\ todo' = [todo EXCEPT ![p] = @ \ {x}]
      BY <1>3, Zenon DEF Select, Done, IsNext
    <3>2. todo'[p] = todo[p] \ {x}
      BY <3>1
    <3>3. \A y \in PartNames \ todo[p] : Settled(y)
      BY <3>1 DEF SchemaInv, PartsLookedAtExist, LookedAtExist, Initializes
    <3>4. schema \subseteq schema' /\ lost \subseteq lost'
      BY <1>3 DEF Select
    <3>5. \/ pc'[p] = "select" /\ Settled(x)'
          \/ pc'[p] = "create" /\ part'[p] = x /\ x \in Tables \union ForeignIds
      <4>1. x \in Tables \union ForeignIds
        BY <1>3, KindsOfParts DEF Select
      <4>2. CASE x \in schema
        <5>1. x \in schema' /\ pc' = pc
          BY <1>3, <4>2 DEF Select
        <5>. QED BY <3>1, <3>4, <5>1, SettledStays
      <4>3. CASE x \notin schema
        BY <1>3, <3>1, <4>1, <4>3 DEF Select
      <4>. QED BY <4>2, <4>3
    <3>. QED BY <3>2, <3>3, <3>4, <3>5 DEF LookedAtExist, Initializes, Settled
  <2>2. \A q \in Pods \ {p} : pc'[q] = pc[q] /\ todo'[q] = todo[q] /\ part'[q] = part[q]
    BY <1>3 DEF Select, Done
  <2>3. pc[p] \notin {"unique", "key"}
    BY <1>3 DEF Select, IsNext
  <2>. QED BY <1>3, <2>1, <2>2, <2>3, OnePodMoves DEF Select
<1>4. ASSUME NEW p \in Pods, NEW x \in PartNames, CreateIndex(p, x) PROVE SchemaInv'
  <2>1. LookedAtExist(p)'
    <3>1. pc[p] = "select" /\ todo' = [todo EXCEPT ![p] = @ \ {x}]
      BY <1>4, Zenon DEF CreateIndex, Done, IsNext
    <3>2. todo'[p] = todo[p] \ {x}
      BY <3>1
    <3>3. \A y \in PartNames \ todo[p] : Settled(y)
      BY <3>1 DEF SchemaInv, PartsLookedAtExist, LookedAtExist, Initializes
    <3>4. schema \subseteq schema' /\ lost \subseteq lost'
      BY <1>4 DEF CreateIndex
    <3>5. pc'[p] = "select" /\ Settled(x)'
      <4>1. pc' = pc /\ x \in schema'
        BY <1>4 DEF CreateIndex
      <4>. QED BY <3>1, <3>4, <4>1, SettledStays
    <3>. QED BY <3>2, <3>3, <3>4, <3>5 DEF LookedAtExist, Initializes, Settled
  <2>2. \A q \in Pods \ {p} : pc'[q] = pc[q] /\ todo'[q] = todo[q] /\ part'[q] = part[q]
    BY <1>4 DEF CreateIndex, Done
  <2>3. pc[p] \notin {"unique", "key"}
    BY <1>4 DEF CreateIndex, IsNext
  <2>4. \A y \in ForeignIds : y \in schema' => y \in schema
    BY <1>4, KindsOfParts DEF CreateIndex
  <2>. QED BY <1>4, <2>1, <2>2, <2>3, <2>4, OnePodMoves DEF CreateIndex
<1>5. ASSUME NEW p \in Pods, NEW x \in PartNames, CreateIndexFails(p, x) PROVE SchemaInv'
  <2>1. LookedAtExist(p)'
    <3>1. pc[p] = "select" /\ todo' = [todo EXCEPT ![p] = @ \ {x}]
      BY <1>5, Zenon DEF CreateIndexFails, Done, IsNext
    <3>2. todo'[p] = todo[p] \ {x}
      BY <3>1
    <3>3. \A y \in PartNames \ todo[p] : Settled(y)
      BY <3>1 DEF SchemaInv, PartsLookedAtExist, LookedAtExist, Initializes
    <3>4. schema \subseteq schema' /\ lost \subseteq lost'
      BY <1>5 DEF CreateIndexFails
    <3>5. pc'[p] = "select" /\ Settled(x)'
      BY <1>5, <3>1, KindsOfParts DEF CreateIndexFails, Settled
    <3>. QED BY <3>2, <3>3, <3>4, <3>5 DEF LookedAtExist, Initializes, Settled
  <2>2. \A q \in Pods \ {p} : pc'[q] = pc[q] /\ todo'[q] = todo[q] /\ part'[q] = part[q]
    BY <1>5 DEF CreateIndexFails, Done
  <2>3. pc[p] \notin {"unique", "key"}
    BY <1>5 DEF CreateIndexFails, IsNext
  <2>4. \A y \in ForeignIds : y \in schema' => y \in schema
    BY <1>5, KindsOfParts DEF CreateIndexFails
  <2>. QED BY <1>5, <2>1, <2>2, <2>3, <2>4, OnePodMoves DEF CreateIndexFails
<1>6. ASSUME NEW p \in Pods, Create(p) PROVE SchemaInv'
  <2>1. LookedAtExist(p)'
    <3>1. Tables \union ForeignIds \subseteq PartNames /\ Indexes \intersect (Tables \union ForeignIds) = {}
      BY KindsOfParts
    <3>2. \A y \in PartNames \ todo[p] : Settled(y) \/ y = part[p]
      BY <1>6 DEF Create, SchemaInv, PartsLookedAtExist, LookedAtExist, Initializes
    <3>3. part[p] \in schema' /\ part[p] \in Tables \union ForeignIds
      BY <1>6 DEF Create, AddConstraint, SchemaInv, PartsLookedAtExist, LookedAtExist
    <3>4. todo' = todo /\ lost' = lost /\ schema \subseteq schema'
      BY <1>6 DEF Create
    <3>5. \/ pc'[p] = "unique" /\ part'[p] = part[p] /\ part[p] \in ForeignIds
          \/ pc'[p] = "select"
      BY <1>6, <3>3 DEF Create, GoOnCreating, PartDone
    <3>6. ASSUME NEW y \in PartNames \ todo'[p] PROVE Settled(y)'
      <4>1. Settled(y) \/ y = part[p]
        BY <3>2, <3>4
      <4>. QED BY <3>3, <3>4, <4>1, SettledStays
    <3>. QED BY <3>3, <3>5, <3>6 DEF LookedAtExist, Initializes
  <2>2. \A q \in Pods \ {p} : pc'[q] = pc[q] /\ todo'[q] = todo[q] /\ part'[q] = part[q]
    BY <1>6 DEF Create, GoOnCreating, PartDone
  <2>3. \A x \in ForeignIds : part[p] = x => ConstraintsComplete(x)'
    <3>1. part[p] \in ForeignIds => pc'[p] = "unique" /\ part'[p] = part[p]
      BY <1>6 DEF Create, GoOnCreating
    <3>. QED BY <3>1 DEF ConstraintsComplete
  <2>4. \A x \in ForeignIds : x \in schema' => x \in schema \/ x = part[p]
    BY <1>6 DEF Create
  <2>5. pc[p] \notin {"unique", "key"}
    BY <1>6 DEF Create
  <2>. QED BY <1>6, <2>1, <2>2, <2>3, <2>4, <2>5, OnePodMoves DEF Create, AddConstraint
<1>7. ASSUME NEW p \in Pods, PartExists(p) PROVE SchemaInv'
  BY <1>7, AbandonKeeps DEF PartExists, Throw
<1>8. ASSUME NEW p \in Pods, AddUniqueIndex(p) PROVE SchemaInv'
  <2>1. LookedAtExist(p)'
    <3>1. Tables \union ForeignIds \subseteq PartNames /\ Indexes \intersect (Tables \union ForeignIds) = {}
      BY KindsOfParts
    <3>2. \A y \in PartNames \ todo[p] : Settled(y)
      BY <1>8 DEF AddUniqueIndex, SchemaInv, PartsLookedAtExist, LookedAtExist, Initializes
    <3>3. part[p] \in ForeignIds /\ <<part[p], "unique index">> \in constraints'
      BY <1>8 DEF AddUniqueIndex, AddConstraint, SchemaInv, PartsLookedAtExist, LookedAtExist
    <3>4. todo' = todo /\ lost' = lost /\ schema \subseteq schema'
      BY <1>8 DEF AddUniqueIndex
    <3>5. pc'[p] = "key" /\ part'[p] = part[p]
      BY <1>8, <3>3 DEF AddUniqueIndex, GoOnCreating, PartDone
    <3>6. ASSUME NEW y \in PartNames \ todo'[p] PROVE Settled(y)'
      <4>1. Settled(y)
        BY <3>2, <3>4
      <4>. QED BY <3>3, <3>4, <4>1, SettledStays
    <3>. QED BY <3>3, <3>5, <3>6 DEF LookedAtExist, Initializes
  <2>2. \A q \in Pods \ {p} : pc'[q] = pc[q] /\ todo'[q] = todo[q] /\ part'[q] = part[q]
    BY <1>8 DEF AddUniqueIndex, GoOnCreating, PartDone
  <2>3. \A x \in ForeignIds : part[p] = x => ConstraintsComplete(x)'
    BY <1>8, KindsOfParts DEF AddUniqueIndex, AddConstraint, GoOnCreating, ConstraintsComplete, Constraints
  <2>. QED BY <1>8, <2>1, <2>2, <2>3, OnePodMoves DEF AddUniqueIndex, AddConstraint
<1>9. ASSUME NEW p \in Pods, AddForeignKey(p) PROVE SchemaInv'
  <2>1. LookedAtExist(p)'
    <3>1. Tables \union ForeignIds \subseteq PartNames /\ Indexes \intersect (Tables \union ForeignIds) = {}
      BY KindsOfParts
    <3>2. \A y \in PartNames \ todo[p] : Settled(y)
      BY <1>9 DEF AddForeignKey, SchemaInv, PartsLookedAtExist, LookedAtExist, Initializes
    <3>3. part[p] \in ForeignIds
      BY <1>9 DEF AddForeignKey, AddConstraint, SchemaInv, PartsLookedAtExist, LookedAtExist
    <3>4. todo' = todo /\ lost' = lost /\ schema \subseteq schema'
      BY <1>9 DEF AddForeignKey
    <3>5. \/ pc'[p] = "create" /\ part'[p] = part[p]
          \/ pc'[p] = "select"
      BY <1>9, <3>3 DEF AddForeignKey, GoOnCreating, PartDone
    <3>6. ASSUME NEW y \in PartNames \ todo'[p] PROVE Settled(y)'
      <4>1. Settled(y)
        BY <3>2, <3>4
      <4>. QED BY <3>3, <3>4, <4>1, SettledStays
    <3>. QED BY <3>3, <3>5, <3>6 DEF LookedAtExist, Initializes
  <2>2. \A q \in Pods \ {p} : pc'[q] = pc[q] /\ todo'[q] = todo[q] /\ part'[q] = part[q]
    BY <1>9 DEF AddForeignKey, GoOnCreating, PartDone
  <2>3. \A x \in ForeignIds : part[p] = x => ConstraintsComplete(x)'
    <3>1. <<part[p], "unique index">> \in constraints
      BY <1>9 DEF AddForeignKey, SchemaInv, PartsLookedAtExist, LookedAtExist
    <3>2. constraints' = constraints \union {<<part[p], "foreign key">>}
      BY <1>9 DEF AddForeignKey, AddConstraint
    <3>. SUFFICES ASSUME NEW c \in Constraints PROVE <<part[p], c>> \in constraints'
      BY DEF ConstraintsComplete
    <3>. QED BY <3>1, <3>2 DEF Constraints
  <2>. QED BY <1>9, <2>1, <2>2, <2>3, OnePodMoves DEF AddForeignKey, AddConstraint
<1>10. ASSUME NEW p \in Pods, LoopsDone(p) PROVE SchemaInv'
  <2>1. LookedAtExist(p)'
    BY <1>10, KindsOfParts DEF LoopsDone, SchemaInv, PartsLookedAtExist, LookedAtExist, Initializes, Settled, IsNext
  <2>2. \A q \in Pods \ {p} : pc'[q] = pc[q] /\ todo'[q] = todo[q] /\ part'[q] = part[q]
    BY <1>10 DEF LoopsDone
  <2>3. pc[p] \notin {"unique", "key"}
    BY <1>10 DEF LoopsDone, IsNext
  <2>. QED BY <1>10, <2>1, <2>2, <2>3, OnePodMoves DEF LoopsDone
<1>11. ASSUME NEW p \in Pods, SetDbInitialized(p) PROVE SchemaInv'
  <2>1. ~Initializes(p)' /\ pc[p] \notin {"unique", "key"}
    BY <1>11 DEF SetDbInitialized, Initializes
  <2>2. \A q \in Pods \ {p} : pc'[q] = pc[q] /\ todo'[q] = todo[q] /\ part'[q] = part[q]
    BY <1>11 DEF SetDbInitialized
  <2>. QED BY <1>11, <2>1, <2>2, OnePodLeaves DEF SetDbInitialized
<1>12. ASSUME NEW p \in Pods, ExecuteTasks(p) PROVE SchemaInv'
  <2>1. ~Initializes(p)' /\ pc[p] \notin {"unique", "key"}
    BY <1>12 DEF ExecuteTasks, Initializes
  <2>2. \A q \in Pods \ {p} : pc'[q] = pc[q] /\ todo'[q] = todo[q] /\ part'[q] = part[q]
    BY <1>12 DEF ExecuteTasks
  <2>. QED BY <1>12, <2>1, <2>2, OnePodLeaves DEF ExecuteTasks
<1>13. ASSUME NEW p \in Pods, InitializeCronTable(p) PROVE SchemaInv'
  <2>1. ~Initializes(p)' /\ pc[p] \notin {"unique", "key"}
    BY <1>13 DEF InitializeCronTable, Initializes
  <2>2. \A q \in Pods \ {p} : pc'[q] = pc[q] /\ todo'[q] = todo[q] /\ part'[q] = part[q]
    BY <1>13 DEF InitializeCronTable
  <2>. QED BY <1>13, <2>1, <2>2, OnePodLeaves DEF InitializeCronTable
<1>14. ASSUME NEW p \in Pods, CronTableFails(p) PROVE SchemaInv'
  BY <1>14, AbandonKeeps DEF CronTableFails, Throw
<1>15. ASSUME NEW p \in Pods, RemoveDbInitialization(p) PROVE SchemaInv'
  <2>1. ~Initializes(p)' /\ pc[p] \notin {"unique", "key"}
    BY <1>15 DEF RemoveDbInitialization, ReturnFalse, Initializes
  <2>2. \A q \in Pods \ {p} : pc'[q] = pc[q] /\ todo'[q] = todo[q] /\ part'[q] = part[q]
    BY <1>15 DEF RemoveDbInitialization, ReturnFalse
  <2>. QED BY <1>15, <2>1, <2>2, OnePodLeaves DEF RemoveDbInitialization
<1>16. ASSUME NEW p \in Pods, TryAgain(p) PROVE SchemaInv'
  <2>1. ~Initializes(p)' /\ pc[p] \notin {"unique", "key"}
    BY <1>16 DEF TryAgain, Initializes
  <2>2. \A q \in Pods \ {p} : pc'[q] = pc[q] /\ todo'[q] = todo[q] /\ part'[q] = part[q]
    BY <1>16 DEF TryAgain
  <2>. QED BY <1>16, <2>1, <2>2, OnePodLeaves DEF TryAgain
<1>17. ASSUME NEW p \in Pods, Restart(p) PROVE SchemaInv'
  <2>1. ~Initializes(p)' /\ pc[p] \notin {"unique", "key"}
    BY <1>17 DEF Restart, Initializes
  <2>2. \A q \in Pods \ {p} : pc'[q] = pc[q] /\ todo'[q] = todo[q] /\ part'[q] = part[q]
    BY <1>17 DEF Restart
  <2>. QED BY <1>17, <2>1, <2>2, OnePodLeaves DEF Restart
<1>18. ASSUME NEW p \in Pods, NotReady(p) PROVE SchemaInv'
  <2>1. ~Initializes(p)' /\ pc[p] \notin {"unique", "key"}
    BY <1>18 DEF NotReady, ReturnFalse, Initializes
  <2>2. \A q \in Pods \ {p} : pc'[q] = pc[q] /\ todo'[q] = todo[q] /\ part'[q] = part[q]
    BY <1>18 DEF NotReady, ReturnFalse
  <2>. QED BY <1>18, <2>1, <2>2, OnePodLeaves DEF NotReady
<1>19. ASSUME NEW p \in Pods, SelectFails(p) PROVE SchemaInv'
  BY <1>19, AbandonKeeps DEF SelectFails, Throw
<1>20. ASSUME NEW p \in Pods, NEW x \in PartNames, SelectFailsForTable(p, x) PROVE SchemaInv'
  <2>1. LookedAtExist(p)'
    <3>1. pc[p] = "select" /\ todo' = [todo EXCEPT ![p] = @ \ {x}]
      BY <1>20, Zenon DEF SelectFailsForTable, Done, IsNext
    <3>2. todo'[p] = todo[p] \ {x}
      BY <3>1
    <3>3. \A y \in PartNames \ todo[p] : Settled(y)
      BY <3>1 DEF SchemaInv, PartsLookedAtExist, LookedAtExist, Initializes
    <3>4. schema \subseteq schema' /\ lost \subseteq lost'
      BY <1>20 DEF SelectFailsForTable
    <3>5. \/ pc'[p] = "select" /\ Settled(x)'
          \/ pc'[p] = "create" /\ part'[p] = x /\ x \in Tables \union ForeignIds
      <4>1. x \in Tables \union ForeignIds
        BY <1>20, KindsOfParts DEF SelectFailsForTable
      <4>. QED BY <1>20, <3>1, <4>1 DEF SelectFailsForTable
    <3>. QED BY <3>2, <3>3, <3>4, <3>5 DEF LookedAtExist, Initializes, Settled
  <2>2. \A q \in Pods \ {p} : pc'[q] = pc[q] /\ todo'[q] = todo[q] /\ part'[q] = part[q]
    BY <1>20 DEF SelectFailsForTable, Done
  <2>3. pc[p] \notin {"unique", "key"}
    BY <1>20 DEF SelectFailsForTable, IsNext
  <2>. QED BY <1>20, <2>1, <2>2, <2>3, OnePodMoves DEF SelectFailsForTable
<1>21. ASSUME NEW p \in Pods, NEW x \in PartNames, AlterTableFails(p, x) PROVE SchemaInv'
  BY <1>21, AbandonKeeps DEF AlterTableFails, Throw
<1>22. ASSUME NEW p \in Pods, StatementFails(p) PROVE SchemaInv'
  BY <1>22, AbandonKeeps DEF StatementFails, Throw
<1>23. ASSUME NEW p \in Pods, TasksFail(p) PROVE SchemaInv'
  BY <1>23, AbandonKeeps DEF TasksFail, Throw
<1>24. ASSUME NEW p \in Pods, RemoveFails(p) PROVE SchemaInv'
  <2>1. ~Initializes(p)' /\ pc[p] \notin {"unique", "key"}
    BY <1>24 DEF RemoveFails, ReturnFalse, Initializes
  <2>2. \A q \in Pods \ {p} : pc'[q] = pc[q] /\ todo'[q] = todo[q] /\ part'[q] = part[q]
    BY <1>24 DEF RemoveFails, ReturnFalse
  <2>. QED BY <1>24, <2>1, <2>2, OnePodLeaves DEF RemoveFails
<1>25. ASSUME NEW p \in Pods, Crash(p) PROVE SchemaInv'
  <2>1. ~Initializes(p)'
    BY <1>25 DEF Crash, Initializes
  <2>2. \A q \in Pods \ {p} : pc'[q] = pc[q] /\ todo'[q] = todo[q] /\ part'[q] = part[q]
    BY <1>25 DEF Crash
  <2>. QED BY <1>25, <2>1, <2>2, OnePodLeaves DEF Crash
<1>26. ASSUME NEW p \in Pods, StartupCheck(p) PROVE SchemaInv'
  <2>1. ~Initializes(p)' /\ pc[p] \notin {"unique", "key"}
    BY <1>26 DEF StartupCheck, Initializes
  <2>2. \A q \in Pods \ {p} : pc'[q] = pc[q] /\ todo'[q] = todo[q] /\ part'[q] = part[q]
    BY <1>26 DEF StartupCheck
  <2>. QED BY <1>26, <2>1, <2>2, OnePodLeaves DEF StartupCheck
<1>27. ASSUME NEW p \in Pods, RemoveAgain(p) PROVE SchemaInv'
  <2>1. UNCHANGED <<dbVars, podVars>> /\ row' = "absent"
    BY <1>27 DEF RemoveAgain
  <2>. QED BY <2>1 DEF SchemaInv, PartsLookedAtExist, LookedAtExist, ConstraintsKept, ConstraintsComplete,
                       InitializedMeansSchema, Initializes, Settled
<1>28. CASE FiveMinutesPass \/ UNCHANGED vars
  <2>1. UNCHANGED <<dbVars, podVars, row>>
    BY <1>28 DEF FiveMinutesPass, vars
  <2>. QED BY <2>1 DEF SchemaInv, PartsLookedAtExist, LookedAtExist, ConstraintsKept, ConstraintsComplete,
                       InitializedMeansSchema, Initializes, Settled
<1>. QED BY <1>1, <1>2, <1>3, <1>4, <1>5, <1>6, <1>7, <1>8, <1>9, <1>10, <1>11, <1>12, <1>13, <1>14, <1>15, <1>16, <1>17, <1>18, <1>19, <1>20, <1>21, <1>22, <1>23, <1>24, <1>25, <1>26, <1>27, <1>28 DEF Next, Proceed, Fail

LEMMA TypesAndSchema == Spec => [](TypeOK /\ SchemaInv)
<1>1. Init => SchemaInv
  BY DEF Init, SchemaInv, PartsLookedAtExist, LookedAtExist, ConstraintsKept, InitializedMeansSchema, Initializes
<1>2. SchemaInv => PartsLookedAtExist
  BY DEF SchemaInv
<1>. QED BY <1>1, <1>2, InitialTypes, TypeInvariance, SchemaInvariance, PTL DEF Spec

(* The values of the variables stay within their bounds (TypeOK).          *)
THEOREM TypeCorrect == Spec => []TypeOK
BY TypesAndSchema, PTL

(* The mark can be relied on as far as no try has given up a part,         *)
(* whichever pods failed, crashed, deleted the row or inserted it again    *)
(* (InitializedMeansSchema).                                               *)
THEOREM InitializedMeansSchemaHolds == Spec => []InitializedMeansSchema
<1>1. SchemaInv => InitializedMeansSchema
  BY DEF SchemaInv
<1>. QED BY <1>1, TypesAndSchema, PTL

----------------------------------------------------------------------------
(* A row that was never removed has been inserted by one pod.              *)
LEMMA ElectionInvariance == TypeOK /\ RowElects /\ [Next]_vars => RowElects'
<1>. SUFFICES ASSUME TypeOK, RowElects, [Next]_vars PROVE RowElects'
  OBVIOUS
<1>. USE DEF TypeOK, RowElects, Initializes, Goto, rowVars, podVars, lifeVars, tryVars, listVars
<1>1. ASSUME NEW p \in Pods, InsertRow(p) PROVE RowElects'
  BY <1>1 DEF InsertRow
<1>2. ASSUME NEW p \in Pods, FindRow(p) PROVE RowElects'
  BY <1>2 DEF FindRow
<1>3. ASSUME NEW p \in Pods, NEW x \in PartNames, Select(p, x) PROVE RowElects'
  BY <1>3 DEF Select, ListForeignIds, IsNext, Done
<1>4. ASSUME NEW p \in Pods, NEW x \in PartNames, CreateIndex(p, x) PROVE RowElects'
  BY <1>4 DEF CreateIndex, IsNext, Done
<1>5. ASSUME NEW p \in Pods, NEW x \in PartNames, CreateIndexFails(p, x) PROVE RowElects'
  BY <1>5 DEF CreateIndexFails, IsNext, Done, DatabaseError
<1>6. ASSUME NEW p \in Pods, Create(p) PROVE RowElects'
  BY <1>6 DEF Create, GoOnCreating, PartDone
<1>7. ASSUME NEW p \in Pods, PartExists(p) PROVE RowElects'
  BY <1>7 DEF PartExists, Throw, Abandon, GiveUpPart
<1>8. ASSUME NEW p \in Pods, AddUniqueIndex(p) PROVE RowElects'
  BY <1>8 DEF AddUniqueIndex, AddConstraint, GoOnCreating
<1>9. ASSUME NEW p \in Pods, AddForeignKey(p) PROVE RowElects'
  BY <1>9 DEF AddForeignKey, AddConstraint, GoOnCreating, PartDone
<1>10. ASSUME NEW p \in Pods, LoopsDone(p) PROVE RowElects'
  BY <1>10 DEF LoopsDone
<1>11. ASSUME NEW p \in Pods, SetDbInitialized(p) PROVE RowElects'
  BY <1>11 DEF SetDbInitialized
<1>12. ASSUME NEW p \in Pods, ExecuteTasks(p) PROVE RowElects'
  BY <1>12 DEF ExecuteTasks
<1>13. ASSUME NEW p \in Pods, InitializeCronTable(p) PROVE RowElects'
  BY <1>13 DEF InitializeCronTable
<1>14. ASSUME NEW p \in Pods, CronTableFails(p) PROVE RowElects'
  BY <1>14 DEF CronTableFails, Throw, Abandon, GiveUpPart, DatabaseError
<1>15. ASSUME NEW p \in Pods, RemoveDbInitialization(p) PROVE RowElects'
  BY <1>15 DEF RemoveDbInitialization, ReturnFalse
<1>16. ASSUME NEW p \in Pods, TryAgain(p) PROVE RowElects'
  BY <1>16 DEF TryAgain
<1>17. ASSUME NEW p \in Pods, Restart(p) PROVE RowElects'
  BY <1>17 DEF Restart
<1>18. ASSUME NEW p \in Pods, NotReady(p) PROVE RowElects'
  BY <1>18 DEF NotReady, ReturnFalse, DatabaseError
<1>19. ASSUME NEW p \in Pods, SelectFails(p) PROVE RowElects'
  BY <1>19 DEF SelectFails, IsNext, Throw, Abandon, GiveUpPart, DatabaseError
<1>20. ASSUME NEW p \in Pods, NEW x \in PartNames, SelectFailsForTable(p, x) PROVE RowElects'
  BY <1>20 DEF SelectFailsForTable, IsNext, Done, ListForeignIds, DatabaseError
<1>21. ASSUME NEW p \in Pods, NEW x \in PartNames, AlterTableFails(p, x) PROVE RowElects'
  BY <1>21 DEF AlterTableFails, IsNext, Abandon, GiveUpPart, ListForeignIds, DatabaseError
<1>22. ASSUME NEW p \in Pods, StatementFails(p) PROVE RowElects'
  BY <1>22 DEF StatementFails, Throw, Abandon, GiveUpPart, DatabaseError
<1>23. ASSUME NEW p \in Pods, TasksFail(p) PROVE RowElects'
  BY <1>23 DEF TasksFail, Throw, Abandon, GiveUpPart, DatabaseError
<1>24. ASSUME NEW p \in Pods, RemoveFails(p) PROVE RowElects'
  BY <1>24 DEF RemoveFails, ReturnFalse, DatabaseError
<1>25. ASSUME NEW p \in Pods, Crash(p) PROVE RowElects'
  BY <1>25 DEF Crash, GiveUpPart
<1>26. ASSUME NEW p \in Pods, StartupCheck(p) PROVE RowElects'
  BY <1>26 DEF StartupCheck
<1>27. ASSUME NEW p \in Pods, RemoveAgain(p) PROVE RowElects'
  BY <1>27 DEF RemoveAgain
<1>28. CASE FiveMinutesPass
  BY <1>28 DEF FiveMinutesPass
<1>29. CASE UNCHANGED vars
  BY <1>29 DEF vars
<1>. QED BY <1>1, <1>2, <1>3, <1>4, <1>5, <1>6, <1>7, <1>8, <1>9, <1>10, <1>11, <1>12, <1>13, <1>14, <1>15, <1>16, <1>17, <1>18, <1>19, <1>20, <1>21, <1>22, <1>23, <1>24, <1>25, <1>26, <1>27, <1>28, <1>29 DEF Next, Proceed, Fail

(* The INSERT elects one initializing pod at a time, until the row is      *)
(* removed (OneInitializer).                                               *)
THEOREM OneInitializerHolds == Spec => []OneInitializer
<1>1. Init => RowElects
  BY DEF Init, RowElects, Initializes
<1>2. RowElects => OneInitializer
  <2>. SUFFICES ASSUME RowElects, ~removed
                PROVE  Cardinality({p \in Pods : Initializes(p)}) <= 1
    BY DEF OneInitializer, Initializes
  <2>1. CASE \A p \in Pods : ~Initializes(p)
    <3>1. {p \in Pods : Initializes(p)} = {}
      BY <2>1
    <3>2. Cardinality({}) = 0
      BY FS_EmptySet
    <3>. QED BY <3>1, <3>2
  <2>2. ASSUME NEW p \in Pods, Initializes(p)
        PROVE  Cardinality({q \in Pods : Initializes(q)}) <= 1
    <3>1. {q \in Pods : Initializes(q)} = {p}
      BY <2>2 DEF RowElects
    <3>2. Cardinality({p}) = 1
      BY FS_Singleton
    <3>. QED BY <3>1, <3>2
  <2>. QED BY <2>1, <2>2
<1>. QED BY <1>1, <1>2, TypesAndSchema, ElectionInvariance, PTL DEF Spec
=============================================================================
