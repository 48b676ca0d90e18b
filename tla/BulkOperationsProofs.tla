------------------------ MODULE BulkOperationsProofs ------------------------
(***************************************************************************)
(* Proofs about BulkOperations, for every length of the array.             *)
(***************************************************************************)
EXTENDS BulkOperations, TLAPS, FiniteSetTheorems

Statements == [sender : Rows \union {Call}, sql : {"BEGIN", "WRITE", "READ", "COMMIT", "ROLLBACK"}]

(* Before the executable starts.                                           *)
Starting ==
  call \in {"ready", "begin"} =>
    /\ connection = Connection /\ tx[Connection] = "none" /\ late = {} /\ response = "none"
    /\ queue = IF call = "ready" THEN <<>> ELSE <<Statement(Call, "BEGIN")>>
    /\ call = "begin" => globalTransaction
    /\ \A e \in Rows : element[e] = "ready" /\ ~didStart[e] /\ pend[Connection][e] = NoWrite

(* From its start until the transaction ends, everything is in it.         *)
InsideTransaction ==
  call \in {"executable", "rollback", "thrown"} =>
    /\ connection = Connection /\ globalTransaction
    /\ tx[Connection] # "none"
    /\ response = "none"
    /\ \A e \in Rows : ~didStart[e] /\ element[e] # "ready"
    /\ \A i \in 1..Len(queue) :
         \/ queue[i].sender \in Rows /\ queue[i].sql \in {"WRITE", "READ"}
         \/ call = "rollback" /\ queue[i] = Statement(Call, "ROLLBACK")

(* As long as no element has failed.                                       *)
AllWell ==
  call = "executable" =>
    /\ tx[Connection] = "active" /\ late = {}
    /\ \A i \in 1..Len(queue) : element[queue[i].sender] = IF queue[i].sql = "WRITE" THEN "write" ELSE "read"
    /\ \A i, j \in 1..Len(queue) : queue[i].sender = queue[j].sender => i = j
    /\ \A e \in Rows : element[e] \in {"read", "succeeded"} => pend[Connection][e] = After

Committing ==
  call = "commit" =>
    /\ connection = Connection /\ tx[Connection] = "active" /\ late = {} /\ response = "none"
    /\ queue = <<Statement(Call, "COMMIT")>>
    /\ \A e \in Rows : element[e] = "succeeded" /\ ~didStart[e] /\ pend[Connection][e] = After

(* Behind the ROLLBACK only elements write that had sent nothing when it   *)
(* was sent.                                                               *)
RollingBack ==
  call = "rollback" =>
    /\ \A e \in Rows \ late : element[e] \notin {"hashing", "hooks"}
    /\ \A i, j \in 1..Len(queue) :
         i < j /\ queue[i].sender = Call => queue[j].sql = "READ" \/ queue[j].sender \in late

Answered ==
  call \in {"returned", "released"} =>
    /\ \A i \in 1..Len(queue) :
         queue[i].sender \in Rows /\ (queue[i].sql = "READ" \/ queue[i].sender \in late)
    /\ \A e \in Rows \ late :
         element[e] \notin {"hashing", "hooks"} /\ ~didStart[e] /\ pend[Connection][e] = NoWrite
    /\ late = {} => tx[Connection] = "none"

Succeeded ==
  response = "ok" =>
    /\ call \in {"returned", "released"} /\ late = {} /\ queue = <<>>
    /\ \A e \in Rows : db[e] = After

BulkInv ==
  /\ Starting /\ InsideTransaction /\ AllWell /\ Committing /\ RollingBack /\ Answered /\ Succeeded

----------------------------------------------------------------------------
(* The queue                                                               *)

LEMMA Appended ==
  ASSUME NEW s \in Seq(Statements), NEW x \in Statements
  PROVE  /\ Append(s, x) \in Seq(Statements) /\ Len(s) \in Nat /\ Len(Append(s, x)) = Len(s) + 1
         /\ Append(s, x)[Len(s) + 1] = x
         /\ \A i \in 1..Len(s) : Append(s, x)[i] = s[i]
         /\ \A i \in 1..Len(Append(s, x)) : i \in 1..Len(s) \/ i = Len(s) + 1
OBVIOUS

(* What remains of s without its first statement.                          *)
LEMMA Executed ==
  ASSUME NEW s \in Seq(Statements), s # <<>>
  PROVE  /\ Head(s) = s[1] /\ 1 \in 1..Len(s) /\ Head(s) \in Statements
         /\ Tail(s) \in Seq(Statements) /\ Len(s) \in Nat /\ Len(Tail(s)) = Len(s) - 1
         /\ \A i \in 1..Len(Tail(s)) : i + 1 \in 1..Len(s) /\ Tail(s)[i] = s[i + 1]
OBVIOUS

LEMMA OneStatement ==
  ASSUME NEW x \in Statements
  PROVE  /\ <<x>> \in Seq(Statements) /\ <<x>> # <<>> /\ Head(<<x>>) = x /\ Tail(<<x>>) = <<>>
         /\ Append(<<>>, x) = <<x>>
         /\ Len(<<x>>) = 1 /\ <<x>>[1] = x
OBVIOUS

LEMMA StatementType ==
  ASSUME NEW sender \in Rows \union {Call}, NEW sql \in {"BEGIN", "WRITE", "READ", "COMMIT", "ROLLBACK"}
  PROVE  /\ Statement(sender, sql) \in Statements
         /\ Statement(sender, sql).sender = sender /\ Statement(sender, sql).sql = sql
BY DEF Statement, Statements

(* The call is not one of the elements.                                    *)
LEMMA CallIsNoElement == Call \notin Rows /\ Cardinality(Rows) \in Nat
<1>1. Cardinality(Rows) \in Nat
  BY BulkAssumption, FS_CardinalityType
<1>. QED BY <1>1, BulkAssumption DEF Call

----------------------------------------------------------------------------
(* Types                                                                   *)

CallStates == {"ready", "begin", "executable", "commit", "rollback", "returned", "released", "thrown"}
ElementStates == {"ready", "hashing", "begin", "hooks", "write", "read", "commit",
                  "commitError", "rollback", "succeeded", "failed"}

ProgramTypes ==
  /\ operation \in {"createEntities", "deleteEntitiesByIds"}
  /\ connection \in Conns \union {NoConn}
  /\ globalTransaction \in BOOLEAN /\ localTransaction \in BOOLEAN
  /\ queue \in Seq(Statements)
  /\ call \in CallStates
  /\ element \in [Rows -> ElementStates]
  /\ didStart \in [Rows -> BOOLEAN]
  /\ response \in {"none", "ok", "error"}
  /\ late \subseteq Rows

LEMMA TypesAre == TypeOK <=> ServerTypeOK /\ ProgramTypes
BY DEF TypeOK, ProgramTypes, Statements, CallStates, ElementStates

(* The version of a row before and after is a version.                     *)
LEMMA AfterType ==
  ASSUME TypeOK
  PROVE  After \in Versions /\ After # NoWrite /\ Before \in Versions
BY MaxVersionAssumption DEF TypeOK, After, Before, Versions, NoWrite

(* The database keeps its types.                                           *)
LEMMA ServerTypes ==
  ASSUME ServerTypeOK, NEW c \in Conns,
         \/ Begin(c) \/ Commit(c) \/ Rollback(c) \/ CommitError(c) \/ StatementError(c)
         \/ UNCHANGED serverVars
         \/ \E row \in Rows, v \in Versions : WriteRow(c, row, v)
  PROVE  ServerTypeOK'
<1>. USE DEF ServerTypeOK, TxStates
<1>1. ASSUME EndTransaction(c)
      PROVE  /\ tx' \in [Conns -> TxStates] /\ pend' \in [Conns -> [Rows -> Versions \union {NoWrite}]]
             /\ lock' \in [Rows -> Conns \union {NoConn}]
  BY <1>1 DEF EndTransaction
<1>2. CASE Begin(c)
  BY <1>2 DEF Begin
<1>3. ASSUME Commit(c) PROVE ServerTypeOK'
  <2>1. \A row \in Rows : Visible(c, row) \in Versions
    BY DEF Visible
  <2>2. db' \in [Rows -> Versions]
    BY <1>3, <2>1 DEF Commit
  <2>. QED BY <1>1, <1>3, <2>2 DEF Commit
<1>4. ASSUME Rollback(c) PROVE ServerTypeOK'
  BY <1>1, <1>4 DEF Rollback
<1>5. CASE CommitError(c)
  BY <1>3, <1>4, <1>5 DEF CommitError
<1>6. CASE StatementError(c)
  BY <1>6 DEF StatementError
<1>7. CASE UNCHANGED serverVars
  BY <1>7 DEF serverVars
<1>8. ASSUME NEW row \in Rows, NEW v \in Versions, WriteRow(c, row, v) PROVE ServerTypeOK'
  <2>1. CASE tx[c] = "active"
    <3>1. pend' = [pend EXCEPT ![c][row] = v] /\ lock' = [lock EXCEPT ![row] = c] /\ UNCHANGED <<db, tx>>
      BY <1>8, <2>1 DEF WriteRow
    <3>2. pend' \in [Conns -> [Rows -> Versions \union {NoWrite}]]
      BY <3>1
    <3>. QED BY <3>1, <3>2
  <2>2. CASE tx[c] # "active"
    BY <1>8, <2>2 DEF WriteRow
  <2>. QED BY <2>1, <2>2
<1>. QED BY <1>2, <1>3, <1>4, <1>5, <1>6, <1>7, <1>8

LEMMA ReturnTypes ==
  ASSUME ProgramTypes, NEW error \in BOOLEAN, NEW statements \in Seq(Statements),
         ReturnFromExecutable(error, statements)
  PROVE  queue' \in Seq(Statements) /\ call' \in CallStates /\ response' = response
<1>1. Statement(Call, "ROLLBACK") \in Statements /\ Statement(Call, "COMMIT") \in Statements
  BY DEF Statement, Statements
<1>. QED BY <1>1, Appended DEF ReturnFromExecutable, CallStates

LEMMA SettleTypes ==
  ASSUME ProgramTypes, NEW e \in Rows, NEW outcome \in {"succeeded", "failed"},
         NEW statements \in Seq(Statements), Settle(e, outcome, statements)
  PROVE  ProgramTypes'
<1>1. /\ element' \in [Rows -> ElementStates] /\ localTransaction' \in BOOLEAN
      /\ UNCHANGED <<operation, connection, globalTransaction, didStart>>
  BY DEF Settle, ProgramTypes, ElementStates
<1>2. late' \subseteq Rows
  BY DEF Settle, ProgramTypes
<1>3. queue' \in Seq(Statements) /\ call' \in CallStates /\ response' = response
  <2>1. CASE queue' = statements /\ UNCHANGED <<call, response>>
    BY <2>1 DEF ProgramTypes
  <2>2. ASSUME NEW error \in BOOLEAN, ReturnFromExecutable(error, statements)
        PROVE  queue' \in Seq(Statements) /\ call' \in CallStates /\ response' = response
    BY <2>2, ReturnTypes
  <2>. QED BY <2>1, <2>2 DEF Settle
<1>. QED BY <1>1, <1>2, <1>3 DEF ProgramTypes

Sqls == {"BEGIN", "WRITE", "READ", "COMMIT", "ROLLBACK"}

LEMMA SendTypes ==
  ASSUME ProgramTypes, NEW e \in Rows, NEW state \in ElementStates, NEW sql \in Sqls,
         NEW statements \in Seq(Statements), Send(e, state, sql, statements)
  PROVE  ProgramTypes'
<1>1. Statement(e, sql) \in Statements
  BY DEF Statement, Statements, Sqls
<1>2. queue' \in Seq(Statements)
  BY <1>1, Appended DEF Send
<1>3. element' \in [Rows -> ElementStates] /\ UNCHANGED <<callVars, localTransaction, didStart, late>>
  BY DEF Send, ProgramTypes
<1>. QED BY <1>2, <1>3 DEF ProgramTypes, callVars

LEMMA FailTypes ==
  ASSUME ProgramTypes, NEW e \in Rows, NEW statements \in Seq(Statements), Fail(e, statements)
  PROVE  ProgramTypes'
BY SendTypes, SettleTypes DEF Fail, ElementStates, Sqls

LEMMA TrySendTypes ==
  ASSUME ProgramTypes, NEW e \in Rows, NEW state \in ElementStates, NEW sql \in Sqls,
         NEW statements \in Seq(Statements), TrySend(e, state, sql, statements)
  PROVE  ProgramTypes'
BY SendTypes, FailTypes DEF TrySend

LEMMA FinishTypes ==
  ASSUME ProgramTypes, NEW e \in Rows, NEW outcome \in {"succeeded", "failed"},
         NEW statements \in Seq(Statements), Finish(e, outcome, statements)
  PROVE  ProgramTypes'
<1>1. CASE didStart[e]
  <2>1. PICK state \in ElementStates : TrySend(e, state, "COMMIT", statements)
    BY <1>1 DEF Finish, ElementStates
  <2>. QED BY <2>1, TrySendTypes DEF Sqls
<1>2. CASE ~didStart[e]
  BY <1>2, SettleTypes DEF Finish
<1>. QED BY <1>1, <1>2

(* The initial values have their types.                                    *)
LEMMA InitialTypes == Init => TypeOK
<1>. SUFFICES ASSUME Init PROVE TypeOK
  OBVIOUS
<1>1. Before \in Versions
  BY MaxVersionAssumption DEF Before, Versions
<1>2. ServerTypeOK
  BY <1>1 DEF Init, ServerTypeOK, TxStates
<1>3. ProgramTypes
  <2>1. operation \in {"createEntities", "deleteEntitiesByIds"} /\ connection \in Conns
    BY BulkAssumption DEF Init
  <2>2. queue \in Seq(Statements)
    BY DEF Init
  <2>3. element \in [Rows -> ElementStates] /\ didStart \in [Rows -> BOOLEAN] /\ late \subseteq Rows
    BY DEF Init, ElementStates
  <2>4. call \in CallStates /\ response = "none" /\ globalTransaction = FALSE /\ localTransaction = FALSE
    BY DEF Init, CallStates
  <2>. QED BY <2>1, <2>2, <2>3, <2>4 DEF ProgramTypes
<1>. QED BY <1>2, <1>3, TypesAre

(* A step of an element.                                                   *)
LEMMA ElementTypes ==
  ASSUME TypeOK, NEW e \in Rows, CreateOrDelete(e)
  PROVE  TypeOK'
<1>1. ServerTypeOK /\ ProgramTypes /\ Connection \in Conns /\ queue \in Seq(Statements)
  BY TypesAre, BulkAssumption DEF ProgramTypes
<1>2. queue # <<>> => Tail(queue) \in Seq(Statements)
  BY <1>1
<1>3. ServerTypeOK'
  <2>1. \/ Begin(Connection) \/ Commit(Connection) \/ Rollback(Connection) \/ CommitError(Connection)
        \/ StatementError(Connection) \/ UNCHANGED serverVars \/ WriteRow(Connection, e, After)
    BY DEF CreateOrDelete, Hash, BeginLocalTransaction, BeginLocalTransactionFails, HooksSucceed,
           HooksFail, WriteEntity, WriteEntityFails, GetEntityById, GetEntityByIdFails,
           CommitLocalTransaction, CommitLocalTransactionFails, RollbackLocalTransaction
  <2>. QED BY <1>1, <2>1, AfterType, ServerTypes
<1>4. ProgramTypes'
  <2>. USE <1>1, <1>2 DEF Executing
  <2>1. CASE Hash(e)
    <3>1. CASE globalTransaction \/ localTransaction
      BY <2>1, <3>1 DEF Hash, ProgramTypes, ElementStates, callVars
    <3>2. CASE ~(globalTransaction \/ localTransaction)
      BY <2>1, <3>2, TrySendTypes DEF Hash, ElementStates, Sqls
    <3>. QED BY <3>1, <3>2
  <2>2. CASE BeginLocalTransaction(e)
    BY <2>2 DEF BeginLocalTransaction, ProgramTypes, ElementStates, callVars
  <2>3. CASE BeginLocalTransactionFails(e)
    BY <2>3, FailTypes DEF BeginLocalTransactionFails
  <2>4. CASE HooksSucceed(e)
    BY <2>4, TrySendTypes DEF HooksSucceed, ElementStates, Sqls
  <2>5. CASE HooksFail(e)
    BY <2>5, FailTypes DEF HooksFail
  <2>6. CASE WriteEntity(e)
    <3>1. TrySend(e, "read", "READ", Tail(queue)) \/ Finish(e, "succeeded", Tail(queue))
      BY <2>6 DEF WriteEntity
    <3>2. "read" \in ElementStates /\ "READ" \in Sqls /\ Tail(queue) \in Seq(Statements)
      BY <2>6 DEF WriteEntity, ElementStates, Sqls
    <3>. QED BY ONLY <1>1, <3>1, <3>2, TrySendTypes, FinishTypes
  <2>7. CASE WriteEntityFails(e)
    BY <2>7, FailTypes DEF WriteEntityFails
  <2>8. CASE GetEntityById(e) \/ GetEntityByIdFails(e)
    <3>1. \/ Finish(e, "succeeded", Tail(queue)) \/ Finish(e, "failed", Tail(queue))
      BY <2>8 DEF GetEntityById, GetEntityByIdFails
    <3>2. Tail(queue) \in Seq(Statements)
      BY <2>8 DEF GetEntityById, GetEntityByIdFails
    <3>. QED BY ONLY <1>1, <3>1, <3>2, FinishTypes
  <2>9. CASE CommitLocalTransaction(e) \/ RollbackLocalTransaction(e)
    <3>1. \/ Settle(e, "succeeded", Tail(queue)) \/ Settle(e, "failed", Tail(queue))
      BY <2>9 DEF CommitLocalTransaction, RollbackLocalTransaction
    <3>2. Tail(queue) \in Seq(Statements)
      BY <2>9 DEF CommitLocalTransaction, RollbackLocalTransaction
    <3>. QED BY ONLY <1>1, <3>1, <3>2, SettleTypes
  <2>10. CASE CommitLocalTransactionFails(e)
    BY <2>10, FailTypes DEF CommitLocalTransactionFails
  <2>. QED BY <2>1, <2>2, <2>3, <2>4, <2>5, <2>6, <2>7, <2>8, <2>9, <2>10 DEF CreateOrDelete
<1>. QED BY <1>3, <1>4 DEF TypeOK, ProgramTypes, Statements, CallStates, ElementStates

(* A step of executeInsideTransaction or of the caller.                    *)
CallStep ==
  \/ ExecuteInsideTransaction \/ Release
  \/ BeginGlobalTransaction \/ BeginGlobalTransactionFails
  \/ CommitGlobalTransaction \/ CommitGlobalTransactionFails
  \/ RollbackGlobalTransaction

LEMMA CallTypes == TypeOK /\ CallStep => TypeOK'
<1>. SUFFICES ASSUME TypeOK, CallStep PROVE TypeOK'
  OBVIOUS
<1>1. ServerTypeOK /\ ProgramTypes /\ Connection \in Conns /\ queue \in Seq(Statements)
  BY TypesAre, BulkAssumption DEF ProgramTypes
<1>2. queue # <<>> => Tail(queue) \in Seq(Statements)
  BY <1>1
<1>3. ServerTypeOK'
  <2>1. \/ Begin(Connection) \/ Commit(Connection) \/ Rollback(Connection) \/ CommitError(Connection)
        \/ UNCHANGED serverVars
    BY DEF CallStep, ExecuteInsideTransaction, Release, BeginGlobalTransaction, BeginGlobalTransactionFails,
           CommitGlobalTransaction, CommitGlobalTransactionFails, RollbackGlobalTransaction
  <2>. QED BY <1>1, <2>1, ServerTypes
<1>4. ProgramTypes'
  <2>. USE <1>1, <1>2 DEF Executing, ProgramTypes, elementVars
  <2>1. CASE ExecuteInsideTransaction
    <3>1. Statement(Call, "BEGIN") \in Statements
      BY DEF Statement, Statements
    <3>2. queue' \in Seq(Statements)
      BY <2>1, <3>1, Appended DEF ExecuteInsideTransaction
    <3>. QED BY <2>1, <3>2 DEF ExecuteInsideTransaction, CallStates
  <2>2. CASE BeginGlobalTransaction
    <3>1. Tail(queue) \in Seq(Statements)
      BY <2>2 DEF BeginGlobalTransaction
    <3>2. [e \in Rows |-> Statement(e, "WRITE")] \in Seq(Statements)
      <4>1. \A e \in Rows : Statement(e, "WRITE") \in Statements
        BY DEF Statement, Statements
      <4>2. [e \in 1..Cardinality(Rows) |-> Statement(e, "WRITE")] \in Seq(Statements)
        BY <4>1, CallIsNoElement, BulkAssumption
      <4>. QED BY <4>2, BulkAssumption
    <3>3. Tail(queue) \o [e \in Rows |-> Statement(e, "WRITE")] \in Seq(Statements)
      BY <3>1, <3>2
    <3>4. queue' \in Seq(Statements) /\ element' \in [Rows -> ElementStates]
      BY <2>2, <3>1, <3>3 DEF BeginGlobalTransaction, ElementStates
    <3>. QED BY <2>2, <3>4 DEF BeginGlobalTransaction, CallStates
  <2>3. CASE BeginGlobalTransactionFails
    BY <2>3 DEF BeginGlobalTransactionFails, Answer, CallStates
  <2>4. CASE CommitGlobalTransaction
    BY <2>4 DEF CommitGlobalTransaction, Answer, CallStates
  <2>5. CASE CommitGlobalTransactionFails
    BY <2>5 DEF CommitGlobalTransactionFails, Answer, CallStates
  <2>6. CASE RollbackGlobalTransaction
    BY <2>6 DEF RollbackGlobalTransaction, Answer, CallStates
  <2>7. CASE Release
    BY <2>7 DEF Release, CallStates
  <2>. QED BY <2>1, <2>2, <2>3, <2>4, <2>5, <2>6, <2>7 DEF CallStep
<1>. QED BY <1>3, <1>4 DEF TypeOK, ProgramTypes, Statements, CallStates, ElementStates

LEMMA TypeInvariance == TypeOK /\ [Next]_vars => TypeOK'
<1>1. Next => CallStep \/ \E e \in Rows : CreateOrDelete(e)
  BY DEF Next, CallStep
<1>2. TypeOK /\ UNCHANGED vars => TypeOK'
  BY DEF TypeOK, ServerTypeOK, vars, serverVars, callVars, elementVars
<1>. QED BY <1>1, <1>2, CallTypes, ElementTypes

(* Every variable keeps its type (TypeOK).                                 *)
THEOREM TypeCorrect == Spec => []TypeOK
BY InitialTypes, TypeInvariance, PTL DEF Spec

----------------------------------------------------------------------------
(* What a step of an element is                                            *)

(* s is the queue, or what remains of it when its first statement is       *)
(* executed.                                                               *)
Remains(s) ==
  \E shift \in {0, 1} :
    \A i \in 1..Len(s) : i + shift \in 1..Len(queue) /\ s[i] = queue[i + shift]

LEMMA RemainsQueue ==
  ASSUME TypeOK
  PROVE  /\ queue \in Seq(Statements) /\ Remains(queue)
         /\ queue # <<>> => /\ Tail(queue) \in Seq(Statements) /\ Remains(Tail(queue))
                            /\ 1 \in 1..Len(queue) /\ Head(queue) = queue[1]
<1>1. queue \in Seq(Statements)
  BY TypesAre DEF ProgramTypes
<1>2. Len(queue) \in Nat
  BY <1>1
<1>3. Remains(queue)
  <2>1. \A i \in 1..Len(queue) : i + 0 \in 1..Len(queue) /\ queue[i] = queue[i + 0]
    BY <1>2
  <2>. QED BY <2>1 DEF Remains
<1>4. queue # <<>> => /\ Tail(queue) \in Seq(Statements)
                      /\ 1 \in 1..Len(queue) /\ Head(queue) = queue[1]
                      /\ \A i \in 1..Len(Tail(queue)) : i + 1 \in 1..Len(queue) /\ Tail(queue)[i] = queue[i + 1]
  BY <1>1, Executed
<1>. QED BY <1>1, <1>3, <1>4 DEF Remains

(* What is left after one's own statement has none of one's own.           *)
LEMMA NoneLeft ==
  ASSUME TypeOK, AllWell, call = "executable", queue # <<>>
  PROVE  \A i \in 1..Len(Tail(queue)) : Tail(queue)[i].sender # Head(queue).sender
<1>1. /\ queue \in Seq(Statements)
      /\ \A i, j \in 1..Len(queue) : queue[i].sender = queue[j].sender => i = j
  BY RemainsQueue DEF AllWell
<1>2. /\ 1 \in 1..Len(queue) /\ Head(queue) = queue[1]
      /\ \A i \in 1..Len(Tail(queue)) : i + 1 \in 1..Len(queue) /\ Tail(queue)[i] = queue[i + 1] /\ i + 1 # 1
  BY <1>1, Executed
<1>. QED BY <1>1, <1>2

(* The connection's side of a step of element e inside the transaction.    *)
WritesInTransaction(e) ==
  /\ UNCHANGED db
  /\ tx'[Connection] # "none"
  /\ \A f \in Rows \ {e} : pend'[Connection][f] = pend[Connection][f]

Hashed(e) ==
  /\ element[e] = "hashing"
  /\ element' = [element EXCEPT ![e] = "hooks"]
  /\ UNCHANGED <<callVars, localTransaction, didStart, late, queue, serverVars>>

(* What an element does inside the transaction: s is what is queued but    *)
(* for what the step adds.                                                 *)
StepInside(e, s) ==
  \/ Hashed(e)
  \/ element[e] = "hooks" /\ Send(e, "write", "WRITE", s) /\ UNCHANGED serverVars
  \/ Send(e, "read", "READ", s) /\ tx' = tx /\ pend'[Connection][e] = After
  \/ /\ Settle(e, "succeeded", s) /\ tx' = tx
     /\ call = "executable" => pend'[Connection][e] = After
  \/ Settle(e, "failed", s)

LEMMA ElementsStepInside ==
  ASSUME TypeOK, InsideTransaction, AllWell, call \in {"executable", "rollback", "thrown"},
         NEW e \in Rows, CreateOrDelete(e)
  PROVE  /\ WritesInTransaction(e)
         /\ \E s \in Seq(Statements) :
              /\ Remains(s)
              /\ call = "executable" => \A i \in 1..Len(s) : s[i].sender # e
              /\ StepInside(e, s)
<1>. DEFINE Goal == /\ WritesInTransaction(e)
                    /\ \E s \in Seq(Statements) :
                         /\ Remains(s)
                         /\ call = "executable" => \A i \in 1..Len(s) : s[i].sender # e
                         /\ StepInside(e, s)
<1>1. /\ connection = Connection /\ globalTransaction /\ ~didStart[e] /\ Connection \in Conns
      /\ connection # NoConn /\ tx[Connection] # "none"
      /\ \A i \in 1..Len(queue) :
           \/ queue[i].sender \in Rows /\ queue[i].sql \in {"WRITE", "READ"}
           \/ call = "rollback" /\ queue[i] = Statement(Call, "ROLLBACK")
  BY BulkAssumption, NoConnAssumption DEF InsideTransaction
<1>2. /\ db \in [Rows -> Versions] /\ tx \in [Conns -> TxStates]
      /\ pend \in [Conns -> [Rows -> Versions \union {NoWrite}]]
  BY DEF TypeOK, ServerTypeOK
<1>3. \A s, outcome : Finish(e, outcome, s) => Settle(e, outcome, s)
  BY <1>1 DEF Finish
<1>4. \A s : Fail(e, s) => Settle(e, "failed", s)
  BY <1>1 DEF Fail
<1>5. \A s, state, sql : TrySend(e, state, sql, s) => Send(e, state, sql, s)
  BY <1>1 DEF TrySend
(* Only writes and reads of elements are executed. *)
<1>6. ASSUME NEW sql, Executing(e, sql)
      PROVE  /\ sql \in {"WRITE", "READ"} /\ queue # <<>>
             /\ Tail(queue) \in Seq(Statements) /\ Remains(Tail(queue))
             /\ call = "executable" => \A i \in 1..Len(Tail(queue)) : Tail(queue)[i].sender # e
             /\ call = "executable" => element[e] = IF sql = "WRITE" THEN "write" ELSE "read"
  <2>1. /\ queue # <<>> /\ 1 \in 1..Len(queue) /\ queue[1] = Statement(e, sql) /\ Head(queue) = queue[1]
        /\ Tail(queue) \in Seq(Statements) /\ Remains(Tail(queue))
    BY <1>6, RemainsQueue DEF Executing
  <2>2. queue[1].sender = e /\ queue[1].sql = sql
    BY <2>1 DEF Statement
  <2>3. e # Call /\ Statement(Call, "ROLLBACK").sender = Call
    BY CallIsNoElement DEF Statement
  <2>4. sql \in {"WRITE", "READ"}
    BY <1>1, <2>1, <2>2, <2>3
  <2>5. call = "executable" => \A i \in 1..Len(Tail(queue)) : Tail(queue)[i].sender # e
    BY <2>1, <2>2, NoneLeft
  <2>6. call = "executable" => element[e] = IF sql = "WRITE" THEN "write" ELSE "read"
    BY <2>1, <2>2 DEF AllWell
  <2>. QED BY <2>1, <2>4, <2>5, <2>6
<1>7. ASSUME element[e] \in {"hashing", "hooks"}
      PROVE  /\ queue \in Seq(Statements) /\ Remains(queue)
             /\ call = "executable" => \A i \in 1..Len(queue) : queue[i].sender # e
  <2>1. ASSUME call = "executable", NEW i \in 1..Len(queue), queue[i].sender = e PROVE FALSE
    BY <1>7, <2>1 DEF AllWell
  <2>. QED BY <2>1, RemainsQueue
<1>8. UNCHANGED serverVars => WritesInTransaction(e) /\ tx' = tx
  BY <1>1 DEF WritesInTransaction, serverVars
<1>9. StatementError(Connection) => WritesInTransaction(e)
  BY <1>1, <1>2 DEF WritesInTransaction, StatementError, TxStates
<1>10. WriteRow(Connection, e, After) =>
         WritesInTransaction(e) /\ tx' = tx /\ pend'[Connection][e] = After
  <2>. SUFFICES ASSUME WriteRow(Connection, e, After)
                PROVE  WritesInTransaction(e) /\ tx' = tx /\ pend'[Connection][e] = After
    OBVIOUS
  <2>1. tx[Connection] = "active"
    BY <1>1, <1>2 DEF WriteRow, TxStates
  <2>2. pend' = [pend EXCEPT ![Connection][e] = After] /\ UNCHANGED <<db, tx>>
    BY <2>1 DEF WriteRow
  <2>3. pend'[Connection][e] = After /\ \A f \in Rows \ {e} : pend'[Connection][f] = pend[Connection][f]
    BY <1>1, <1>2, <2>2
  <2>. QED BY <1>1, <2>2, <2>3 DEF WritesInTransaction
<1>a. CASE Hash(e)
  <2>1. Hashed(e) /\ UNCHANGED serverVars /\ element[e] = "hashing"
    BY <1>1, <1>a DEF Hash, Hashed
  <2>. QED BY <1>7, <1>8, <2>1 DEF StepInside
<1>b. CASE HooksSucceed(e)
  <2>1. element[e] = "hooks" /\ Send(e, "write", "WRITE", queue) /\ UNCHANGED serverVars
    BY <1>5, <1>b DEF HooksSucceed
  <2>. QED BY <1>7, <1>8, <2>1 DEF StepInside
<1>c. CASE HooksFail(e)
  <2>1. element[e] = "hooks" /\ Settle(e, "failed", queue) /\ UNCHANGED serverVars
    BY <1>4, <1>c DEF HooksFail
  <2>. QED BY <1>7, <1>8, <2>1 DEF StepInside
<1>d. CASE WriteEntity(e)
  <2>1. Executing(e, "WRITE") /\ WriteRow(Connection, e, After)
        /\ (Send(e, "read", "READ", Tail(queue)) \/ Settle(e, "succeeded", Tail(queue)))
    BY <1>3, <1>5, <1>d DEF WriteEntity
  <2>. QED BY <1>6, <1>10, <2>1 DEF StepInside
<1>e. CASE WriteEntityFails(e)
  <2>1. Executing(e, "WRITE") /\ StatementError(Connection) /\ Settle(e, "failed", Tail(queue))
    BY <1>4, <1>e DEF WriteEntityFails
  <2>. QED BY <1>6, <1>9, <2>1 DEF StepInside
<1>f. CASE GetEntityById(e)
  <2>1. Executing(e, "READ") /\ UNCHANGED serverVars
        /\ (Settle(e, "succeeded", Tail(queue)) \/ Settle(e, "failed", Tail(queue)))
    BY <1>3, <1>f DEF GetEntityById
  <2>2. call = "executable" => pend'[Connection][e] = After
    <3>1. call = "executable" => element[e] = "read"
      BY <1>6, <2>1
    <3>. QED BY <2>1, <3>1 DEF AllWell, serverVars
  <2>. QED BY <1>6, <1>8, <2>1, <2>2 DEF StepInside
<1>g. CASE GetEntityByIdFails(e)
  <2>1. Executing(e, "READ") /\ StatementError(Connection) /\ Settle(e, "failed", Tail(queue))
    BY <1>3, <1>g DEF GetEntityByIdFails
  <2>. QED BY <1>6, <1>9, <2>1 DEF StepInside
<1>h. CASE \/ BeginLocalTransaction(e) \/ BeginLocalTransactionFails(e) \/ CommitLocalTransaction(e)
           \/ CommitLocalTransactionFails(e) \/ RollbackLocalTransaction(e)
  <2>1. Executing(e, "BEGIN") \/ Executing(e, "COMMIT") \/ Executing(e, "ROLLBACK")
    BY <1>h DEF BeginLocalTransaction, BeginLocalTransactionFails, CommitLocalTransaction,
               CommitLocalTransactionFails, RollbackLocalTransaction
  <2>. QED BY <1>6, <2>1
<1>. QED BY <1>a, <1>b, <1>c, <1>d, <1>e, <1>f, <1>g, <1>h DEF CreateOrDelete

----------------------------------------------------------------------------
(* The invariant, and the steps inside the transaction                     *)

(* An element hands the connection its next statement.                     *)
LEMMA SendInside ==
  ASSUME TypeOK, BulkInv, call \in {"executable", "rollback", "thrown"}, NEW e \in Rows,
         WritesInTransaction(e), NEW s \in Seq(Statements), Remains(s),
         call = "executable" => \A i \in 1..Len(s) : s[i].sender # e,
         tx' = tx,
         \/ Send(e, "write", "WRITE", s) /\ element[e] = "hooks"
         \/ Send(e, "read", "READ", s) /\ pend'[Connection][e] = After
  PROVE  BulkInv'
<1>1. PICK state \in {"write", "read"}, sql \in {"WRITE", "READ"} :
        /\ Send(e, state, sql, s)
        /\ state = IF sql = "WRITE" THEN "write" ELSE "read"
        /\ state = "write" => element[e] = "hooks"
        /\ state = "read" => pend'[Connection][e] = After
  BY Zenon
<1>2. /\ UNCHANGED <<operation, connection, globalTransaction, call, response, didStart, late>>
      /\ element' = [element EXCEPT ![e] = state]
      /\ queue' = Append(s, Statement(e, sql))
  BY <1>1 DEF Send, callVars
<1>3. \A f \in Rows : element'[f] = IF f = e THEN state ELSE element[f]
  BY <1>2 DEF TypeOK
<1>4. Statement(e, sql) \in Statements /\ Statement(e, sql).sender = e /\ Statement(e, sql).sql = sql
  BY StatementType
<1>5. /\ Len(s) \in Nat /\ Len(queue') = Len(s) + 1 /\ queue'[Len(s) + 1] = Statement(e, sql)
      /\ \A i \in 1..Len(s) : queue'[i] = s[i]
      /\ \A i \in 1..Len(queue') : i \in 1..Len(s) \/ i = Len(s) + 1
  BY <1>2, <1>4, Appended
<1>6. PICK shift \in {0, 1} : \A i \in 1..Len(s) : i + shift \in 1..Len(queue) /\ s[i] = queue[i + shift]
  BY DEF Remains
<1>7. After' = After
  BY <1>2 DEF After, Before
<1>8. InsideTransaction'
  <2>1. \A i \in 1..Len(queue') :
          \/ queue'[i].sender \in Rows /\ queue'[i].sql \in {"WRITE", "READ"}
          \/ call = "rollback" /\ queue'[i] = Statement(Call, "ROLLBACK")
    BY <1>4, <1>5, <1>6 DEF BulkInv, InsideTransaction
  <2>2. /\ connection = Connection /\ globalTransaction /\ response = "none"
        /\ \A f \in Rows : ~didStart[f] /\ element[f] # "ready"
    BY DEF BulkInv, InsideTransaction
  <2>. QED BY <1>2, <1>3, <2>1, <2>2 DEF InsideTransaction, WritesInTransaction
<1>9. AllWell'
  <2>. SUFFICES ASSUME call = "executable" PROVE AllWell'
    BY <1>2 DEF AllWell
  <2>1. /\ tx[Connection] = "active" /\ late = {}
        /\ \A i \in 1..Len(queue) : element[queue[i].sender] = IF queue[i].sql = "WRITE" THEN "write" ELSE "read"
        /\ \A i, j \in 1..Len(queue) : queue[i].sender = queue[j].sender => i = j
        /\ \A f \in Rows : element[f] \in {"read", "succeeded"} => pend[Connection][f] = After
    BY DEF BulkInv, AllWell
  <2>2. \A i \in 1..Len(s) : /\ s[i].sender \in Rows \ {e}
                             /\ element[s[i].sender] = IF s[i].sql = "WRITE" THEN "write" ELSE "read"
    BY <1>6, <2>1 DEF BulkInv, InsideTransaction
  <2>3. \A i \in 1..Len(queue') : element'[queue'[i].sender] = IF queue'[i].sql = "WRITE" THEN "write" ELSE "read"
    BY <1>1, <1>3, <1>4, <1>5, <2>2
  <2>4. \A i, j \in 1..Len(s) : s[i].sender = s[j].sender => i = j
    <3>1. ASSUME NEW i \in 1..Len(s), NEW j \in 1..Len(s), s[i].sender = s[j].sender PROVE i = j
      <4>1. i + shift = j + shift
        BY <1>6, <2>1, <3>1
      <4>. QED BY <4>1
    <3>. QED BY <3>1
  <2>5. \A i, j \in 1..Len(queue') : queue'[i].sender = queue'[j].sender => i = j
    BY <1>4, <1>5, <2>2, <2>4
  <2>6. \A f \in Rows : element'[f] \in {"read", "succeeded"} => pend'[Connection][f] = After
    BY <1>1, <1>3, <2>1 DEF WritesInTransaction
  <2>. QED BY <1>2, <1>7, <2>1, <2>3, <2>5, <2>6 DEF AllWell
<1>10. RollingBack'
  <2>. SUFFICES ASSUME call = "rollback" PROVE RollingBack'
    BY <1>2 DEF RollingBack
  <2>1. /\ \A f \in Rows \ late : element[f] \notin {"hashing", "hooks"}
        /\ \A i, j \in 1..Len(queue) :
             i < j /\ queue[i].sender = Call => queue[j].sql = "READ" \/ queue[j].sender \in late
    BY DEF BulkInv, RollingBack
  <2>2. \A f \in Rows \ late : element'[f] \notin {"hashing", "hooks"}
    BY <1>3, <2>1
  <2>3. sql = "READ" \/ e \in late
    BY <1>1, <2>1
  <2>4. ASSUME NEW i \in 1..Len(queue'), NEW j \in 1..Len(queue'), i < j, queue'[i].sender = Call
        PROVE  queue'[j].sql = "READ" \/ queue'[j].sender \in late
    <3>1. CASE j = Len(s) + 1
      BY <1>4, <1>5, <2>3, <3>1
    <3>2. CASE j \in 1..Len(s)
      <4>1. /\ i \in 1..Len(s) /\ i + shift \in 1..Len(queue) /\ j + shift \in 1..Len(queue)
            /\ i + shift < j + shift
            /\ queue'[i] = queue[i + shift] /\ queue'[j] = queue[j + shift]
        BY <1>5, <1>6, <2>4, <3>2
      <4>. QED BY <2>1, <2>4, <4>1
    <3>. QED BY <1>5, <3>1, <3>2
  <2>. QED BY <1>2, <2>2, <2>4 DEF RollingBack
<1>. QED BY <1>2, <1>8, <1>9, <1>10 DEF BulkInv, Starting, Committing, Answered, Succeeded, InsideTransaction

(* An element settles and the executable goes on waiting, or has returned. *)
LEMMA SettleOneOfMany ==
  ASSUME TypeOK, BulkInv, call \in {"executable", "rollback", "thrown"}, NEW e \in Rows,
         WritesInTransaction(e), NEW s \in Seq(Statements), Remains(s),
         call = "executable" => \A i \in 1..Len(s) : s[i].sender # e,
         NEW outcome \in {"succeeded", "failed"},
         element' = [element EXCEPT ![e] = outcome],
         UNCHANGED <<operation, connection, globalTransaction, didStart, late, call, response>>,
         queue' = s,
         call = "executable" => tx' = tx /\ pend'[Connection][e] = After
  PROVE  BulkInv'
<1>1. \A f \in Rows : element'[f] = IF f = e THEN outcome ELSE element[f]
  BY DEF TypeOK
<1>2. PICK shift \in {0, 1} : \A i \in 1..Len(s) : i + shift \in 1..Len(queue) /\ s[i] = queue[i + shift]
  BY DEF Remains
<1>3. After' = After /\ Len(s) \in Nat
  BY DEF After, Before
<1>4. InsideTransaction'
  <2>1. /\ connection = Connection /\ globalTransaction /\ response = "none"
        /\ \A f \in Rows : ~didStart[f] /\ element[f] # "ready"
        /\ \A i \in 1..Len(s) :
             \/ s[i].sender \in Rows /\ s[i].sql \in {"WRITE", "READ"}
             \/ call = "rollback" /\ s[i] = Statement(Call, "ROLLBACK")
    BY <1>2 DEF BulkInv, InsideTransaction
  <2>. QED BY <1>1, <2>1 DEF InsideTransaction, WritesInTransaction
<1>5. AllWell'
  <2>. SUFFICES ASSUME call = "executable" PROVE AllWell'
    BY DEF AllWell
  <2>1. /\ tx[Connection] = "active" /\ late = {}
        /\ \A i \in 1..Len(queue) : element[queue[i].sender] = IF queue[i].sql = "WRITE" THEN "write" ELSE "read"
        /\ \A i, j \in 1..Len(queue) : queue[i].sender = queue[j].sender => i = j
        /\ \A f \in Rows : element[f] \in {"read", "succeeded"} => pend[Connection][f] = After
    BY DEF BulkInv, AllWell
  <2>2. \A i \in 1..Len(s) : /\ s[i].sender \in Rows \ {e}
                             /\ element[s[i].sender] = IF s[i].sql = "WRITE" THEN "write" ELSE "read"
    BY <1>2, <2>1 DEF BulkInv, InsideTransaction
  <2>3. \A i, j \in 1..Len(s) : s[i].sender = s[j].sender => i = j
    <3>1. ASSUME NEW i \in 1..Len(s), NEW j \in 1..Len(s), s[i].sender = s[j].sender PROVE i = j
      <4>1. i + shift = j + shift
        BY <1>2, <2>1, <3>1
      <4>. QED BY <4>1
    <3>. QED BY <3>1
  <2>4. \A f \in Rows : element'[f] \in {"read", "succeeded"} => pend'[Connection][f] = After
    BY <1>1, <2>1 DEF WritesInTransaction
  <2>5. \A i \in 1..Len(s) : element'[s[i].sender] = IF s[i].sql = "WRITE" THEN "write" ELSE "read"
    BY <1>1, <2>2
  <2>. QED BY <1>3, <2>1, <2>3, <2>4, <2>5 DEF AllWell
<1>6. RollingBack'
  <2>. SUFFICES ASSUME call = "rollback" PROVE RollingBack'
    BY DEF RollingBack
  <2>1. /\ \A f \in Rows \ late : element[f] \notin {"hashing", "hooks"}
        /\ \A i, j \in 1..Len(queue) :
             i < j /\ queue[i].sender = Call => queue[j].sql = "READ" \/ queue[j].sender \in late
    BY DEF BulkInv, RollingBack
  <2>2. \A f \in Rows \ late : element'[f] \notin {"hashing", "hooks"}
    BY <1>1, <2>1
  <2>3. ASSUME NEW i \in 1..Len(s), NEW j \in 1..Len(s), i < j, s[i].sender = Call
        PROVE  s[j].sql = "READ" \/ s[j].sender \in late
    <3>1. i + shift \in 1..Len(queue) /\ j + shift \in 1..Len(queue) /\ i + shift < j + shift
      BY <1>2, <2>3
    <3>. QED BY <1>2, <2>1, <2>3, <3>1
  <2>. QED BY <2>2, <2>3 DEF RollingBack
<1>. QED BY <1>4, <1>5, <1>6 DEF BulkInv, Starting, Committing, Answered, Succeeded, InsideTransaction

(* The first element fails: nothing but late elements writes from now on   *)
(* behind the ROLLBACK.                                                    *)
LEMMA SettleFirstFailure ==
  ASSUME TypeOK, BulkInv, call = "executable", NEW e \in Rows,
         WritesInTransaction(e), NEW s \in Seq(Statements), Remains(s),
         element' = [element EXCEPT ![e] = "failed"],
         UNCHANGED <<operation, connection, globalTransaction, didStart>>,
         late' = {f \in Rows \ {e} : element[f] \in {"hashing", "hooks"}},
         ReturnFromExecutable(TRUE, s)
  PROVE  BulkInv'
<1>1. \A f \in Rows : element'[f] = IF f = e THEN "failed" ELSE element[f]
  BY DEF TypeOK
<1>2. \A i \in 1..Len(s) : s[i].sender \in Rows /\ s[i].sql \in {"WRITE", "READ"}
  BY DEF BulkInv, InsideTransaction, Remains
<1>3. /\ connection = Connection /\ globalTransaction /\ response = "none" /\ response' = "none"
      /\ \A f \in Rows : ~didStart[f] /\ element[f] # "ready"
  BY DEF BulkInv, InsideTransaction, ReturnFromExecutable
<1>4. CASE call' = "thrown" /\ queue' = s
  BY <1>1, <1>2, <1>3, <1>4 DEF BulkInv, Starting, InsideTransaction, AllWell, Committing, RollingBack, Answered,
       Succeeded, WritesInTransaction
<1>5. CASE call' = "rollback" /\ queue' = Append(s, Statement(Call, "ROLLBACK"))
  <2>1. /\ Len(s) \in Nat /\ Len(queue') = Len(s) + 1 /\ queue'[Len(s) + 1] = Statement(Call, "ROLLBACK")
        /\ \A i \in 1..Len(s) : queue'[i] = s[i]
        /\ \A i \in 1..Len(queue') : i \in 1..Len(s) \/ i = Len(s) + 1
    <3>1. Statement(Call, "ROLLBACK") \in Statements
      BY StatementType
    <3>. QED BY <1>5, <3>1, Appended
  <2>2. InsideTransaction'
    <3>1. \A i \in 1..Len(queue') :
            \/ queue'[i].sender \in Rows /\ queue'[i].sql \in {"WRITE", "READ"}
            \/ queue'[i] = Statement(Call, "ROLLBACK")
      BY <1>2, <2>1
    <3>. QED BY <1>1, <1>3, <1>5, <3>1 DEF InsideTransaction, WritesInTransaction
  <2>3. RollingBack'
    <3>1. \A f \in Rows \ late' : element'[f] \notin {"hashing", "hooks"}
      BY <1>1
    <3>2. \A i, j \in 1..Len(queue') : i < j => queue'[i].sender # Call
      BY <1>2, <2>1, CallIsNoElement
    <3>. QED BY <3>1, <3>2 DEF RollingBack
  <2>. QED BY <1>3, <1>5, <2>2, <2>3 DEF BulkInv, Starting, AllWell, Committing, Answered, Succeeded
<1>. QED BY <1>4, <1>5 DEF ReturnFromExecutable

(* The last element succeeds: nothing else is queued and every row is      *)
(* written.                                                                *)
LEMMA SettleLastSuccess ==
  ASSUME TypeOK, BulkInv, call = "executable", NEW e \in Rows,
         WritesInTransaction(e), NEW s \in Seq(Statements), Remains(s),
         \A i \in 1..Len(s) : s[i].sender # e,
         element' = [element EXCEPT ![e] = "succeeded"],
         UNCHANGED <<operation, connection, globalTransaction, didStart, late>>,
         tx' = tx, pend'[Connection][e] = After,
         \A f \in Rows \ {e} : element[f] = "succeeded",
         ReturnFromExecutable(FALSE, s)
  PROVE  BulkInv'
<1>1. \A f \in Rows : element'[f] = "succeeded"
  BY DEF TypeOK
<1>2. \A i \in 1..Len(s) : /\ s[i].sender \in Rows \ {e} /\ s[i].sql \in {"WRITE", "READ"}
                           /\ element[s[i].sender] \in {"write", "read"}
  BY DEF BulkInv, InsideTransaction, AllWell, Remains
<1>3. s = <<>>
  <2>1. \A i \in 1..Len(s) : FALSE
    BY <1>2
  <2>2. Len(s) \in Nat
    OBVIOUS
  <2>3. Len(s) = 0
    BY <2>1, <2>2
  <2>. QED BY <2>3
<1>4. /\ connection = Connection /\ globalTransaction /\ response = "none" /\ response' = "none"
      /\ \A f \in Rows : ~didStart[f]
      /\ tx[Connection] = "active" /\ late = {}
      /\ \A f \in Rows \ {e} : pend[Connection][f] = After
  BY DEF BulkInv, InsideTransaction, AllWell, ReturnFromExecutable
<1>5. \A f \in Rows : pend'[Connection][f] = After'
  BY <1>4 DEF After, Before, WritesInTransaction
<1>6. CASE call' = "thrown" /\ queue' = s
  BY <1>1, <1>2, <1>4, <1>6 DEF BulkInv, Starting, InsideTransaction, AllWell, Committing, RollingBack, Answered,
       Succeeded, WritesInTransaction
<1>7. CASE call' = "commit" /\ queue' = Append(s, Statement(Call, "COMMIT"))
  <2>1. queue' = <<Statement(Call, "COMMIT")>>
    BY <1>3, <1>7
  <2>2. Committing'
    BY <1>1, <1>4, <1>5, <2>1 DEF Committing
  <2>. QED BY <1>4, <1>7, <2>2 DEF BulkInv, Starting, InsideTransaction, AllWell, RollingBack, Answered, Succeeded
<1>. QED BY <1>6, <1>7 DEF ReturnFromExecutable

LEMMA SettleInside ==
  ASSUME TypeOK, BulkInv, call \in {"executable", "rollback", "thrown"}, NEW e \in Rows,
         WritesInTransaction(e), NEW s \in Seq(Statements), Remains(s),
         call = "executable" => \A i \in 1..Len(s) : s[i].sender # e,
         NEW outcome \in {"succeeded", "failed"}, Settle(e, outcome, s),
         outcome = "succeeded" => tx' = tx /\ (call = "executable" => pend'[Connection][e] = After)
  PROVE  BulkInv'
<1>. DEFINE first == call = "executable" /\ outcome = "failed"
            last == /\ call = "executable" /\ outcome = "succeeded"
                    /\ \A f \in Rows \ {e} : element[f] = "succeeded"
<1>1. /\ element' = [element EXCEPT ![e] = outcome]
      /\ UNCHANGED <<operation, connection, globalTransaction, didStart>>
      /\ late' = IF first THEN {f \in Rows \ {e} : element[f] \in {"hashing", "hooks"}} ELSE late
      /\ IF first \/ last THEN ReturnFromExecutable(first, s)
                          ELSE queue' = s /\ UNCHANGED <<call, response>>
  BY DEF Settle
<1>2. CASE first
  <2>1. ReturnFromExecutable(TRUE, s) /\ late' = {f \in Rows \ {e} : element[f] \in {"hashing", "hooks"}}
    BY <1>1, <1>2
  <2>. QED BY <1>1, <1>2, <2>1, SettleFirstFailure
<1>3. CASE last
  <2>1. ReturnFromExecutable(FALSE, s) /\ late' = late /\ tx' = tx /\ pend'[Connection][e] = After
    BY <1>1, <1>3
  <2>. QED BY <1>1, <1>3, <2>1, SettleLastSuccess
<1>4. CASE ~first /\ ~last
  <2>1. queue' = s /\ UNCHANGED <<call, response, late>>
    BY <1>1, <1>4
  <2>2. call = "executable" => tx' = tx /\ pend'[Connection][e] = After
    BY <1>4
  <2>. QED BY <1>1, <2>1, <2>2, SettleOneOfMany
<1>. QED BY <1>2, <1>3, <1>4

LEMMA HashedInside ==
  ASSUME TypeOK, BulkInv, call \in {"executable", "rollback", "thrown"}, NEW e \in Rows, Hashed(e)
  PROVE  BulkInv'
<1>1. /\ UNCHANGED <<operation, connection, globalTransaction, call, response, didStart, late, queue, db, tx, pend>>
      /\ element[e] = "hashing"
  BY DEF Hashed, callVars, serverVars
<1>2. \A f \in Rows : element'[f] = IF f = e THEN "hooks" ELSE element[f]
  BY DEF Hashed, TypeOK
<1>3. After' = After
  BY <1>1 DEF After, Before
<1>4. InsideTransaction'
  BY <1>1, <1>2 DEF BulkInv, InsideTransaction
<1>5. AllWell'
  <2>. SUFFICES ASSUME call = "executable" PROVE AllWell'
    BY <1>1 DEF AllWell
  <2>1. /\ tx[Connection] = "active" /\ late = {}
        /\ \A i \in 1..Len(queue) : /\ queue[i].sender \in Rows
                                    /\ element[queue[i].sender] = IF queue[i].sql = "WRITE" THEN "write" ELSE "read"
        /\ \A i, j \in 1..Len(queue) : queue[i].sender = queue[j].sender => i = j
        /\ \A f \in Rows : element[f] \in {"read", "succeeded"} => pend[Connection][f] = After
    BY DEF BulkInv, AllWell, InsideTransaction
  <2>2. \A i \in 1..Len(queue) : element'[queue[i].sender] = IF queue[i].sql = "WRITE" THEN "write" ELSE "read"
    BY <1>1, <1>2, <2>1
  <2>3. \A f \in Rows : element'[f] \in {"read", "succeeded"} => pend[Connection][f] = After
    BY <1>2, <2>1
  <2>. QED BY <1>1, <1>3, <2>1, <2>2, <2>3 DEF AllWell
<1>6. RollingBack'
  BY <1>1, <1>2 DEF BulkInv, RollingBack
<1>. QED BY <1>1, <1>4, <1>5, <1>6 DEF BulkInv, Starting, Committing, Answered, Succeeded, InsideTransaction

LEMMA InsideInvariance ==
  ASSUME TypeOK, BulkInv, call \in {"executable", "rollback", "thrown"}, NEW e \in Rows, CreateOrDelete(e)
  PROVE  BulkInv'
<1>1. PICK s \in Seq(Statements) :
        /\ Remains(s)
        /\ call = "executable" => \A i \in 1..Len(s) : s[i].sender # e
        /\ StepInside(e, s)
  BY ElementsStepInside DEF BulkInv
<1>2. WritesInTransaction(e)
  BY ElementsStepInside DEF BulkInv
<1>3. CASE Hashed(e)
  BY <1>3, HashedInside
<1>4. CASE element[e] = "hooks" /\ Send(e, "write", "WRITE", s) /\ UNCHANGED serverVars
  <2>1. tx' = tx
    BY <1>4 DEF serverVars
  <2>. QED BY <1>1, <1>2, <1>4, <2>1, SendInside
<1>5. CASE Send(e, "read", "READ", s) /\ tx' = tx /\ pend'[Connection][e] = After
  BY <1>1, <1>2, <1>5, SendInside
<1>6. ASSUME NEW outcome \in {"succeeded", "failed"}, Settle(e, outcome, s),
             outcome = "succeeded" => tx' = tx /\ (call = "executable" => pend'[Connection][e] = After)
      PROVE  BulkInv'
  BY <1>1, <1>2, <1>6, SettleInside
<1>. QED BY <1>1, <1>3, <1>4, <1>5, <1>6 DEF StepInside

----------------------------------------------------------------------------
(* The steps of an element after the call was answered                     *)

(* Settling changes nothing of the call then.                              *)
LEMMA SettleAfterwards ==
  ASSUME TypeOK, call \in {"returned", "released"}, NEW e \in Rows,
         NEW outcome, NEW s, Settle(e, outcome, s)
  PROVE  /\ element' = [element EXCEPT ![e] = outcome] /\ queue' = s
         /\ UNCHANGED <<operation, call, response, didStart, late>>
BY DEF Settle

(* What an element does that had sent nothing when the first one failed    *)
(* concerns its own row, statement and transaction.                        *)
OwnStep(e) ==
  /\ UNCHANGED <<operation, call, response, late>>
  /\ \A f \in Rows \ {e} :
       /\ element'[f] = element[f] /\ didStart'[f] = didStart[f]
       /\ pend'[Connection][f] \in {pend[Connection][f], NoWrite}
  /\ \E s \in Seq(Statements) : Remains(s) /\ (queue' = s \/ \E sql \in Sqls : queue' = Append(s, Statement(e, sql)))

LEMMA OwnSteps ==
  ASSUME TypeOK, call \in {"returned", "released"}, NEW e \in Rows, CreateOrDelete(e)
  PROVE  OwnStep(e)
<1>. DEFINE Program(s) ==
       /\ UNCHANGED <<operation, call, response, late>>
       /\ \A f \in Rows \ {e} : element'[f] = element[f] /\ didStart'[f] = didStart[f]
       /\ queue' = s \/ \E sql \in Sqls : queue' = Append(s, Statement(e, sql))
<1>1. element \in [Rows -> ElementStates] /\ didStart \in [Rows -> BOOLEAN]
  BY TypesAre DEF ProgramTypes
<1>2. ASSUME NEW s, NEW state, NEW sql \in Sqls, Send(e, state, sql, s) PROVE Program(s)
  BY <1>1, <1>2 DEF Send, callVars
<1>3. ASSUME NEW s, NEW outcome, Settle(e, outcome, s) PROVE Program(s)
  BY <1>1, <1>3, SettleAfterwards
<1>4. ASSUME NEW s, Fail(e, s) PROVE Program(s)
  BY <1>2, <1>3, <1>4 DEF Fail, Sqls
<1>5. ASSUME NEW s, NEW state, NEW sql \in Sqls, TrySend(e, state, sql, s) PROVE Program(s)
  BY <1>2, <1>4, <1>5 DEF TrySend
<1>6. ASSUME NEW s, NEW outcome, Finish(e, outcome, s) PROVE Program(s)
  BY <1>3, <1>5, <1>6 DEF Finish, Sqls
<1>. HIDE DEF Program
<1>7. /\ Program(queue) \/ (queue # <<>> /\ Program(Tail(queue)))
  <2>1. CASE Hash(e)
    <3>1. CASE globalTransaction \/ localTransaction
      BY <1>1, <2>1, <3>1 DEF Hash, Program, callVars
    <3>2. CASE ~(globalTransaction \/ localTransaction)
      BY <1>5, <2>1, <3>2 DEF Hash, Sqls
    <3>. QED BY <3>1, <3>2
  <2>2. CASE BeginLocalTransaction(e)
    BY <1>1, <2>2 DEF BeginLocalTransaction, Program, callVars, Executing
  <2>3. CASE BeginLocalTransactionFails(e)
    BY <1>4, <2>3 DEF BeginLocalTransactionFails, Executing
  <2>4. CASE HooksSucceed(e)
    BY <1>5, <2>4 DEF HooksSucceed, Sqls
  <2>5. CASE HooksFail(e)
    BY <1>4, <2>5 DEF HooksFail
  <2>6. CASE WriteEntity(e)
    <3>1. queue # <<>> /\ (TrySend(e, "read", "READ", Tail(queue)) \/ Finish(e, "succeeded", Tail(queue)))
      BY <2>6 DEF WriteEntity, Executing
    <3>2. "READ" \in Sqls
      BY DEF Sqls
    <3>. QED BY <1>5, <1>6, <3>1, <3>2
  <2>7. CASE WriteEntityFails(e)
    BY <1>4, <2>7 DEF WriteEntityFails, Executing
  <2>8. CASE GetEntityById(e)
    BY <1>6, <2>8 DEF GetEntityById, Executing
  <2>9. CASE GetEntityByIdFails(e)
    BY <1>6, <2>9 DEF GetEntityByIdFails, Executing
  <2>10. CASE CommitLocalTransaction(e)
    BY <1>3, <2>10 DEF CommitLocalTransaction, Executing
  <2>11. CASE CommitLocalTransactionFails(e)
    BY <1>4, <2>11 DEF CommitLocalTransactionFails, Executing
  <2>12. CASE RollbackLocalTransaction(e)
    BY <1>3, <2>12 DEF RollbackLocalTransaction, Executing
  <2>. QED BY <2>1, <2>2, <2>3, <2>4, <2>5, <2>6, <2>7, <2>8, <2>9, <2>10, <2>11, <2>12 DEF CreateOrDelete
<1>8. \A f \in Rows \ {e} : pend'[Connection][f] \in {pend[Connection][f], NoWrite}
  <2>1. \/ Begin(Connection) \/ Commit(Connection) \/ Rollback(Connection) \/ CommitError(Connection)
        \/ StatementError(Connection) \/ UNCHANGED serverVars \/ WriteRow(Connection, e, After)
    BY DEF CreateOrDelete, Hash, BeginLocalTransaction, BeginLocalTransactionFails, HooksSucceed,
           HooksFail, WriteEntity, WriteEntityFails, GetEntityById, GetEntityByIdFails,
           CommitLocalTransaction, CommitLocalTransactionFails, RollbackLocalTransaction
  <2>2. pend \in [Conns -> [Rows -> Versions \union {NoWrite}]] /\ Connection \in Conns
    BY BulkAssumption DEF TypeOK, ServerTypeOK
  <2>3. CASE Commit(Connection) \/ Rollback(Connection) \/ CommitError(Connection)
    <3>1. pend' = [pend EXCEPT ![Connection] = [row \in Rows |-> NoWrite]]
      BY <2>3 DEF Commit, Rollback, CommitError, EndTransaction
    <3>. QED BY <2>2, <3>1
  <2>4. CASE Begin(Connection) \/ StatementError(Connection) \/ UNCHANGED serverVars
    BY <2>4 DEF Begin, StatementError, serverVars
  <2>5. CASE WriteRow(Connection, e, After)
    <3>1. pend' = [pend EXCEPT ![Connection][e] = After] \/ pend' = pend
      BY <2>5 DEF WriteRow
    <3>. QED BY <2>2, <3>1
  <2>. QED BY <2>1, <2>3, <2>4, <2>5
<1>9. PICK s \in Seq(Statements) : Remains(s) /\ Program(s)
  BY <1>7, RemainsQueue
<1>. QED BY <1>8, <1>9 DEF OwnStep, Program

LEMMA LateInvariance ==
  ASSUME TypeOK, BulkInv, call \in {"returned", "released"}, NEW e \in late, e \in Rows, CreateOrDelete(e)
  PROVE  BulkInv'
<1>1. /\ UNCHANGED <<operation, call, response, late>>
      /\ \A f \in Rows \ {e} :
           /\ element'[f] = element[f] /\ didStart'[f] = didStart[f]
           /\ pend'[Connection][f] \in {pend[Connection][f], NoWrite}
  BY OwnSteps DEF OwnStep
<1>2. PICK s \in Seq(Statements) :
        Remains(s) /\ (queue' = s \/ \E sql \in Sqls : queue' = Append(s, Statement(e, sql)))
  BY OwnSteps DEF OwnStep
<1>3. \A i \in 1..Len(s) : s[i].sender \in Rows /\ (s[i].sql = "READ" \/ s[i].sender \in late)
  BY <1>2 DEF Remains, BulkInv, Answered
<1>4. \A i \in 1..Len(queue') : queue'[i].sender \in Rows /\ (queue'[i].sql = "READ" \/ queue'[i].sender \in late)
  <2>1. ASSUME NEW sql \in Sqls, queue' = Append(s, Statement(e, sql))
        PROVE  \A i \in 1..Len(queue') :
                 queue'[i].sender \in Rows /\ (queue'[i].sql = "READ" \/ queue'[i].sender \in late)
    <3>1. Statement(e, sql) \in Statements /\ Statement(e, sql).sender = e
      BY StatementType DEF Sqls
    <3>2. /\ Len(s) \in Nat /\ queue'[Len(s) + 1] = Statement(e, sql)
          /\ \A i \in 1..Len(s) : queue'[i] = s[i]
          /\ \A i \in 1..Len(queue') : i \in 1..Len(s) \/ i = Len(s) + 1
      BY <2>1, <3>1, Appended
    <3>. QED BY <1>3, <3>1, <3>2
  <2>. QED BY <1>2, <1>3, <2>1
<1>5. Answered'
  BY <1>1, <1>4 DEF BulkInv, Answered
<1>. QED BY <1>1, <1>5 DEF BulkInv, Starting, InsideTransaction, AllWell, Committing, RollingBack, Succeeded

(* The other elements read at most.                                        *)
LEMMA EarlyInvariance ==
  ASSUME TypeOK, BulkInv, call \in {"returned", "released"}, NEW e \in Rows \ late, CreateOrDelete(e)
  PROVE  BulkInv' /\ UNCHANGED db
<1>1. ~didStart[e] /\ element[e] \notin {"hashing", "hooks"} /\ Connection \in Conns
  BY BulkAssumption DEF BulkInv, Answered
<1>2. ASSUME NEW sql, Executing(e, sql) PROVE sql = "READ" /\ queue # <<>>
  <2>1. /\ queue # <<>> /\ 1 \in 1..Len(queue) /\ queue[1].sender = e /\ queue[1].sql = sql
    BY <1>2, RemainsQueue DEF Executing, Statement
  <2>. QED BY <2>1 DEF BulkInv, Answered
<1>3. \E outcome \in {"succeeded", "failed"} :
        /\ Executing(e, "READ") /\ Finish(e, outcome, Tail(queue))
        /\ UNCHANGED serverVars \/ StatementError(Connection)
  BY <1>1, <1>2 DEF CreateOrDelete, Hash, BeginLocalTransaction, BeginLocalTransactionFails, HooksSucceed,
         HooksFail, WriteEntity, WriteEntityFails, GetEntityById, GetEntityByIdFails,
         CommitLocalTransaction, CommitLocalTransactionFails, RollbackLocalTransaction
<1>4. PICK outcome \in {"succeeded", "failed"} : Settle(e, outcome, Tail(queue))
  BY <1>1, <1>3 DEF Finish
<1>5. /\ element' = [element EXCEPT ![e] = outcome] /\ queue' = Tail(queue)
      /\ UNCHANGED <<operation, call, response, didStart, late>>
  BY <1>4, SettleAfterwards
<1>6. /\ UNCHANGED <<db, pend>>
      /\ tx[Connection] = "none" => tx'[Connection] = "none"
  BY <1>1, <1>3 DEF StatementError, serverVars, TypeOK, ServerTypeOK
<1>7. queue # <<>> /\ Remains(Tail(queue))
  BY <1>2, <1>3, RemainsQueue
<1>8. \A i \in 1..Len(queue') : queue'[i].sender \in Rows /\ (queue'[i].sql = "READ" \/ queue'[i].sender \in late)
  BY <1>5, <1>7 DEF Remains, BulkInv, Answered
<1>9. \A f \in Rows : element'[f] = IF f = e THEN outcome ELSE element[f]
  BY <1>5 DEF TypeOK
<1>10. Answered'
  BY <1>5, <1>6, <1>8, <1>9 DEF BulkInv, Answered
<1>11. Succeeded'
  BY <1>5, <1>7 DEF BulkInv, Succeeded
<1>. QED BY <1>5, <1>6, <1>10, <1>11 DEF BulkInv, Starting, InsideTransaction, AllWell, Committing, RollingBack

(* Before the executable starts, and while the COMMIT of the call is       *)
(* queued, no element acts.                                                *)
LEMMA NoElementActs ==
  ASSUME TypeOK, BulkInv, call \in {"ready", "begin", "commit"}, NEW e \in Rows
  PROVE  ~CreateOrDelete(e)
<1>. SUFFICES ASSUME CreateOrDelete(e) PROVE FALSE
  OBVIOUS
<1>1. element[e] \notin {"hashing", "hooks"}
  BY DEF BulkInv, Starting, Committing
<1>2. ASSUME NEW sql, Executing(e, sql) PROVE FALSE
  <2>1. queue # <<>> /\ Head(queue).sender = e
    BY <1>2 DEF Executing, Statement
  <2>2. ASSUME NEW other, queue = <<Statement(Call, other)>> PROVE FALSE
    <3>1. Head(queue).sender = Call
      BY <2>2 DEF Statement
    <3>. QED BY <2>1, <3>1, CallIsNoElement
  <2>. QED BY <2>1, <2>2 DEF BulkInv, Starting, Committing
<1>. QED BY <1>1, <1>2 DEF CreateOrDelete, Hash, BeginLocalTransaction, BeginLocalTransactionFails, HooksSucceed,
         HooksFail, WriteEntity, WriteEntityFails, GetEntityById, GetEntityByIdFails,
         CommitLocalTransaction, CommitLocalTransactionFails, RollbackLocalTransaction

LEMMA ElementInvariance ==
  ASSUME TypeOK, BulkInv, NEW e \in Rows, CreateOrDelete(e)
  PROVE  BulkInv'
<1>1. call \in {"ready", "begin", "executable", "commit", "rollback", "returned", "released", "thrown"}
  BY DEF TypeOK
<1>2. late \subseteq Rows
  BY DEF TypeOK
<1>. QED BY <1>1, <1>2, NoElementActs, InsideInvariance, LateInvariance, EarlyInvariance

----------------------------------------------------------------------------
(* The steps of the call                                                   *)

(* A statement of the call is executed when the call waits for it.         *)
LEMMA CallsTurn ==
  ASSUME TypeOK, BulkInv, NEW sql, Executing(Call, sql)
  PROVE  /\ sql = "BEGIN" => call = "begin" /\ Tail(queue) = <<>>
         /\ sql = "COMMIT" => call = "commit" /\ Tail(queue) = <<>>
         /\ sql = "ROLLBACK" => call = "rollback"
<1>1. /\ queue # <<>> /\ 1 \in 1..Len(queue) /\ queue[1] = Statement(Call, sql) /\ Head(queue) = queue[1]
  BY RemainsQueue DEF Executing
<1>2. queue[1].sender = Call /\ queue[1].sql = sql /\ Call \notin Rows
  BY <1>1, CallIsNoElement DEF Statement
<1>3. ASSUME NEW other \in Sqls, queue = <<Statement(Call, other)>>
      PROVE  sql = other /\ Tail(queue) = <<>>
  <2>1. Statement(Call, other) \in Statements /\ Statement(Call, other).sql = other
    BY StatementType DEF Sqls
  <2>. QED BY <1>1, <1>2, <1>3, <2>1, OneStatement
<1>4. call \in {"ready", "begin", "executable", "commit", "rollback", "returned", "released", "thrown"}
  BY DEF TypeOK
<1>5. CASE call \in {"ready", "begin"}
  BY <1>1, <1>3, <1>5 DEF BulkInv, Starting, Sqls
<1>6. CASE call = "commit"
  BY <1>1, <1>3, <1>6 DEF BulkInv, Committing, Sqls
<1>7. CASE call \in {"executable", "rollback", "thrown"}
  BY <1>1, <1>2, <1>7 DEF BulkInv, InsideTransaction, Statement
<1>8. CASE call \in {"returned", "released"}
  BY <1>1, <1>2, <1>8 DEF BulkInv, Answered
<1>. QED BY <1>4, <1>5, <1>6, <1>7, <1>8

LEMMA CallInvariance ==
  ASSUME TypeOK, BulkInv, CallStep
  PROVE  BulkInv'
<1>. USE DEF elementVars
<1>0. Connection \in Conns /\ db \in [Rows -> Versions] /\ tx \in [Conns -> TxStates]
      /\ pend \in [Conns -> [Rows -> Versions \union {NoWrite}]]
  BY BulkAssumption DEF TypeOK, ServerTypeOK
<1>1. CASE ExecuteInsideTransaction
  <2>1. Statement(Call, "BEGIN") \in Statements
    BY StatementType
  <2>2. queue' = <<Statement(Call, "BEGIN")>> /\ call' = "begin" /\ globalTransaction' /\ call = "ready"
        /\ UNCHANGED <<serverVars, elementVars, operation, connection, response>>
    BY <1>1, <2>1, OneStatement DEF ExecuteInsideTransaction, BulkInv, Starting
  <2>. QED BY <2>2 DEF BulkInv, Starting, InsideTransaction, AllWell, Committing, RollingBack, Answered, Succeeded,
       serverVars
<1>2. CASE BeginGlobalTransaction
  <2>1. call = "begin" /\ Tail(queue) = <<>>
    BY <1>2, CallsTurn DEF BeginGlobalTransaction
  <2>2. /\ connection = Connection /\ tx[Connection] = "none" /\ late = {} /\ response = "none"
        /\ globalTransaction
        /\ \A e \in Rows : element[e] = "ready" /\ ~didStart[e] /\ pend[Connection][e] = NoWrite
    BY <2>1 DEF BulkInv, Starting
  <2>3. /\ tx'[Connection] = "active" /\ UNCHANGED <<db, pend>> /\ call' = "executable"
        /\ UNCHANGED <<operation, connection, globalTransaction, response, didStart, late>>
    BY <1>0, <1>2 DEF BeginGlobalTransaction, Begin
  <2>4. CASE operation = "createEntities"
    <3>1. queue' = <<>> /\ element' = [e \in Rows |-> "hashing"]
      BY <1>2, <2>1, <2>4 DEF BeginGlobalTransaction
    <3>2. \A i \in 1..Len(queue') : FALSE
      BY <3>1
    <3>3. InsideTransaction'
      BY <2>2, <2>3, <3>1, <3>2 DEF InsideTransaction
    <3>4. AllWell'
      BY <2>2, <2>3, <3>1, <3>2 DEF AllWell
    <3>. QED BY <2>2, <2>3, <3>3, <3>4 DEF BulkInv, Starting, Committing, RollingBack, Answered, Succeeded
  <2>5. CASE operation # "createEntities"
    <3>. DEFINE writes == [e \in 1..Cardinality(Rows) |-> Statement(e, "WRITE")]
    <3>1. element' = [e \in Rows |-> "write"] /\ queue' = <<>> \o [e \in Rows |-> Statement(e, "WRITE")]
      BY <1>2, <2>1, <2>5 DEF BeginGlobalTransaction
    <3>2. /\ writes \in Seq(Statements) /\ Len(writes) = Cardinality(Rows)
          /\ \A i \in 1..Cardinality(Rows) : writes[i] = Statement(i, "WRITE")
      <4>1. Cardinality(Rows) \in Nat /\ Rows = 1..Cardinality(Rows)
        BY CallIsNoElement, BulkAssumption
      <4>2. \A i \in 1..Cardinality(Rows) : Statement(i, "WRITE") \in Statements
        BY <4>1, StatementType
      <4>. QED BY <4>1, <4>2
    <3>3. [e \in Rows |-> Statement(e, "WRITE")] = writes
      BY BulkAssumption
    <3>4. queue' = writes
      <4>. HIDE DEF writes
      <4>. QED BY <3>1, <3>2, <3>3
    <3>5. /\ Len(queue') = Cardinality(Rows) /\ 1..Cardinality(Rows) = Rows
          /\ \A i \in Rows : queue'[i] = Statement(i, "WRITE")
      BY <3>2, <3>4, BulkAssumption
    <3>6. \A i \in 1..Len(queue') : queue'[i].sender = i /\ queue'[i].sql = "WRITE" /\ i \in Rows
      <4>1. 1..Len(queue') = Rows
        BY <3>5
      <4>2. \A i \in Rows : queue'[i].sender = i /\ queue'[i].sql = "WRITE"
        <5>. SUFFICES ASSUME NEW i \in Rows PROVE queue'[i].sender = i /\ queue'[i].sql = "WRITE"
          OBVIOUS
        <5>1. queue'[i] = Statement(i, "WRITE")
          BY <3>5
        <5>2. Statement(i, "WRITE").sender = i /\ Statement(i, "WRITE").sql = "WRITE"
          BY StatementType
        <5>. QED BY ONLY <5>1, <5>2
      <4>. QED BY <4>1, <4>2
    <3>7. InsideTransaction'
      BY <2>2, <2>3, <3>1, <3>6 DEF InsideTransaction
    <3>8. AllWell'
      <4>1. \A i \in 1..Len(queue') : element'[queue'[i].sender] = "write" /\ queue'[i].sql = "WRITE"
        BY <3>1, <3>6
      <4>2. \A i, j \in 1..Len(queue') : queue'[i].sender = queue'[j].sender => i = j
        BY <3>6
      <4>3. \A e \in Rows : element'[e] \notin {"read", "succeeded"}
        BY <3>1
      <4>. QED BY <2>2, <2>3, <4>1, <4>2, <4>3 DEF AllWell
    <3>. QED BY <2>2, <2>3, <3>7, <3>8 DEF BulkInv, Starting, Committing, RollingBack, Answered, Succeeded
  <2>. QED BY <2>4, <2>5
<1>3. CASE BeginGlobalTransactionFails
  <2>1. call = "begin" /\ queue' = <<>>
    BY <1>3, CallsTurn DEF BeginGlobalTransactionFails
  <2>2. \A i \in 1..Len(queue') : FALSE
    BY <2>1
  <2>3. /\ tx[Connection] = "none" /\ late = {}
        /\ \A e \in Rows : element[e] = "ready" /\ ~didStart[e] /\ pend[Connection][e] = NoWrite
    BY <2>1 DEF BulkInv, Starting
  <2>4. call' = "returned" /\ response' = "error" /\ UNCHANGED <<serverVars, element, didStart, late>>
    BY <1>3 DEF BeginGlobalTransactionFails, Answer
  <2>. QED BY <2>1, <2>2, <2>3, <2>4 DEF BulkInv, Starting, InsideTransaction, AllWell, Committing, RollingBack,
       Answered, Succeeded, serverVars
<1>4. CASE CommitGlobalTransaction \/ CommitGlobalTransactionFails
  <2>1. call = "commit" /\ queue' = <<>>
    BY <1>4, CallsTurn DEF CommitGlobalTransaction, CommitGlobalTransactionFails
  <2>2. \A i \in 1..Len(queue') : FALSE
    BY <2>1
  <2>3. /\ tx[Connection] = "active" /\ late = {}
        /\ \A e \in Rows : element[e] = "succeeded" /\ ~didStart[e] /\ pend[Connection][e] = After
    BY <2>1 DEF BulkInv, Committing
  <2>4. /\ call' = "returned" /\ UNCHANGED <<element, didStart, late, operation>>
        /\ response' = "error" \/ (response' = "ok" /\ Commit(Connection))
        /\ Commit(Connection) \/ Rollback(Connection)
    BY <1>4 DEF CommitGlobalTransaction, CommitGlobalTransactionFails, Answer, CommitError
  <2>5. tx'[Connection] = "none" /\ \A e \in Rows : pend'[Connection][e] = NoWrite
    BY <1>0, <2>4 DEF Commit, Rollback, EndTransaction
  <2>6. response' = "ok" => \A e \in Rows : db'[e] = After'
    <3>. SUFFICES ASSUME Commit(Connection) PROVE \A e \in Rows : db'[e] = After
      BY <2>4 DEF After, Before
    <3>1. db' = [row \in Rows |-> Visible(Connection, row)]
      BY <2>3 DEF Commit
    <3>. QED BY <2>3, <3>1, AfterType DEF Visible
  <2>7. Answered' /\ Succeeded'
    BY <2>1, <2>2, <2>3, <2>4, <2>5, <2>6 DEF Answered, Succeeded
  <2>. QED BY <2>4, <2>7 DEF BulkInv, Starting, InsideTransaction, AllWell, Committing, RollingBack
<1>5. CASE RollbackGlobalTransaction
  <2>1. call = "rollback" /\ queue # <<>> /\ queue' = Tail(queue) /\ Head(queue) = Statement(Call, "ROLLBACK")
    BY <1>5, CallsTurn DEF RollbackGlobalTransaction, Executing
  <2>2. /\ call' = "returned" /\ response' = "error" /\ UNCHANGED <<element, didStart, late>>
        /\ Rollback(Connection)
    BY <1>5 DEF RollbackGlobalTransaction, Answer
  <2>3. tx'[Connection] = "none" /\ \A e \in Rows : pend'[Connection][e] = NoWrite
    BY <1>0, <2>2 DEF Rollback, EndTransaction
  <2>4. /\ queue[1].sender = Call /\ 1 \in 1..Len(queue) /\ queue[1].sql = "ROLLBACK"
        /\ \A i \in 1..Len(queue') : i + 1 \in 1..Len(queue) /\ queue'[i] = queue[i + 1] /\ 1 < i + 1
    <3>1. /\ Head(queue) = queue[1] /\ 1 \in 1..Len(queue) /\ Len(queue) \in Nat
          /\ Len(Tail(queue)) = Len(queue) - 1
          /\ \A i \in 1..Len(Tail(queue)) : i + 1 \in 1..Len(queue) /\ Tail(queue)[i] = queue[i + 1]
      BY <2>1, RemainsQueue, Executed
    <3>2. \A i \in 1..Len(Tail(queue)) : 1 < i + 1
      BY <3>1
    <3>. QED BY <2>1, <3>1, <3>2 DEF Statement
  <2>5. \A i \in 1..Len(queue') : queue'[i].sql = "READ" \/ queue'[i].sender \in late
    BY <2>1, <2>4 DEF BulkInv, RollingBack
  <2>6. \A i \in 1..Len(queue') : queue'[i].sender \in Rows
    <3>. SUFFICES ASSUME NEW i \in 1..Len(queue') PROVE queue'[i].sender \in Rows
      OBVIOUS
    <3>1. CASE queue'[i].sql = "READ"
      <4>1. queue[i + 1].sql = "READ" /\ Statement(Call, "ROLLBACK").sql = "ROLLBACK"
        BY <2>4, <3>1 DEF Statement
      <4>. QED BY <2>1, <2>4, <4>1 DEF BulkInv, InsideTransaction
    <3>2. CASE queue'[i].sender \in late
      BY <3>2 DEF TypeOK
    <3>. QED BY <2>5, <3>1, <3>2
  <2>7. \A e \in Rows \ late : element[e] \notin {"hashing", "hooks"} /\ ~didStart[e]
    BY <2>1 DEF BulkInv, RollingBack, InsideTransaction
  <2>8. Answered'
    BY <2>2, <2>3, <2>5, <2>6, <2>7 DEF Answered
  <2>. QED BY <2>2, <2>8 DEF BulkInv, Starting, InsideTransaction, AllWell, Committing, RollingBack, Succeeded
<1>6. CASE Release
  BY <1>6 DEF Release, BulkInv, Starting, InsideTransaction, AllWell, Committing, RollingBack, Answered, Succeeded,
     serverVars, After, Before
<1>. QED BY <1>1, <1>2, <1>3, <1>4, <1>5, <1>6 DEF CallStep

----------------------------------------------------------------------------
(* What holds of every reachable state.                                    *)
LEMMA BulkInvariant == Spec => [](TypeOK /\ BulkInv)
<1>1. Init => BulkInv
  <2>. SUFFICES ASSUME Init PROVE BulkInv
    OBVIOUS
  <2>1. Starting
    BY BulkAssumption DEF Init, Starting
  <2>. QED BY <2>1 DEF Init, BulkInv, InsideTransaction, AllWell, Committing, RollingBack, Answered, Succeeded
<1>2. TypeOK /\ BulkInv /\ [Next]_vars => BulkInv'
  <2>1. Next => CallStep \/ \E e \in Rows : CreateOrDelete(e)
    BY DEF Next, CallStep
  <2>2. BulkInv /\ UNCHANGED vars => BulkInv'
    BY DEF vars, serverVars, callVars, elementVars, BulkInv, Starting, InsideTransaction, AllWell, Committing,
           RollingBack, Answered, Succeeded, After, Before
  <2>. QED BY <2>1, <2>2, CallInvariance, ElementInvariance
<1>. QED BY <1>1, <1>2, InitialTypes, TypeInvariance, PTL DEF Spec

(* No error is answered only when every element of the array is created    *)
(* (SuccessMeansAll).                                                      *)
THEOREM SuccessMeansAllHolds == Spec => []SuccessMeansAll
<1>1. BulkInv => SuccessMeansAll
  BY DEF BulkInv, Succeeded, SuccessMeansAll
<1>. QED BY <1>1, BulkInvariant, PTL

(* The connection is released without a transaction and without a write    *)
(* that is still to be executed, but for elements that had sent nothing    *)
(* when the first one failed (ReleasedClean).                              *)
THEOREM ReleasedCleanHolds == Spec => []ReleasedClean
<1>1. TypeOK /\ BulkInv => ReleasedClean
  <2>. SUFFICES ASSUME TypeOK, BulkInv, call = "released", late = {}
                PROVE  tx[Connection] = "none" /\ \A i \in DOMAIN queue : queue[i].sql = "READ"
    BY DEF ReleasedClean
  <2>1. DOMAIN queue = 1..Len(queue)
    BY RemainsQueue
  <2>. QED BY <2>1 DEF BulkInv, Answered
<1>. QED BY <1>1, BulkInvariant, PTL

(* The rows change all at once, in a COMMIT, but for those of elements     *)
(* that had sent nothing when the first one failed (RowsChangeTogether).   *)
THEOREM RowsChangeTogetherHolds == Spec => RowsChangeTogether
<1>. DEFINE changed == {e \in Rows : db'[e] # db[e]}
            Together == \/ changed \subseteq late
                        \/ Head(queue).sql = "COMMIT" /\ \A e \in Rows : db'[e] = After
<1>1. ASSUME TypeOK, BulkInv, Next PROVE Together
  <2>0. Connection \in Conns /\ db \in [Rows -> Versions]
        /\ pend \in [Conns -> [Rows -> Versions \union {NoWrite}]]
        /\ call \in {"ready", "begin", "executable", "commit", "rollback", "returned", "released", "thrown"}
    BY <1>1, BulkAssumption DEF TypeOK, ServerTypeOK
  <2>1. UNCHANGED db => Together
    OBVIOUS
  <2>2. CASE CommitGlobalTransaction \/ CommitGlobalTransactionFails
    <3>1. call = "commit" /\ Head(queue) = Statement(Call, "COMMIT")
      BY <1>1, <2>2, CallsTurn DEF CommitGlobalTransaction, CommitGlobalTransactionFails, Executing
    <3>2. /\ tx[Connection] = "active" /\ \A e \in Rows : pend[Connection][e] = After
      BY <1>1, <3>1 DEF BulkInv, Committing
    <3>3. CASE Commit(Connection)
      <4>1. db' = [row \in Rows |-> Visible(Connection, row)]
        BY <3>2, <3>3 DEF Commit
      <4>2. \A e \in Rows : db'[e] = After
        BY <1>1, <3>2, <4>1, AfterType DEF Visible
      <4>. QED BY <3>1, <4>2 DEF Statement
    <3>4. CASE Rollback(Connection)
      BY <2>1, <3>4 DEF Rollback
    <3>. QED BY <2>2, <3>3, <3>4 DEF CommitGlobalTransaction, CommitGlobalTransactionFails, CommitError
  <2>3. CASE \/ ExecuteInsideTransaction \/ Release \/ BeginGlobalTransaction \/ BeginGlobalTransactionFails
             \/ RollbackGlobalTransaction
    BY <2>1, <2>3 DEF ExecuteInsideTransaction, Release, BeginGlobalTransaction, BeginGlobalTransactionFails,
       RollbackGlobalTransaction, Begin, Rollback, serverVars
  <2>4. ASSUME NEW e \in Rows, CreateOrDelete(e) PROVE Together
    <3>1. CASE call \in {"ready", "begin", "commit"}
      BY <1>1, <2>4, <3>1, NoElementActs
    <3>2. CASE call \in {"executable", "rollback", "thrown"}
      <4>1. UNCHANGED db
        BY <1>1, <2>4, <3>2, ElementsStepInside DEF BulkInv, WritesInTransaction
      <4>. QED BY <2>1, <4>1
    <3>3. CASE call \in {"returned", "released"} /\ e \notin late
      <4>1. UNCHANGED db
        BY <1>1, <2>4, <3>3, EarlyInvariance
      <4>. QED BY <2>1, <4>1
    <3>4. CASE call \in {"returned", "released"} /\ e \in late
      <4>1. \/ Commit(Connection) \/ WriteRow(Connection, e, After) \/ UNCHANGED db
        BY <2>4 DEF CreateOrDelete, Hash, BeginLocalTransaction, BeginLocalTransactionFails, HooksSucceed,
           HooksFail, WriteEntity, WriteEntityFails, GetEntityById, GetEntityByIdFails,
           CommitLocalTransaction, CommitLocalTransactionFails, RollbackLocalTransaction,
           Begin, Rollback, CommitError, StatementError, serverVars
      <4>2. CASE Commit(Connection)
        <5>1. \A f \in Rows \ late : pend[Connection][f] = NoWrite
          BY <1>1, <3>4 DEF BulkInv, Answered
        <5>2. \A f \in Rows \ late : db'[f] = db[f]
          BY <4>2, <5>1 DEF Commit, Visible
        <5>. QED BY <5>2
      <4>3. CASE WriteRow(Connection, e, After)
        <5>1. \A f \in Rows \ {e} : db'[f] = db[f]
          BY <2>0, <4>3 DEF WriteRow
        <5>. QED BY <3>4, <5>1
      <4>. QED BY <2>1, <4>1, <4>2, <4>3
    <3>. QED BY <2>0, <3>1, <3>2, <3>3, <3>4
  <2>. QED BY <1>1, <2>2, <2>3, <2>4 DEF Next
<1>2. ASSUME TypeOK, BulkInv, [Next]_vars PROVE [Together]_vars
  BY <1>1, <1>2
<1>. HIDE DEF Together
<1>3. (RowsChangeTogether) <=> [][Together]_vars
  BY DEF RowsChangeTogether, Together
<1>. QED BY <1>2, <1>3, BulkInvariant, PTL DEF Spec
=============================================================================
