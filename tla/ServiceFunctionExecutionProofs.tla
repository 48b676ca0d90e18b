------------------- MODULE ServiceFunctionExecutionProofs -------------------
(***************************************************************************)
(* Proofs about ServiceFunctionExecution, for every number of calls,       *)
(* connections, rows and operations.                                       *)
(***************************************************************************)
EXTENDS ServiceFunctionExecution, TLAPS

FramePCs == {"frameBegin", "frameCommit", "frameRollback"}

(* A call between reservation and answer has a connection, and is inside a *)
(* frame where executeInsideTransaction awaits.                            *)
CallsHoldConnections ==
  \A r \in Requests :
    /\ pc[r] \notin {"arrived", "done"} => conn[r] \in Conns
    /\ pc[r] \in FramePCs => depth[r] > 0

(* Locks and pending writes belong to open transactions of connections     *)
(* that are in use.                                                        *)
LocksBelongToTransactions ==
  /\ \A c \in pool : tx[c] = "none"
  /\ \A row \in Rows : lock[row] # NoConn => tx[lock[row]] # "none"
  /\ \A c \in Conns, row \in Rows : pend[c][row] # NoWrite => lock[row] = c

(* Outside frames, only an operation that began a transaction is in one.   *)
BetweenOperations(r) ==
  /\ depth[r] = 0 /\ pc[r] \in {"resolving", "running", "opBegin"} => tx[conn[r]] = "none"
  /\ depth[r] = 0 /\ pc[r] \in {"select", "write"} /\ ~op[r].started => tx[conn[r]] = "none"
  /\ depth[r] = 1 /\ pc[r] = "frameBegin" => tx[conn[r]] = "none"
  /\ op[r].kind = "read" => ~op[r].started /\ pc[r] # "opBegin"

NoTransactionBetweenOperations == \A r \in Requests : BetweenOperations(r)

CallInv ==
  /\ TypeOK
  /\ CallsHoldConnections
  /\ ConnectionOwnership
  /\ LocksBelongToTransactions
  /\ NoTransactionBetweenOperations

(* Careful functions: an error is returned at once and                     *)
(* executeInsideTransaction is not nested.                                 *)
Careful == MaxDepth <= 1 /\ ~IgnoresErrors

(* What the flags say of the transaction of a careful call.                *)
Flags(r) ==
  /\ depth[r] <= 1
  /\ depth[r] = 1 => conn[r] \in Conns
  /\ depth[r] = 1 /\ pc[r] # "done" =>
       /\ globalTransaction[r] /\ ~localTransaction[r] /\ ~op[r].started
       /\ pc[r] \in {"running", "select", "write"} \union FramePCs
       /\ pc[r] # "frameBegin" /\ ~failed[r] => tx[conn[r]] = "active"
  /\ depth[r] = 0 /\ pc[r] \in {"resolving", "running"} /\ ~failed[r] => ~InTransaction(r)
  /\ depth[r] = 0 /\ pc[r] \in {"select", "write"} =>
       IF op[r].started THEN tx[conn[r]] = "active"
                        ELSE op[r].kind = "read" /\ ~InTransaction(r)
  /\ pc[r] = "opBegin" => ~InTransaction(r) /\ op[r].kind # "read"
  /\ pc[r] \in {"opCommit", "opRollback"} => op[r].started /\ ~globalTransaction[r]
  /\ op[r].started =>
       ~globalTransaction[r] /\ pc[r] \in {"select", "write", "opCommit", "opRollback"}
  /\ pc[r] \in {"opBegin", "select", "write", "frameBegin", "opCommit", "frameCommit"} => ~failed[r]
  /\ pc[r] = "write" => op[r].kind # "read"

(* An entity that was read to be changed stays locked and unchanged.       *)
EntityReadIsLocked(r) ==
  pc[r] = "write" /\ op[r].kind \in {"update", "checkedDelete"} =>
    /\ lock[op[r].row] = conn[r]
    /\ op[r].seen = Visible(conn[r], op[r].row)

(* What the open frame of a call wrote is pending and locked.              *)
FrameUncommitted(r) ==
  depth[r] > 0 /\ ~failed[r] =>
    \A row \in frameWrites[r] : lock[row] = conn[r] /\ pend[conn[r]][row] # NoWrite

CarefulInv ==
  \A r \in Requests :
    /\ Flags(r)
    /\ EntityReadIsLocked(r)
    /\ pc[r] = "frameBegin" => frameWrites[r] = {}
    /\ FrameUncommitted(r)

----------------------------------------------------------------------------
(* Types                                                                   *)

(* The transitions of the database keep its types.                         *)
LEMMA ServerTypes ==
  ASSUME ServerTypeOK, NEW c \in Conns, NEW row \in Rows, NEW v \in Versions,
         \/ UNCHANGED serverVars
         \/ Begin(c) \/ Commit(c) \/ Rollback(c) \/ CommitError(c)
         \/ LockRow(c, row) \/ WriteRow(c, row, v) \/ StatementError(c)
  PROVE  ServerTypeOK'
<1> USE DEF ServerTypeOK, TxStates
<1>1. CASE UNCHANGED serverVars
  BY <1>1 DEF serverVars
<1>2. CASE Begin(c)
  BY <1>2 DEF Begin
<1>3. CASE Commit(c)
  BY <1>3 DEF Commit, EndTransaction, Visible, NoWrite
<1>4. CASE Rollback(c)
  BY <1>4 DEF Rollback, EndTransaction
<1>5. CASE CommitError(c)
  BY <1>3, <1>4, <1>5 DEF CommitError, Commit, Rollback, EndTransaction, Visible, NoWrite
<1>6. CASE LockRow(c, row)
  BY <1>6 DEF LockRow
<1>7. CASE WriteRow(c, row, v)
  <2>1. CASE tx[c] = "active"
    <3>1. pend' = [pend EXCEPT ![c] = [pend[c] EXCEPT ![row] = v]]
      BY <1>7, <2>1 DEF WriteRow
    <3>2. [pend[c] EXCEPT ![row] = v] \in [Rows -> Versions \union {NoWrite}]
      OBVIOUS
    <3> QED
      BY <1>7, <2>1, <3>1, <3>2 DEF WriteRow
  <2>2. CASE tx[c] # "active"
    BY <1>7, <2>2 DEF WriteRow
  <2> QED
    BY <2>1, <2>2
<1>8. CASE StatementError(c)
  BY <1>8 DEF StatementError
<1> QED
  BY <1>1, <1>2, <1>3, <1>4, <1>5, <1>6, <1>7, <1>8

(* "No operation" is an operation: there is a row to name in it.           *)
LEMMA NoOperationType == NoOperation \in Operations
  BY ConstantsAssumption, MaxVersionAssumption
  DEF NoOperation, Operations, AllOpKinds, Versions

(* A statement of an operation names a row and writes a version.           *)
LEMMA NewVersionType ==
  ASSUME TypeOK, NEW r \in Requests, NewVersion(r) <= MaxVersion
  PROVE  NewVersion(r) \in Versions
  BY MaxVersionAssumption DEF TypeOK, NewVersion, Versions, Operations

(* Every step of a call keeps the types of the variables.                  *)
LEMMA TypeStep ==
  ASSUME CallInv, NEW r \in Requests, RequestStep(r)
  PROVE  TypeOK'
<1>1. conn[r] \in Conns \/ pc[r] \in {"arrived", "done"}
  BY DEF CallInv, CallsHoldConnections
<1>2. op[r] \in Operations /\ op[r].row \in Rows
  BY DEF CallInv, TypeOK, Operations
<1>3. TypeOK
  BY DEF CallInv
<1> USE <1>3, NoOperationType DEF TypeOK, ServerTypeOK, serverVars, clsVars, callVars, ghostVars, PCs
<1>4. CASE ReserveConnection(r)
  BY <1>4 DEF ReserveConnection
<1>5. CASE ReserveConnectionFails(r)
  BY <1>5 DEF ReserveConnectionFails
<1>6. CASE ResolveUserAccount(r)
  BY <1>6 DEF ResolveUserAccount
<1>7. CASE ResolveUserAccountFails(r)
  BY <1>7 DEF ResolveUserAccountFails, Thrown
<1>8. CASE ThrowFromFunction(r)
  BY <1>8 DEF ThrowFromFunction, Thrown
<1>9. CASE \E error \in BOOLEAN : ReturnFromFunction(r, error)
  BY <1>1, <1>9 DEF ReturnFromFunction
<1>10. CASE \E kind \in OpKinds, row \in Rows, expect \in Expected : StartOperation(r, kind, row, expect)
  <2>1. PICK kind \in OpKinds, row \in Rows, expect \in Expected : StartOperation(r, kind, row, expect)
    BY <1>10
  <2>2. [kind |-> kind, row |-> row, expect |-> expect, seen |-> 0, started |-> FALSE] \in Operations
    BY ConstantsAssumption, MaxVersionAssumption DEF Operations, Versions
  <2>3. op' \in [Requests -> Operations] /\ opsLeft' \in [Requests -> Nat]
    BY <2>1, <2>2 DEF StartOperation
  <2>4. dbLocalTransactionCount' \in [Requests -> Nat]
    BY <2>1 DEF StartOperation
  <2> QED
    BY <2>1, <2>3, <2>4 DEF StartOperation, FirstStatement
<1>11. CASE ExecuteInsideTransaction(r)
  BY <1>11 DEF ExecuteInsideTransaction
<1>12. CASE \E error \in BOOLEAN : CallRemoteService(r, error)
  BY <1>12 DEF CallRemoteService
<1>13. CASE \E error \in BOOLEAN : ReturnFromExecutable(r, error)
  BY <1>13 DEF ReturnFromExecutable
<1>14. CASE BeginLocalTransaction(r)
  <2>1. ServerTypeOK'
    BY <1>1, <1>2, <1>14, ServerTypes, MaxVersionAssumption DEF BeginLocalTransaction, Versions
  <2>2. [op[r] EXCEPT !.started = TRUE] \in Operations
    BY <1>2 DEF Operations
  <2>3. op' \in [Requests -> Operations]
    BY <1>14, <2>2 DEF BeginLocalTransaction
  <2> QED
    BY <1>14, <2>1, <2>3 DEF BeginLocalTransaction, FirstStatement
<1>15. CASE BeginLocalTransactionFails(r)
  BY <1>15 DEF BeginLocalTransactionFails, OpFails
<1>16. CASE SelectEntity(r)
  <2>1. ServerTypeOK'
    BY <1>1, <1>2, <1>16, ServerTypes, MaxVersionAssumption DEF SelectEntity, Versions
  <2>2. Visible(conn[r], op[r].row) \in Versions
    BY <1>1, <1>2, <1>16 DEF SelectEntity, Visible
  <2>3. [op[r] EXCEPT !.seen = Visible(conn[r], op[r].row)] \in Operations
    BY <1>2, <2>2 DEF Operations
  <2> DEFINE read == [op[r] EXCEPT !.seen = Visible(conn[r], op[r].row)]
  <2>4. \/ OpSucceeds(r) \/ OpFails(r)
        \/ op' = [op EXCEPT ![r] = read] /\ pc' = [pc EXCEPT ![r] = "write"] /\ UNCHANGED failed
    BY <1>16 DEF SelectEntity
  <2>5. op' \in [Requests -> Operations]
    <3> HIDE DEF read
    <3>1. read \in Operations
      BY <2>3 DEF read
    <3> QED
      BY <2>4, <3>1 DEF OpSucceeds, OpFails
  <2>6. pc' \in [Requests -> PCs] /\ failed' \in [Requests -> BOOLEAN]
    BY <2>4 DEF OpSucceeds, OpFails
  <2> QED
    BY <1>16, <2>1, <2>5, <2>6 DEF SelectEntity, NoteStatement
<1>17. CASE WriteEntity(r)
  <2>1. NewVersion(r) \in Versions
    BY <1>17, NewVersionType DEF WriteEntity
  <2>2. ServerTypeOK'
    BY <1>1, <1>2, <1>17, <2>1, ServerTypes DEF WriteEntity
  <2>3. frameWrites' \in [Requests -> SUBSET Rows]
    BY <1>2, <1>17 DEF WriteEntity
  <2> QED
    BY <1>17, <2>2, <2>3 DEF WriteEntity, OpSucceeds, NoteStatement
<1>18. CASE StatementFails(r)
  <2>1. ServerTypeOK'
    BY <1>1, <1>2, <1>18, ServerTypes, MaxVersionAssumption DEF StatementFails, Versions
  <2> QED
    BY <1>1, <1>2, <1>18, <2>1 DEF StatementFails, OpFails, NoteStatement
<1>19. CASE CommitLocalTransaction(r)
  <2>1. ServerTypeOK'
    BY <1>1, <1>2, <1>19, ServerTypes, MaxVersionAssumption DEF CommitLocalTransaction, Versions
  <2> QED
    BY <1>1, <1>2, <1>19, <2>1 DEF CommitLocalTransaction, OpSucceeds
<1>20. CASE CommitLocalTransactionFails(r)
  <2>1. ServerTypeOK'
    BY <1>1, <1>2, <1>20, ServerTypes, MaxVersionAssumption DEF CommitLocalTransactionFails, Versions
  <2> QED
    BY <1>1, <1>2, <1>20, <2>1 DEF CommitLocalTransactionFails, OpFails
<1>21. CASE RollbackLocalTransaction(r)
  <2>1. ServerTypeOK'
    BY <1>1, <1>2, <1>21, ServerTypes, MaxVersionAssumption DEF RollbackLocalTransaction, Versions
  <2> QED
    BY <1>1, <1>2, <1>21, <2>1 DEF RollbackLocalTransaction
<1>22. CASE BeginGlobalTransaction(r)
  <2>1. ServerTypeOK'
    BY <1>1, <1>2, <1>22, ServerTypes, MaxVersionAssumption DEF BeginGlobalTransaction, Versions
  <2> QED
    BY <1>1, <1>2, <1>22, <2>1 DEF BeginGlobalTransaction
<1>100. pc[r] \in FramePCs => depth[r] - 1 \in Nat
  BY DEF CallInv, CallsHoldConnections
<1>23. CASE BeginGlobalTransactionFails(r)
  BY <1>23, <1>100 DEF BeginGlobalTransactionFails, LeaveFrame, FramePCs
<1>24. CASE CommitGlobalTransaction(r)
  <2>1. ServerTypeOK'
    BY <1>1, <1>2, <1>24, ServerTypes, MaxVersionAssumption DEF CommitGlobalTransaction, Versions
  <2> QED
    BY <1>100, <1>24, <2>1 DEF CommitGlobalTransaction, LeaveFrame, FramePCs
<1>25. CASE CommitGlobalTransactionFails(r)
  <2>1. ServerTypeOK'
    BY <1>1, <1>2, <1>25, ServerTypes, MaxVersionAssumption DEF CommitGlobalTransactionFails, Versions
  <2> QED
    BY <1>100, <1>25, <2>1 DEF CommitGlobalTransactionFails, LeaveFrame, FramePCs
<1>26. CASE RollbackGlobalTransaction(r)
  <2>1. ServerTypeOK'
    BY <1>1, <1>2, <1>26, ServerTypes, MaxVersionAssumption DEF RollbackGlobalTransaction, Versions
  <2> QED
    BY <1>100, <1>26, <2>1 DEF RollbackGlobalTransaction, LeaveFrame, FramePCs
<1> QED
  BY <1>4, <1>5, <1>6, <1>7, <1>8, <1>9, <1>10, <1>11, <1>12, <1>13, <1>14, <1>15, <1>16, <1>17, <1>18, <1>19, <1>20, <1>21, <1>22, <1>23, <1>24, <1>25, <1>26
  DEF RequestStep, TryExecuteServiceMethod, ServiceFunction, DataStoreOperation, GlobalTransaction

----------------------------------------------------------------------------
(* Connections and transactions                                            *)

(* What the database may be asked on a connection.                         *)
ServerAction(c) ==
  \/ UNCHANGED serverVars
  \/ Begin(c) \/ Commit(c) \/ Rollback(c) \/ StatementError(c)
  \/ \E row \in Rows : LockRow(c, row)
  \/ \E row \in Rows, v \in Versions : WriteRow(c, row, v)

(* What a call asks of the database in a step: nothing, or one statement   *)
(* on the connection it holds.                                             *)
LEMMA ServerStep ==
  ASSUME CallInv, NEW r \in Requests, RequestStep(r)
  PROVE  \/ UNCHANGED serverVars
         \/ /\ conn[r] \in Conns /\ pc[r] \notin {"arrived", "done"}
            /\ ServerAction(conn[r])
<1>1. conn[r] \in Conns \/ pc[r] \in {"arrived", "done"}
  BY DEF CallInv, CallsHoldConnections
<1>2. op[r].row \in Rows /\ TypeOK
  BY DEF CallInv, TypeOK, Operations
<1>3. CASE TryExecuteServiceMethod(r) \/ ServiceFunction(r)
  BY <1>3 DEF TryExecuteServiceMethod, ServiceFunction, ReserveConnection,
    ReserveConnectionFails, ResolveUserAccount, ResolveUserAccountFails, Thrown,
    ThrowFromFunction, ReturnFromFunction, StartOperation, ExecuteInsideTransaction,
    CallRemoteService, ReturnFromExecutable
<1>4. CASE WriteEntity(r)
  BY <1>1, <1>2, <1>4, NewVersionType DEF WriteEntity, ServerAction
<1>5. CASE DataStoreOperation(r) /\ ~WriteEntity(r)
  BY <1>1, <1>2, <1>5 DEF DataStoreOperation, BeginLocalTransaction, BeginLocalTransactionFails,
    SelectEntity, StatementFails, CommitLocalTransaction, CommitLocalTransactionFails,
    RollbackLocalTransaction, CommitError, ServerAction
<1>6. CASE GlobalTransaction(r)
  BY <1>1, <1>6 DEF GlobalTransaction, BeginGlobalTransaction, BeginGlobalTransactionFails,
    CommitGlobalTransaction, CommitGlobalTransactionFails, RollbackGlobalTransaction,
    CommitError, ServerAction
<1> QED
  BY <1>3, <1>4, <1>5, <1>6 DEF RequestStep, DataStoreOperation

(* A statement touches no other connection's transaction, and locks and    *)
(* pending writes keep belonging to open transactions.                     *)
LEMMA ServerKeepsLocks ==
  ASSUME ServerTypeOK, NEW c \in Conns, ServerAction(c),
         \A row \in Rows : lock[row] # NoConn => tx[lock[row]] # "none",
         \A d \in Conns, row \in Rows : pend[d][row] # NoWrite => lock[row] = d
  PROVE  /\ \A d \in Conns \ {c} : tx'[d] = tx[d]
         /\ (\A row \in Rows : lock[row] # NoConn => tx[lock[row]] # "none")'
         /\ (\A d \in Conns, row \in Rows : pend[d][row] # NoWrite => lock[row] = d)'
<1> USE NoConnAssumption DEF ServerTypeOK, TxStates
<1>1. CASE UNCHANGED serverVars
  BY <1>1 DEF serverVars
<1>2. CASE Begin(c)
  BY <1>2 DEF Begin
<1>3. CASE Commit(c) \/ Rollback(c)
  BY <1>3 DEF Commit, Rollback, EndTransaction
<1>4. CASE StatementError(c)
  BY <1>4 DEF StatementError
<1>5. ASSUME NEW row \in Rows, LockRow(c, row)
      PROVE  /\ \A d \in Conns \ {c} : tx'[d] = tx[d]
             /\ (\A q \in Rows : lock[q] # NoConn => tx[lock[q]] # "none")'
             /\ (\A d \in Conns, q \in Rows : pend[d][q] # NoWrite => lock[q] = d)'
  BY <1>5 DEF LockRow, LockAvailable
<1>6. ASSUME NEW row \in Rows, NEW v \in Versions, WriteRow(c, row, v)
      PROVE  /\ \A d \in Conns \ {c} : tx'[d] = tx[d]
             /\ (\A q \in Rows : lock[q] # NoConn => tx[lock[q]] # "none")'
             /\ (\A d \in Conns, q \in Rows : pend[d][q] # NoWrite => lock[q] = d)'
  <2>1. CASE tx[c] = "active"
    <3>1. /\ \A q \in Rows \ {row} : lock'[q] = lock[q]
          /\ lock'[row] = c /\ tx' = tx
      BY <1>6, <2>1 DEF WriteRow
    <3>2. \A d \in Conns, q \in Rows : ~(d = c /\ q = row) => pend'[d][q] = pend[d][q]
      BY <1>6, <2>1 DEF WriteRow
    <3>3. lock[row] \in {NoConn, c}
      BY <1>6 DEF WriteRow, LockAvailable
    <3> QED
      BY <2>1, <3>1, <3>2, <3>3
  <2>2. CASE tx[c] # "active"
    BY <1>6, <2>2 DEF WriteRow
  <2> QED
    BY <2>1, <2>2
<1> QED
  BY <1>1, <1>2, <1>3, <1>4, <1>5, <1>6 DEF ServerAction

(* A step of a call leaves the other calls as they are.                    *)
LEMMA OthersUnchanged ==
  ASSUME CallInv, NEW r \in Requests, RequestStep(r), NEW s \in Requests \ {r}
  PROVE  /\ pc'[s] = pc[s] /\ conn'[s] = conn[s] /\ depth'[s] = depth[s] /\ op'[s] = op[s]
         /\ failed'[s] = failed[s] /\ frameWrites'[s] = frameWrites[s]
         /\ localTransaction'[s] = localTransaction[s]
         /\ globalTransaction'[s] = globalTransaction[s]
<1> USE DEF CallInv, TypeOK, clsVars, callVars, ghostVars
<1>1. CASE TryExecuteServiceMethod(r)
  BY <1>1 DEF TryExecuteServiceMethod, ReserveConnection, ReserveConnectionFails,
    ResolveUserAccount, ResolveUserAccountFails, Thrown, ThrowFromFunction, ReturnFromFunction
<1>2. CASE ServiceFunction(r)
  BY <1>2 DEF ServiceFunction, StartOperation, ExecuteInsideTransaction, CallRemoteService,
    ReturnFromExecutable
<1>3. CASE DataStoreOperation(r)
  BY <1>3 DEF DataStoreOperation, BeginLocalTransaction, BeginLocalTransactionFails, SelectEntity,
    WriteEntity, StatementFails, CommitLocalTransaction, CommitLocalTransactionFails,
    RollbackLocalTransaction, OpSucceeds, OpFails, NoteStatement
<1>4. CASE GlobalTransaction(r)
  BY <1>4 DEF GlobalTransaction, BeginGlobalTransaction, BeginGlobalTransactionFails,
    CommitGlobalTransaction, CommitGlobalTransactionFails, RollbackGlobalTransaction, LeaveFrame
<1> QED
  BY <1>1, <1>2, <1>3, <1>4 DEF RequestStep

(* A step of a call takes a connection from the pool, gives one back whose *)
(* transaction has ended, or changes nothing about who has what.           *)
LEMMA PoolStep ==
  ASSUME CallInv, NEW r \in Requests, RequestStep(r)
  PROVE  \/ /\ UNCHANGED <<serverVars, depth>> /\ pc'[r] \in {"resolving", "running"}
            /\ \E c \in pool : pool' = pool \ {c} /\ conn' = [conn EXCEPT ![r] = c]
         \/ /\ UNCHANGED serverVars /\ pc'[r] = "done" /\ tx[conn[r]] = "none"
            /\ conn[r] \in Conns
            /\ pool' = pool \union {conn[r]} /\ conn' = [conn EXCEPT ![r] = NoConn]
         \/ /\ UNCHANGED <<pool, conn>>
            /\ pc'[r] # "done" => pc[r] \notin {"arrived", "done"}
<1> USE DEF CallInv, TypeOK, clsVars, callVars, ghostVars
<1>1. CASE ReserveConnection(r)
  BY <1>1 DEF ReserveConnection
<1>2. CASE \E error \in BOOLEAN : ReturnFromFunction(r, error)
  BY <1>2 DEF ReturnFromFunction, NoTransactionBetweenOperations, BetweenOperations, CallsHoldConnections
<1>3. CASE ReserveConnectionFails(r) \/ ResolveUserAccount(r) \/ ResolveUserAccountFails(r)
           \/ ThrowFromFunction(r)
  BY <1>3 DEF ReserveConnectionFails, ResolveUserAccount, ResolveUserAccountFails, Thrown,
    ThrowFromFunction
<1>4. CASE ServiceFunction(r)
  BY <1>4 DEF ServiceFunction, StartOperation, ExecuteInsideTransaction, CallRemoteService,
    ReturnFromExecutable, GoesOn
<1>5. CASE DataStoreOperation(r)
  BY <1>5 DEF DataStoreOperation, BeginLocalTransaction, BeginLocalTransactionFails, SelectEntity,
    WriteEntity, StatementFails, CommitLocalTransaction, CommitLocalTransactionFails,
    RollbackLocalTransaction
<1>6. CASE GlobalTransaction(r)
  BY <1>6 DEF GlobalTransaction, BeginGlobalTransaction, BeginGlobalTransactionFails,
    CommitGlobalTransaction, CommitGlobalTransactionFails, RollbackGlobalTransaction, LeaveFrame
<1> QED
  BY <1>1, <1>2, <1>3, <1>4, <1>5, <1>6 DEF RequestStep, TryExecuteServiceMethod

(* A step of a call leaves every connection with one owner at most and the *)
(* free connections without a transaction.                                 *)
LEMMA OwnershipStep ==
  ASSUME CallInv, NEW r \in Requests, RequestStep(r)
  PROVE  ConnectionOwnership' /\ (\A c \in pool' : tx'[c] = "none")
<1> USE NoConnAssumption
    DEF CallInv, TypeOK, ConnectionOwnership, LocksBelongToTransactions, ServerTypeOK
<1>1. CASE /\ UNCHANGED serverVars
           /\ \E c \in pool : pool' = pool \ {c} /\ conn' = [conn EXCEPT ![r] = c]
  BY <1>1 DEF serverVars
<1>2. CASE /\ UNCHANGED serverVars /\ tx[conn[r]] = "none" /\ conn[r] \in Conns
           /\ pool' = pool \union {conn[r]} /\ conn' = [conn EXCEPT ![r] = NoConn]
  BY <1>2 DEF serverVars
<1>3. CASE UNCHANGED <<pool, conn>>
  <2>1. ConnectionOwnership'
    BY <1>3
  <2>2. \A c \in pool : tx'[c] = tx[c]
    <3>1. CASE UNCHANGED serverVars
      BY <3>1 DEF serverVars
    <3>2. CASE conn[r] \in Conns /\ ServerAction(conn[r])
      BY <3>2, ServerKeepsLocks
    <3> QED
      BY <3>1, <3>2, ServerStep
  <2> QED
    BY <1>3, <2>1, <2>2
<1> QED
  BY <1>1, <1>2, <1>3, PoolStep

(* A step of a call leaves locks and pending writes with the transactions  *)
(* they belong to, and the free connections without one.                   *)
LEMMA LocksStep ==
  ASSUME CallInv, NEW r \in Requests, RequestStep(r)
  PROVE  LocksBelongToTransactions'
<1>1. \A c \in pool' : tx'[c] = "none"
  BY OwnershipStep
<1>2. CASE UNCHANGED serverVars
  BY <1>1, <1>2 DEF CallInv, LocksBelongToTransactions, serverVars
<1>3. CASE conn[r] \in Conns /\ ServerAction(conn[r])
  BY <1>1, <1>3, ServerKeepsLocks DEF CallInv, TypeOK, LocksBelongToTransactions
<1> QED
  BY <1>2, <1>3, ServerStep

(* A step of a call keeps BetweenOperations of that call.                  *)
LEMMA BetweenOperationsStep ==
  ASSUME CallInv, NEW r \in Requests, RequestStep(r)
  PROVE  BetweenOperations(r)' /\ (pc'[r] \in FramePCs => depth'[r] > 0)
<1> USE NoConnAssumption
    DEF BetweenOperations, CallInv, TypeOK, ServerTypeOK, clsVars, callVars, ghostVars,
        serverVars, FramePCs
<1>1. BetweenOperations(r) /\ (pc[r] \in FramePCs => depth[r] > 0)
  BY DEF NoTransactionBetweenOperations, BetweenOperations, CallsHoldConnections
<1>2. conn[r] \in Conns \/ pc[r] \in {"arrived", "done"}
  BY DEF CallsHoldConnections
<1>3. op[r] \in Operations
  OBVIOUS
<1>4. CASE ReserveConnection(r)
  BY <1>1, <1>4 DEF ReserveConnection, LocksBelongToTransactions
<1>5. CASE TryExecuteServiceMethod(r) /\ ~ReserveConnection(r)
  BY <1>1, <1>5 DEF TryExecuteServiceMethod, ReserveConnectionFails, ResolveUserAccount,
    ResolveUserAccountFails, Thrown, ThrowFromFunction, ReturnFromFunction
<1>6. CASE ServiceFunction(r)
  <2>1. ASSUME NEW kind \in OpKinds, NEW row \in Rows, NEW expect \in Expected,
               StartOperation(r, kind, row, expect)
        PROVE  BetweenOperations(r)' /\ (pc'[r] \in FramePCs => depth'[r] > 0)
    BY <1>1, <2>1 DEF StartOperation, GoesOn, FirstStatement
  <2>2. CASE ExecuteInsideTransaction(r)
    <3>1. /\ depth[r] \in Nat /\ depth'[r] = depth[r] + 1
          /\ pc[r] = "running" /\ pc'[r] = "frameBegin"
          /\ UNCHANGED <<op, conn, tx>>
      BY <2>2 DEF ExecuteInsideTransaction, GoesOn
    <3>2. depth'[r] > 0 /\ (depth'[r] = 1 => depth[r] = 0)
      BY <3>1
    <3>3. op'[r] = op[r] /\ tx'[conn'[r]] = tx[conn[r]]
      BY <3>1
    <3> QED
      BY <1>1, <3>1, <3>2, <3>3
  <2>3. ASSUME NEW error \in BOOLEAN, CallRemoteService(r, error) \/ ReturnFromExecutable(r, error)
        PROVE  BetweenOperations(r)' /\ (pc'[r] \in FramePCs => depth'[r] > 0)
    BY <1>1, <2>3 DEF CallRemoteService, ReturnFromExecutable, GoesOn
  <2> QED
    BY <1>6, <2>1, <2>2, <2>3 DEF ServiceFunction
<1>7. CASE BeginLocalTransaction(r)
  BY <1>1, <1>3, <1>7 DEF BeginLocalTransaction, FirstStatement, Operations
<1>8. CASE BeginLocalTransactionFails(r)
  BY <1>1, <1>8 DEF BeginLocalTransactionFails, OpFails, NoOperation
<1>9. CASE SelectEntity(r)
  <2>1. UNCHANGED <<tx, depth, conn>>
    BY <1>9 DEF SelectEntity, LockRow
  <2>2. \/ pc'[r] = "running" /\ op'[r] = NoOperation /\ ~op[r].started
        \/ pc'[r] = "opRollback" /\ op'[r] = op[r]
        \/ pc'[r] = "write" /\ op'[r].started = op[r].started /\ op'[r].kind = op[r].kind
    BY <1>1, <1>3, <1>9 DEF SelectEntity, OpSucceeds, OpFails, Operations
  <2> QED
    BY <1>1, <1>9, <2>1, <2>2 DEF SelectEntity, NoOperation
<1>10. CASE WriteEntity(r)
  <2>1. UNCHANGED <<tx, depth, conn>>
    BY <1>10 DEF WriteEntity, WriteRow
  <2>2. \/ pc'[r] = "running" /\ op'[r] = NoOperation /\ ~op[r].started
        \/ pc'[r] = "opCommit" /\ op'[r] = op[r]
    BY <1>10 DEF WriteEntity, OpSucceeds
  <2> QED
    BY <1>1, <1>10, <2>1, <2>2 DEF WriteEntity, NoOperation
<1>11. CASE StatementFails(r)
  <2>1. UNCHANGED <<depth, conn>> /\ (tx[conn[r]] = "none" => tx'[conn[r]] = "none")
    BY <1>2, <1>11 DEF StatementFails, StatementError
  <2>2. \/ pc'[r] = "running" /\ op'[r] = NoOperation /\ ~op[r].started
        \/ pc'[r] = "opRollback" /\ op'[r] = op[r]
    BY <1>11 DEF StatementFails, OpFails
  <2> QED
    BY <1>1, <1>11, <2>1, <2>2 DEF StatementFails, NoOperation
<1>12. CASE CommitLocalTransaction(r) \/ CommitLocalTransactionFails(r) \/ RollbackLocalTransaction(r)
  <2>1. UNCHANGED <<depth, conn>> /\ tx'[conn[r]] = "none"
    BY <1>2, <1>12 DEF CommitLocalTransaction, CommitLocalTransactionFails, RollbackLocalTransaction,
      CommitError, Commit, Rollback, EndTransaction
  <2>2. \/ pc'[r] = "running" /\ op'[r] = NoOperation
        \/ pc'[r] = "opRollback" /\ op'[r] = op[r]
    BY <1>12 DEF CommitLocalTransaction, CommitLocalTransactionFails, RollbackLocalTransaction,
      OpSucceeds, OpFails
  <2> QED
    BY <1>1, <2>1, <2>2 DEF NoOperation
<1>13. CASE BeginGlobalTransaction(r)
  BY <1>1, <1>13 DEF BeginGlobalTransaction
<1>14. CASE BeginGlobalTransactionFails(r)
  BY <1>1, <1>14 DEF BeginGlobalTransactionFails, LeaveFrame
<1>15. CASE CommitGlobalTransaction(r) \/ CommitGlobalTransactionFails(r) \/ RollbackGlobalTransaction(r)
  <2>1. UNCHANGED <<op, conn>> /\ tx'[conn[r]] = "none" /\ pc'[r] = "running"
    BY <1>2, <1>15 DEF CommitGlobalTransaction, CommitGlobalTransactionFails,
      RollbackGlobalTransaction, CommitError, Commit, Rollback, EndTransaction, LeaveFrame
  <2> QED
    BY <1>1, <2>1
<1> QED
  BY <1>4, <1>5, <1>6, <1>7, <1>8, <1>9, <1>10, <1>11, <1>12, <1>13, <1>14, <1>15
  DEF RequestStep, DataStoreOperation, GlobalTransaction

(* A step of a call keeps BetweenOperations of every call.                 *)
LEMMA BetweenOperationsInv ==
  ASSUME CallInv, NEW r \in Requests, RequestStep(r)
  PROVE  CallsHoldConnections' /\ NoTransactionBetweenOperations'
<1>1. BetweenOperations(r)' /\ (pc'[r] \in FramePCs => depth'[r] > 0)
     /\ (pc'[r] \notin {"arrived", "done"} => conn'[r] \in Conns)
  BY PoolStep, BetweenOperationsStep DEF CallInv, TypeOK, CallsHoldConnections
<1>2. ASSUME NEW s \in Requests \ {r}
      PROVE  BetweenOperations(s)' /\ (pc'[s] \in FramePCs => depth'[s] > 0)
             /\ (pc'[s] \notin {"arrived", "done"} => conn'[s] \in Conns)
  <2>1. BetweenOperations(s) /\ (pc[s] \in FramePCs => depth[s] > 0)
         /\ (pc[s] \notin {"arrived", "done"} => conn[s] \in Conns)
    BY DEF CallInv, BetweenOperations, CallsHoldConnections, NoTransactionBetweenOperations
  <2>2. conn[s] \in Conns => tx'[conn[s]] = tx[conn[s]]
    <3>1. CASE UNCHANGED serverVars
      BY <3>1 DEF serverVars
    <3>2. CASE conn[r] \in Conns /\ ServerAction(conn[r])
      BY <3>2, ServerKeepsLocks, NoConnAssumption
      DEF CallInv, TypeOK, LocksBelongToTransactions, ConnectionOwnership
    <3> QED
      BY <3>1, <3>2, ServerStep
  <2> QED
    BY <2>1, <2>2, OthersUnchanged DEF BetweenOperations, FramePCs
<1> QED
  BY <1>1, <1>2 DEF BetweenOperations, CallsHoldConnections, NoTransactionBetweenOperations

----------------------------------------------------------------------------
(* What holds of every service function, careful or not                    *)

(* Initially all connections are free and nothing is in a transaction.     *)
LEMMA CallInvInit == Init => CallInv
<1> SUFFICES ASSUME Init PROVE CallInv
  OBVIOUS
<1> USE NoOperationType, NoConnAssumption, MaxVersionAssumption, ConstantsAssumption
    DEF Init, ServerInit
<1>1. TypeOK
  BY DEF TypeOK, ServerTypeOK, PCs, TxStates, Versions
<1>2. CallsHoldConnections
  BY DEF CallsHoldConnections, FramePCs
<1>3. ConnectionOwnership
  BY DEF ConnectionOwnership
<1>4. LocksBelongToTransactions
  BY DEF LocksBelongToTransactions
<1>5. NoTransactionBetweenOperations
  BY DEF NoTransactionBetweenOperations, BetweenOperations, NoOperation
<1> QED
  BY <1>1, <1>2, <1>3, <1>4, <1>5 DEF CallInv

(* Every step keeps CallInv.                                               *)
LEMMA CallInvStep == CallInv /\ [Next]_vars => CallInv'
<1> SUFFICES ASSUME CallInv, [Next]_vars PROVE CallInv'
  OBVIOUS
<1>1. ASSUME NEW r \in Requests, RequestStep(r) PROVE CallInv'
  BY <1>1, TypeStep, OwnershipStep, LocksStep, BetweenOperationsInv DEF CallInv
<1>2. CASE UNCHANGED vars
  BY <1>2 DEF CallInv, vars, TypeOK, ServerTypeOK, serverVars, clsVars, callVars, ghostVars,
    CallsHoldConnections, ConnectionOwnership, LocksBelongToTransactions,
    NoTransactionBetweenOperations, BetweenOperations
<1> QED
  BY <1>1, <1>2 DEF Next, Idle

(* CallInv is an invariant of every service function, careful or not.      *)
THEOREM CallInvariant == Spec => []CallInv
  BY CallInvInit, CallInvStep, PTL DEF Spec

(* The variables keep the types declared for them.                         *)
THEOREM TypeCorrect == Spec => []TypeOK
  BY CallInvariant, PTL DEF CallInv

(* tryReserveDbConnectionFromPool never hands a connection to two calls,   *)
(* nor one that is still in the pool.                                      *)
THEOREM ConnectionOwnershipHolds == Spec => []ConnectionOwnership
  BY CallInvariant, PTL DEF CallInv

(* A connection that tryExecuteServiceMethod gives back has no transaction *)
(* and no lock, even after nested executeInsideTransaction calls, errors   *)
(* that the function ignored, and exceptions.                              *)
THEOREM PooledConnectionsCleanHolds == Spec => []PooledConnectionsClean
<1>1. CallInv => PooledConnectionsClean
  BY NoConnAssumption
  DEF CallInv, TypeOK, LocksBelongToTransactions, PooledConnectionsClean
<1> QED
  BY <1>1, CallInvariant, PTL

----------------------------------------------------------------------------
(* What holds of careful service functions                                 *)

(* A step of a careful call keeps what the flags tell.                     *)
LEMMA FlagsStep ==
  ASSUME Careful, CallInv, NEW r \in Requests, RequestStep(r), Flags(r)
  PROVE  Flags(r)'
<1>3. depth[r] = 0 \/ depth[r] = 1
  BY DEF CallInv, TypeOK, Flags
<1> USE DEF Careful, Flags, InTransaction, CallInv, TypeOK, ServerTypeOK, clsVars, callVars,
            ghostVars, serverVars, FramePCs
<1>1. conn[r] \in Conns \/ pc[r] \in {"arrived", "done"}
  BY DEF CallsHoldConnections
<1>2. pc[r] \in FramePCs => depth[r] = 1
  BY DEF CallsHoldConnections
<1>4. op[r] \in Operations
  OBVIOUS
<1>5. CASE TryExecuteServiceMethod(r)
  BY <1>3, <1>5, ConstantsAssumption DEF TryExecuteServiceMethod, ReserveConnection,
    ReserveConnectionFails, ResolveUserAccount, ResolveUserAccountFails, Thrown,
    ThrowFromFunction, ReturnFromFunction
<1>6. CASE \E kind \in OpKinds, row \in Rows, expect \in Expected :
             StartOperation(r, kind, row, expect)
  BY <1>3, <1>6, ConstantsAssumption DEF StartOperation, GoesOn, FirstStatement
<1>7. CASE ExecuteInsideTransaction(r)
  BY <1>1, <1>3, <1>7, ConstantsAssumption DEF ExecuteInsideTransaction, GoesOn
<1>8. CASE \E error \in BOOLEAN : CallRemoteService(r, error) \/ ReturnFromExecutable(r, error)
  BY <1>3, <1>8 DEF CallRemoteService, ReturnFromExecutable, GoesOn
<1>9. CASE BeginLocalTransaction(r)
  BY <1>1, <1>3, <1>4, <1>9 DEF BeginLocalTransaction, Begin, FirstStatement, Operations
<1>10. CASE BeginLocalTransactionFails(r)
  BY <1>3, <1>10 DEF BeginLocalTransactionFails, OpFails, NoOperation
<1>11. CASE SelectEntity(r)
  <2>1. UNCHANGED <<tx, depth, conn, localTransaction, globalTransaction>>
    BY <1>11 DEF SelectEntity, LockRow, NoteStatement
  <2>2. \/ /\ pc'[r] = "running" /\ op'[r] = NoOperation /\ ~op[r].started
           /\ failed'[r] \/ op[r].kind = "read"
        \/ pc'[r] = "opRollback" /\ op'[r] = op[r] /\ op[r].started
        \/ /\ pc'[r] = "write" /\ op'[r].started = op[r].started /\ op'[r].kind = op[r].kind
           /\ failed'[r] = failed[r] /\ op[r].kind # "read"
    BY <1>4, <1>11 DEF SelectEntity, OpSucceeds, OpFails, Operations, NoTransactionBetweenOperations, BetweenOperations
  <2> QED
    BY <1>3, <1>11, <2>1, <2>2 DEF SelectEntity, NoOperation
<1>12. CASE WriteEntity(r)
  <2>1. UNCHANGED <<tx, depth, conn, localTransaction, globalTransaction>>
    BY <1>12 DEF WriteEntity, WriteRow, NoteStatement
  <2>2. \/ pc'[r] = "running" /\ op'[r] = NoOperation /\ ~op[r].started
        \/ pc'[r] = "opCommit" /\ op'[r] = op[r] /\ failed'[r] = failed[r] /\ op[r].started
    BY <1>12 DEF WriteEntity, OpSucceeds
  <2> QED
    BY <1>3, <1>12, <2>1, <2>2 DEF WriteEntity, NoOperation
<1>13. CASE StatementFails(r)
  <2>1. UNCHANGED <<depth, conn, localTransaction, globalTransaction>>
    BY <1>13 DEF StatementFails, NoteStatement
  <2>2. \/ pc'[r] = "running" /\ op'[r] = NoOperation /\ ~op[r].started /\ failed'[r]
        \/ pc'[r] = "opRollback" /\ op'[r] = op[r] /\ op[r].started
    BY <1>13 DEF StatementFails, OpFails
  <2> QED
    BY <1>3, <1>13, <2>1, <2>2 DEF StatementFails, NoOperation
<1>14. CASE CommitLocalTransaction(r) \/ CommitLocalTransactionFails(r) \/ RollbackLocalTransaction(r)
  BY <1>3, <1>14 DEF CommitLocalTransaction, CommitLocalTransactionFails,
    RollbackLocalTransaction, OpSucceeds, OpFails, NoOperation
<1>15. CASE BeginGlobalTransaction(r)
  BY <1>1, <1>2, <1>15 DEF BeginGlobalTransaction, Begin
<1>16. CASE BeginGlobalTransactionFails(r) \/ CommitGlobalTransactionFails(r)
  BY <1>2, <1>16 DEF BeginGlobalTransactionFails, CommitGlobalTransactionFails, LeaveFrame
<1>17. CASE CommitGlobalTransaction(r) \/ RollbackGlobalTransaction(r)
  BY <1>2, <1>17 DEF CommitGlobalTransaction, RollbackGlobalTransaction, LeaveFrame
<1> QED
  BY <1>5, <1>6, <1>7, <1>8, <1>9, <1>10, <1>11, <1>12, <1>13, <1>14, <1>15, <1>16, <1>17
  DEF RequestStep, ServiceFunction, DataStoreOperation, GlobalTransaction

(* What a transaction has locked, no other connection changes.             *)
LEMMA ServerRespectsLocks ==
  ASSUME ServerTypeOK, NEW c \in Conns, ServerAction(c),
         \A e \in Conns, q \in Rows : pend[e][q] # NoWrite => lock[q] = e,
         NEW d \in Conns \ {c}, NEW row \in Rows, lock[row] = d
  PROVE  lock'[row] = d /\ pend'[d][row] = pend[d][row] /\ db'[row] = db[row]
<1> USE NoConnAssumption DEF ServerTypeOK, LockAvailable
<1>1. CASE UNCHANGED serverVars
  BY <1>1 DEF serverVars
<1>2. CASE Begin(c) \/ StatementError(c)
  BY <1>2 DEF Begin, StatementError
<1>3. CASE Commit(c) \/ Rollback(c)
  BY <1>3 DEF Commit, Rollback, EndTransaction, Visible
<1>4. ASSUME NEW q \in Rows, LockRow(c, q)
      PROVE  lock'[row] = d /\ pend'[d][row] = pend[d][row] /\ db'[row] = db[row]
  BY <1>4 DEF LockRow
<1>5. ASSUME NEW q \in Rows, NEW v \in Versions, WriteRow(c, q, v)
      PROVE  lock'[row] = d /\ pend'[d][row] = pend[d][row] /\ db'[row] = db[row]
  BY <1>5 DEF WriteRow
<1> QED
  BY <1>1, <1>2, <1>3, <1>4, <1>5 DEF ServerAction

(* The entity that an update or checked delete has read is locked for it   *)
(* until the write.                                                        *)
LEMMA EntityReadIsLockedStep ==
  ASSUME CallInv, NEW r \in Requests, RequestStep(r), Flags(r)
  PROVE  EntityReadIsLocked(r)'
<1>0. depth[r] = 0 \/ depth[r] = 1
  BY DEF Flags, CallInv, TypeOK
<1> USE DEF EntityReadIsLocked, CallInv, TypeOK, ServerTypeOK
<1>1. op[r] \in Operations /\ op[r].row \in Rows
  BY DEF Operations
<1>2. CASE SelectEntity(r)
  <2> SUFFICES ASSUME pc'[r] = "write" PROVE EntityReadIsLocked(r)'
    OBVIOUS
  <2>1. conn[r] \in Conns /\ tx[conn[r]] = "active"
    <3>1. op[r].kind # "read" /\ pc[r] = "select"
      BY <1>2 DEF SelectEntity, OpSucceeds, OpFails
    <3>2. depth[r] = 0 \/ depth[r] = 1
      BY <1>0
    <3>3. CASE depth[r] = 0
      BY <3>1, <3>3 DEF Flags, CallsHoldConnections
    <3>4. CASE depth[r] = 1
      BY <3>1, <3>4 DEF Flags, FramePCs
    <3> QED
      BY <3>2, <3>3, <3>4
  <2>2. LockRow(conn[r], op[r].row)
    BY <1>2 DEF SelectEntity, ForUpdate, OpSucceeds, OpFails
  <2>3. /\ op'[r].row = op[r].row /\ op'[r].seen = Visible(conn[r], op[r].row)
        /\ UNCHANGED conn
    BY <1>1, <1>2 DEF SelectEntity, OpSucceeds, OpFails, callVars, Operations
  <2> QED
    BY <1>1, <2>1, <2>2, <2>3 DEF LockRow, Visible
<1>3. CASE DataStoreOperation(r) /\ ~SelectEntity(r)
  BY <1>1, <1>3 DEF DataStoreOperation, BeginLocalTransaction, BeginLocalTransactionFails,
    WriteEntity, StatementFails, CommitLocalTransaction, CommitLocalTransactionFails,
    RollbackLocalTransaction, OpSucceeds, OpFails, FirstStatement, Operations
<1>4. CASE TryExecuteServiceMethod(r)
  BY <1>4 DEF TryExecuteServiceMethod, ReserveConnection, ReserveConnectionFails,
    ResolveUserAccount, ResolveUserAccountFails, Thrown, ThrowFromFunction, ReturnFromFunction
<1>5. CASE ServiceFunction(r)
  BY <1>5 DEF ServiceFunction, StartOperation, ExecuteInsideTransaction, CallRemoteService,
    ReturnFromExecutable, GoesOn, FirstStatement
<1>6. CASE GlobalTransaction(r)
  BY <1>6 DEF GlobalTransaction, BeginGlobalTransaction, BeginGlobalTransactionFails,
    CommitGlobalTransaction, CommitGlobalTransactionFails, RollbackGlobalTransaction, LeaveFrame
<1> QED
  BY <1>2, <1>3, <1>4, <1>5, <1>6 DEF RequestStep

(* The frame of a careful call loses none of its writes while it is open.  *)
LEMMA FrameUncommittedStep ==
  ASSUME Careful, CallInv, NEW r \in Requests, RequestStep(r), Flags(r), FrameUncommitted(r),
         pc[r] = "frameBegin" => frameWrites[r] = {}
  PROVE  /\ FrameUncommitted(r)'
         /\ pc'[r] = "frameBegin" => frameWrites'[r] = {}
<1> USE DEF FrameUncommitted, CallInv, TypeOK, ServerTypeOK, serverVars, clsVars, callVars,
            ghostVars, FramePCs
<1>1. depth[r] = 0 \/ depth[r] = 1
  BY DEF Flags
<1>2. depth[r] = 1 => conn[r] \in Conns /\ (pc[r] # "done" => pc[r] \notin {"arrived", "resolving"})
  BY DEF Flags
<1>3. pc[r] \in FramePCs => depth[r] = 1
  BY <1>1 DEF CallsHoldConnections
<1>4. op[r] \in Operations /\ op[r].row \in Rows
  BY DEF Operations
<1>5. CASE TryExecuteServiceMethod(r)
  BY <1>1, <1>2, <1>5 DEF TryExecuteServiceMethod, ReserveConnection, ReserveConnectionFails,
    ResolveUserAccount, ResolveUserAccountFails, Thrown, ThrowFromFunction, ReturnFromFunction
<1>6. CASE \E kind \in OpKinds, row \in Rows, expect \in Expected :
             StartOperation(r, kind, row, expect)
  BY <1>6 DEF StartOperation, FirstStatement
<1>7. CASE ExecuteInsideTransaction(r)
  <2>1. depth[r] = 0
    BY <1>1, <1>7, ConstantsAssumption DEF ExecuteInsideTransaction, Careful
  <2>2. frameWrites'[r] = {}
    BY <1>7, <2>1 DEF ExecuteInsideTransaction
  <2> QED
    BY <2>2
<1>8. CASE \E error \in BOOLEAN : CallRemoteService(r, error) \/ ReturnFromExecutable(r, error)
  BY <1>8 DEF CallRemoteService, ReturnFromExecutable, GoesOn, Careful
<1>9. CASE BeginLocalTransaction(r) \/ BeginLocalTransactionFails(r)
  <2>1. depth[r] = 0 /\ depth'[r] = 0 /\ pc'[r] # "frameBegin"
    BY <1>1, <1>9 DEF BeginLocalTransaction, BeginLocalTransactionFails, OpFails, FirstStatement, Flags
  <2> QED
    BY <2>1
<1>10. CASE SelectEntity(r)
  <2>1. UNCHANGED <<depth, conn, frameWrites, pend>> /\ pc'[r] # "frameBegin"
    BY <1>10 DEF SelectEntity, LockRow, OpSucceeds, OpFails
  <2>2. \A row \in Rows : lock[row] = conn[r] => lock'[row] = conn[r]
    BY <1>10 DEF SelectEntity, LockRow
  <2>3. ~failed[r]
    BY <1>10 DEF SelectEntity, Flags
  <2> QED
    BY <2>1, <2>2, <2>3
<1>11. CASE WriteEntity(r)
  <2>1. UNCHANGED <<depth, conn>> /\ pc'[r] # "frameBegin" /\ ~failed[r]
    BY <1>11 DEF WriteEntity, OpSucceeds, Flags
  <2>2. NewVersion(r) \in Versions
    BY <1>11, NewVersionType DEF WriteEntity
  <2>3. SUFFICES ASSUME depth[r] = 1 PROVE FrameUncommitted(r)'
    BY <1>1, <2>1
  <2>4. tx[conn[r]] = "active"
    BY <1>11, <2>1, <2>3 DEF WriteEntity, Flags
  <2>5. CASE WriteRow(conn[r], op[r].row, NewVersion(r))
             /\ frameWrites' = [frameWrites EXCEPT ![r] = @ \union {op[r].row}]
    <3>1. lock' = [lock EXCEPT ![op[r].row] = conn[r]]
      BY <2>4, <2>5 DEF WriteRow
    <3>2. pend' = [pend EXCEPT ![conn[r]][op[r].row] = NewVersion(r)]
      BY <2>4, <2>5 DEF WriteRow
    <3>3. NewVersion(r) # NoWrite
      BY <2>2, MaxVersionAssumption DEF Versions, NoWrite
    <3>4. \A row \in Rows : pend'[conn[r]][row] =
             IF row = op[r].row THEN NewVersion(r) ELSE pend[conn[r]][row]
      BY <1>2, <2>3, <3>2
    <3> QED
      BY <1>4, <2>1, <2>3, <2>5, <3>1, <3>3, <3>4
  <2>6. CASE UNCHANGED <<serverVars, frameWrites>>
    BY <2>1, <2>3, <2>6
  <2> QED
    BY <1>11, <2>5, <2>6 DEF WriteEntity
<1>12. CASE StatementFails(r)
  <2>1. UNCHANGED <<depth, conn, frameWrites, pend, lock>> /\ pc'[r] # "frameBegin" /\ ~failed[r]
    BY <1>12 DEF StatementFails, StatementError, OpFails, Flags
  <2> QED
    BY <2>1
<1>13. CASE CommitLocalTransaction(r) \/ CommitLocalTransactionFails(r) \/ RollbackLocalTransaction(r)
  <2>1. depth[r] = 0 /\ depth'[r] = 0 /\ pc'[r] # "frameBegin"
    BY <1>1, <1>13 DEF CommitLocalTransaction, CommitLocalTransactionFails,
      RollbackLocalTransaction, OpSucceeds, OpFails, Flags
  <2> QED
    BY <2>1
<1>14. CASE BeginGlobalTransaction(r)
  BY <1>14 DEF BeginGlobalTransaction
<1>15. CASE BeginGlobalTransactionFails(r) \/ CommitGlobalTransaction(r)
            \/ CommitGlobalTransactionFails(r) \/ RollbackGlobalTransaction(r)
  <2>1. depth'[r] = 0 /\ pc'[r] = "running"
    BY <1>3, <1>15 DEF BeginGlobalTransactionFails, CommitGlobalTransaction,
      CommitGlobalTransactionFails, RollbackGlobalTransaction, LeaveFrame
  <2> QED
    BY <2>1
<1> QED
  BY <1>5, <1>6, <1>7, <1>8, <1>9, <1>10, <1>11, <1>12, <1>13, <1>14, <1>15
  DEF RequestStep, ServiceFunction, DataStoreOperation, GlobalTransaction

(* A step of one call leaves what holds of another careful call.           *)
LEMMA CarefulOthers ==
  ASSUME CallInv, NEW r \in Requests, RequestStep(r), NEW s \in Requests \ {r},
         Flags(s), EntityReadIsLocked(s), pc[s] = "frameBegin" => frameWrites[s] = {},
         FrameUncommitted(s)
  PROVE  /\ Flags(s)' /\ EntityReadIsLocked(s)' /\ FrameUncommitted(s)'
         /\ pc'[s] = "frameBegin" => frameWrites'[s] = {}
<1>1. /\ pc'[s] = pc[s] /\ conn'[s] = conn[s] /\ depth'[s] = depth[s] /\ op'[s] = op[s]
      /\ failed'[s] = failed[s] /\ frameWrites'[s] = frameWrites[s]
      /\ localTransaction'[s] = localTransaction[s]
      /\ globalTransaction'[s] = globalTransaction[s]
  BY OthersUnchanged
<1>2. ServerTypeOK /\ op[s] \in Operations /\ op[s].row \in Rows /\ frameWrites[s] \subseteq Rows
      /\ depth[s] \in Nat
  BY DEF CallInv, TypeOK, Operations
<1>3. pc[s] \notin {"arrived", "done"} => conn[s] \in Conns
  BY DEF CallInv, CallsHoldConnections
<1>4. depth[s] > 0 => conn[s] \in Conns
  BY <1>2 DEF Flags
<1>5. conn[s] \in Conns => tx'[conn[s]] = tx[conn[s]]
  <2>1. CASE UNCHANGED serverVars
    BY <2>1 DEF serverVars
  <2>2. CASE conn[r] \in Conns /\ ServerAction(conn[r])
    BY <2>2, <1>2, ServerKeepsLocks, NoConnAssumption
    DEF CallInv, LocksBelongToTransactions, ConnectionOwnership
  <2> QED
    BY <2>1, <2>2, ServerStep
<1>6. ASSUME NEW row \in Rows, conn[s] \in Conns, lock[row] = conn[s]
      PROVE  lock'[row] = conn[s] /\ pend'[conn[s]][row] = pend[conn[s]][row] /\ db'[row] = db[row]
  <2>1. CASE UNCHANGED serverVars
    BY <1>6, <2>1 DEF serverVars
  <2>2. CASE conn[r] \in Conns /\ ServerAction(conn[r])
    <3>1. conn[s] \in Conns \ {conn[r]}
      BY <1>6, NoConnAssumption DEF CallInv, ConnectionOwnership
    <3> QED
      BY <1>2, <1>6, <2>2, <3>1, ServerRespectsLocks DEF CallInv, LocksBelongToTransactions
  <2> QED
    BY <2>1, <2>2, ServerStep
<1>7. Flags(s)'
  BY <1>1, <1>3, <1>4, <1>5 DEF Flags, InTransaction, FramePCs
<1>8. EntityReadIsLocked(s)'
  BY <1>1, <1>2, <1>3, <1>6 DEF EntityReadIsLocked, Visible
<1>9. FrameUncommitted(s)'
  BY <1>1, <1>2, <1>4, <1>6 DEF FrameUncommitted
<1> QED
  BY <1>1, <1>7, <1>8, <1>9

(* Initially nothing is in a transaction.                                  *)
LEMMA CarefulInvInit == Init => CarefulInv
  BY NoOperationType
  DEF Init, CarefulInv, Flags, EntityReadIsLocked, FrameUncommitted, InTransaction, FramePCs,
      NoOperation

(* Every step of careful calls keeps CarefulInv.                           *)
LEMMA CarefulInvStep ==
  ASSUME Careful, CallInv, CarefulInv, [Next]_vars
  PROVE  CarefulInv'
<1>1. ASSUME NEW r \in Requests, RequestStep(r) PROVE CarefulInv'
  <2>1. /\ Flags(r)' /\ EntityReadIsLocked(r)' /\ FrameUncommitted(r)'
        /\ pc'[r] = "frameBegin" => frameWrites'[r] = {}
    BY <1>1, FlagsStep, EntityReadIsLockedStep, FrameUncommittedStep DEF CarefulInv
  <2>2. ASSUME NEW s \in Requests \ {r}
        PROVE  /\ Flags(s)' /\ EntityReadIsLocked(s)' /\ FrameUncommitted(s)'
               /\ pc'[s] = "frameBegin" => frameWrites'[s] = {}
    BY <1>1, CarefulOthers DEF CarefulInv
  <2> QED
    BY <2>1, <2>2 DEF CarefulInv
<1>2. CASE UNCHANGED vars
  BY <1>2 DEF CarefulInv, Flags, EntityReadIsLocked, FrameUncommitted, InTransaction, Visible,
    vars, serverVars, clsVars, callVars, ghostVars
<1> QED
  BY <1>1, <1>2 DEF Next, Idle

(* CarefulInv is an invariant of careful service functions.                *)
THEOREM CarefulInvariant == ASSUME Careful PROVE Spec => []CarefulInv
<1>1. Init => CallInv /\ CarefulInv
  BY CallInvInit, CarefulInvInit
<1>2. (CallInv /\ CarefulInv) /\ [Next]_vars => (CallInv /\ CarefulInv)'
  BY CallInvStep, CarefulInvStep
<1> QED
  BY <1>1, <1>2, PTL DEF Spec

(* No INSERT, UPDATE or DELETE of a careful function runs outside a        *)
(* transaction.                                                            *)
THEOREM WriteInsideTransactionHolds == ASSUME Careful PROVE Spec => []WriteInsideTransaction
<1>1. CallInv /\ CarefulInv => WriteInsideTransaction
  <2> SUFFICES ASSUME CallInv, CarefulInv, NEW r \in Requests, pc[r] = "write"
               PROVE  tx[conn[r]] # "none"
    BY DEF WriteInsideTransaction
  <2>1. depth[r] \in Nat /\ Flags(r)
    BY DEF CallInv, TypeOK, CarefulInv
  <2>2. depth[r] = 0 \/ depth[r] = 1
    BY <2>1 DEF Flags
  <2> QED
    BY <2>1, <2>2 DEF Flags
<1> QED
  BY <1>1, CallInvariant, CarefulInvariant, PTL

(* No updateEntity of a careful function overwrites a version that it did  *)
(* not read.                                                               *)
THEOREM NoLostUpdateHolds == ASSUME Careful PROVE Spec => []NoLostUpdate
<1>1. CarefulInv => NoLostUpdate
  BY DEF CarefulInv, EntityReadIsLocked, NoLostUpdate
<1> QED
  BY <1>1, CarefulInvariant, PTL

(* What the executable of executeInsideTransaction wrote stays undoable    *)
(* until the executable has returned.                                      *)
THEOREM OpenFrameUncommittedHolds == ASSUME Careful PROVE Spec => []OpenFrameUncommitted
<1>1. CarefulInv => OpenFrameUncommitted
  BY DEF CarefulInv, FrameUncommitted, OpenFrameUncommitted
<1> QED
  BY <1>1, CarefulInvariant, PTL

(* Success of executeInsideTransaction of a careful function means that    *)
(* every change of its executable is committed.                            *)
THEOREM SuccessMeansCommittedHolds == ASSUME Careful PROVE Spec => SuccessMeansCommitted
<1> DEFINE Success(r) ==
      depth[r] = 1 /\ depth'[r] = 0 /\ ~failed'[r] =>
        \A row \in frameWrites[r] : db'[row] = pend[conn[r]][row]
<1>1. ASSUME CallInv, CarefulInv, [Next]_vars PROVE \A r \in Requests : Success(r)
  <2>1. SUFFICES ASSUME NEW r \in Requests, depth[r] = 1, depth'[r] = 0, ~failed'[r]
                 PROVE  \A row \in frameWrites[r] : db'[row] = pend[conn[r]][row]
    OBVIOUS
  <2>2. RequestStep(r)
    <3>1. ~UNCHANGED vars
      BY <2>1 DEF vars
    <3>2. \A s \in Requests \ {r} : ~RequestStep(s)
      BY <1>1, <2>1, OthersUnchanged
    <3> QED
      BY <1>1, <3>1, <3>2 DEF Next, Idle
  <2>3. CommitGlobalTransaction(r)
    <3>1. TypeOK
      BY <1>1 DEF CallInv
    <3>2. CASE TryExecuteServiceMethod(r)
      BY <2>1, <3>2 DEF TryExecuteServiceMethod, ReserveConnection, ReserveConnectionFails,
        ResolveUserAccount, ResolveUserAccountFails, Thrown, ThrowFromFunction, ReturnFromFunction
    <3>3. CASE ServiceFunction(r)
      BY <2>1, <3>1, <3>3 DEF ServiceFunction, StartOperation, ExecuteInsideTransaction,
        CallRemoteService, ReturnFromExecutable, TypeOK
    <3>4. CASE DataStoreOperation(r)
      BY <2>1, <3>4 DEF DataStoreOperation, BeginLocalTransaction, BeginLocalTransactionFails,
        SelectEntity, WriteEntity, StatementFails, CommitLocalTransaction,
        CommitLocalTransactionFails, RollbackLocalTransaction
    <3>5. CASE GlobalTransaction(r)
      BY <2>1, <3>1, <3>5 DEF GlobalTransaction, BeginGlobalTransaction,
        BeginGlobalTransactionFails, CommitGlobalTransactionFails, RollbackGlobalTransaction,
        LeaveFrame, TypeOK
    <3> QED
      BY <2>2, <3>2, <3>3, <3>4, <3>5 DEF RequestStep
  <2>4. pc[r] = "frameCommit" /\ Commit(conn[r])
    BY <2>3 DEF CommitGlobalTransaction
  <2>5. /\ tx[conn[r]] = "active" /\ frameWrites[r] \subseteq Rows
        /\ \A row \in frameWrites[r] : pend[conn[r]][row] # NoWrite
    BY <1>1, <2>1, <2>4 DEF CallInv, TypeOK, CarefulInv, Flags, FrameUncommitted
  <2> QED
    BY <2>4, <2>5 DEF Commit, Visible
<1>2. Spec => [][\A r \in Requests : Success(r)]_vars
  BY <1>1, CallInvariant, CarefulInvariant, PTL DEF Spec
<1> QED
  BY <1>2 DEF SuccessMeansCommitted
----------------------------------------------------------------------------
(* Units of work                                                           *)

(* Every local transaction of a call that changed data, and the one an     *)
(* operation of it is in, is counted; the count starts again only before   *)
(* the function runs, and a call answered "ok" was judged by its counts.   *)
Counted(r) ==
  /\ pc[r] \in {"arrived", "resolving"} => units[r] = 0 /\ ~op[r].started
  /\ pc[r] = "opCommit" => op[r].started
  /\ units[r] + (IF op[r].started THEN 1 ELSE 0) <= dbLocalTransactionCount[r]
  /\ response[r] = "ok" => pc[r] = "done" /\ ~Rejected(r)

TransactionsCounted == \A r \in Requests : Counted(r)

(* A step of a call leaves the counts, the operation and the answer of     *)
(* every other call alone.                                                 *)
LEMMA CountsOfOthers ==
  ASSUME TypeOK, NEW r \in Requests, RequestStep(r), NEW s \in Requests \ {r}
  PROVE  /\ pc'[s] = pc[s] /\ op'[s] = op[s] /\ units'[s] = units[s]
         /\ response'[s] = response[s]
         /\ dbLocalTransactionCount'[s] = dbLocalTransactionCount[s]
         /\ remoteServiceCallCount'[s] = remoteServiceCallCount[s]
         /\ dataStoreOperationAfterRemoteServiceCall'[s]
              = dataStoreOperationAfterRemoteServiceCall[s]
<1> USE DEF TypeOK, clsVars, callVars, ghostVars
<1>1. CASE TryExecuteServiceMethod(r)
  BY <1>1 DEF TryExecuteServiceMethod, ReserveConnection, ReserveConnectionFails,
    ResolveUserAccount, ResolveUserAccountFails, Thrown, ThrowFromFunction, ReturnFromFunction
<1>2. CASE ServiceFunction(r)
  <2>1. CASE \E kind \in OpKinds, row \in Rows, expect \in Expected : StartOperation(r, kind, row, expect)
    BY <2>1 DEF StartOperation
  <2>2. CASE ExecuteInsideTransaction(r)
    BY <2>2 DEF ExecuteInsideTransaction
  <2>3. CASE \E error \in BOOLEAN : CallRemoteService(r, error) \/ ReturnFromExecutable(r, error)
    BY <2>3 DEF CallRemoteService, ReturnFromExecutable
  <2> QED
    BY <1>2, <2>1, <2>2, <2>3 DEF ServiceFunction
<1>3. CASE DataStoreOperation(r)
  <2>1. CASE BeginLocalTransaction(r) \/ BeginLocalTransactionFails(r)
    BY <2>1 DEF BeginLocalTransaction, BeginLocalTransactionFails, OpFails
  <2>2. CASE SelectEntity(r)
    <3> DEFINE read == [op[r] EXCEPT !.seen = Visible(conn[r], op[r].row)]
    <3>1. \/ OpSucceeds(r) \/ OpFails(r)
          \/ op' = [op EXCEPT ![r] = read] /\ pc' = [pc EXCEPT ![r] = "write"]
      BY <2>2 DEF SelectEntity
    <3> HIDE DEF read
    <3>2. pc'[s] = pc[s] /\ op'[s] = op[s]
      BY <3>1 DEF OpSucceeds, OpFails
    <3> QED
      BY <2>2, <3>2 DEF SelectEntity, NoteStatement
  <2>3. CASE WriteEntity(r)
    BY <2>3 DEF WriteEntity, OpSucceeds, NoteStatement
  <2>4. CASE StatementFails(r)
    BY <2>4 DEF StatementFails, OpFails, NoteStatement
  <2>5. CASE CommitLocalTransaction(r)
    BY <2>5 DEF CommitLocalTransaction, OpSucceeds
  <2>6. CASE CommitLocalTransactionFails(r)
    BY <2>6 DEF CommitLocalTransactionFails, OpFails
  <2>7. CASE RollbackLocalTransaction(r)
    BY <2>7 DEF RollbackLocalTransaction
  <2> QED
    BY <1>3, <2>1, <2>2, <2>3, <2>4, <2>5, <2>6, <2>7 DEF DataStoreOperation
<1>4. CASE GlobalTransaction(r)
  BY <1>4 DEF GlobalTransaction, BeginGlobalTransaction, BeginGlobalTransactionFails,
    CommitGlobalTransaction, CommitGlobalTransactionFails, RollbackGlobalTransaction, LeaveFrame
<1> QED
  BY <1>1, <1>2, <1>3, <1>4 DEF RequestStep

(* No step of a call makes it change data in a transaction that is not     *)
(* counted, or be answered "ok" against its counts.                        *)
LEMMA CountedStep ==
  ASSUME TypeOK, NEW r \in Requests, Counted(r), RequestStep(r)
  PROVE  Counted(r)'
<1>1. /\ op[r].started \in BOOLEAN /\ units[r] \in Nat /\ dbLocalTransactionCount[r] \in Nat
      /\ NoOperation.started = FALSE
  BY DEF TypeOK, Operations, NoOperation
<1> USE <1>1 DEF TypeOK, Counted, clsVars, callVars, ghostVars
<1>2. CASE ReserveConnection(r) \/ ReserveConnectionFails(r) \/ ResolveUserAccount(r)
           \/ ResolveUserAccountFails(r) \/ ThrowFromFunction(r)
  BY <1>2 DEF ReserveConnection, ReserveConnectionFails, ResolveUserAccount,
    ResolveUserAccountFails, ThrowFromFunction, Thrown
<1>3. CASE \E error \in BOOLEAN : ReturnFromFunction(r, error)
  BY <1>3 DEF ReturnFromFunction, Rejected
<1>4. CASE \E kind \in OpKinds, row \in Rows, expect \in Expected : StartOperation(r, kind, row, expect)
  <2>1. PICK kind \in OpKinds, row \in Rows, expect \in Expected : StartOperation(r, kind, row, expect)
    BY <1>4
  <2>2. op'[r].started = FALSE /\ units'[r] = units[r] /\ response'[r] = response[r]
    BY <2>1 DEF StartOperation
  <2>3. pc'[r] \in {"opBegin", "select", "write"} /\ response[r] # "ok"
    BY <2>1 DEF StartOperation, GoesOn, FirstStatement
  <2>4. /\ dbLocalTransactionCount'[r] \in Nat
        /\ dbLocalTransactionCount[r] <= dbLocalTransactionCount'[r]
    BY <2>1 DEF StartOperation
  <2> QED
    BY <2>2, <2>3, <2>4
<1>5. CASE ExecuteInsideTransaction(r)
  BY <1>5 DEF ExecuteInsideTransaction, GoesOn
<1>6. CASE \E error \in BOOLEAN : CallRemoteService(r, error) \/ ReturnFromExecutable(r, error)
  BY <1>6 DEF CallRemoteService, ReturnFromExecutable, GoesOn
<1>7. CASE BeginLocalTransaction(r)
  <2>1. op'[r].started = TRUE /\ units'[r] = units[r] /\ response'[r] # "ok"
    BY <1>7 DEF BeginLocalTransaction, Operations
  <2>2. /\ pc'[r] \in {"select", "write"}
        /\ dbLocalTransactionCount'[r] = dbLocalTransactionCount[r] + 1
    BY <1>7 DEF BeginLocalTransaction, FirstStatement
  <2> QED
    BY <2>1, <2>2
<1>8. CASE BeginLocalTransactionFails(r)
  BY <1>8 DEF BeginLocalTransactionFails, OpFails
<1>9. CASE SelectEntity(r)
  <2> DEFINE read == [op[r] EXCEPT !.seen = Visible(conn[r], op[r].row)]
  <2>1. \/ OpSucceeds(r) \/ OpFails(r)
        \/ op' = [op EXCEPT ![r] = read] /\ pc' = [pc EXCEPT ![r] = "write"]
    BY <1>9 DEF SelectEntity
  <2>2. read.started = op[r].started
    BY DEF Operations
  <2> HIDE DEF read
  <2>3. /\ pc'[r] \notin {"arrived", "resolving", "opCommit"}
        /\ op'[r].started => op[r].started
    BY <2>1, <2>2 DEF OpSucceeds, OpFails
  <2>4. /\ units'[r] = units[r] /\ response'[r] = response[r] /\ response[r] # "ok"
        /\ dbLocalTransactionCount'[r] = dbLocalTransactionCount[r]
    BY <1>9 DEF SelectEntity, NoteStatement
  <2> QED
    BY <2>3, <2>4
<1>10. CASE WriteEntity(r)
  BY <1>10 DEF WriteEntity, OpSucceeds, NoteStatement
<1>11. CASE StatementFails(r)
  BY <1>11 DEF StatementFails, OpFails, NoteStatement
<1>12. CASE CommitLocalTransaction(r)
  <2>1. /\ pc'[r] = "running" /\ op'[r].started = FALSE /\ response'[r] # "ok"
        /\ dbLocalTransactionCount'[r] = dbLocalTransactionCount[r] /\ op[r].started
    BY <1>12 DEF CommitLocalTransaction, OpSucceeds
  <2>2. units'[r] \in {units[r], units[r] + 1}
    BY <1>12 DEF CommitLocalTransaction
  <2> QED
    BY <2>1, <2>2
<1>13. CASE CommitLocalTransactionFails(r)
  BY <1>13 DEF CommitLocalTransactionFails, OpFails
<1>14. CASE RollbackLocalTransaction(r)
  BY <1>14 DEF RollbackLocalTransaction
<1>15. CASE BeginGlobalTransaction(r) \/ BeginGlobalTransactionFails(r)
  BY <1>15 DEF BeginGlobalTransaction, BeginGlobalTransactionFails, LeaveFrame
<1>16. CASE CommitGlobalTransaction(r) \/ CommitGlobalTransactionFails(r) \/ RollbackGlobalTransaction(r)
  BY <1>16 DEF CommitGlobalTransaction, CommitGlobalTransactionFails, RollbackGlobalTransaction,
    LeaveFrame
<1> QED
  BY <1>2, <1>3, <1>4, <1>5, <1>6, <1>7, <1>8, <1>9, <1>10, <1>11, <1>12, <1>13, <1>14, <1>15, <1>16
  DEF RequestStep, TryExecuteServiceMethod, ServiceFunction, DataStoreOperation, GlobalTransaction

(* Every local transaction that changed data is in the count.              *)
THEOREM TransactionsCountedInvariant == Spec => []TransactionsCounted
<1>1. Init => TransactionsCounted
  BY DEF Init, TransactionsCounted, Counted, NoOperation
<1>2. CallInv /\ TransactionsCounted /\ [Next]_vars => TransactionsCounted'
  <2> SUFFICES ASSUME CallInv, TransactionsCounted, [Next]_vars
               PROVE  TransactionsCounted'
    OBVIOUS
  <2>1. TypeOK
    BY DEF CallInv
  <2>2. ASSUME NEW r \in Requests, RequestStep(r) PROVE TransactionsCounted'
    <3>1. Counted(r)'
      BY <2>1, <2>2, CountedStep DEF TransactionsCounted
    <3>2. ASSUME NEW s \in Requests \ {r} PROVE Counted(s)'
      <4>1. Counted(s)
        BY DEF TransactionsCounted
      <4> QED
        BY <2>1, <2>2, <4>1, CountsOfOthers DEF Counted, Rejected
    <3> QED
      BY <3>1, <3>2 DEF TransactionsCounted
  <2>3. CASE UNCHANGED vars
    BY <2>3 DEF TransactionsCounted, Counted, Rejected, vars, clsVars, callVars, ghostVars
  <2> QED
    BY <2>2, <2>3 DEF Next, Idle
<1> QED
  BY <1>1, <1>2, CallInvariant, PTL DEF Spec

(* A call answered without error changed data in at most one local         *)
(* transaction, and in none if it also called a remote service, whatever   *)
(* its function ignores or nests: lines 568-619 see every transaction.     *)
THEOREM UnitsOfWorkHolds == Spec => []UnitsOfWork
<1>1. TypeOK /\ TransactionsCounted => UnitsOfWork
  <2> SUFFICES ASSUME TypeOK, NEW r \in Requests, Counted(r), response[r] = "ok",
                      r \notin NonTransactional
               PROVE  /\ remoteServiceCallCount[r] = 0 => units[r] <= 1
                      /\ remoteServiceCallCount[r] = 1 => units[r] = 0
    BY DEF TransactionsCounted, UnitsOfWork
  <2>1. units[r] \in Nat /\ dbLocalTransactionCount[r] \in Nat /\ op[r].started \in BOOLEAN
    BY DEF TypeOK, Operations
  <2>2. units[r] <= dbLocalTransactionCount[r]
    BY <2>1 DEF Counted
  <2>3. ~Rejected(r)
    BY DEF Counted
  <2> QED
    BY <2>1, <2>2, <2>3 DEF Rejected
<1> QED
  BY <1>1, TypeCorrect, TransactionsCountedInvariant, PTL
=============================================================================
