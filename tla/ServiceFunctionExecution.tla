---------------------- MODULE ServiceFunctionExecution ----------------------
(***************************************************************************)
(* Concurrent service function calls of one microservice instance on a SQL *)
(* data store: the part of tryExecuteServiceMethod that reserves a pooled  *)
(* connection, runs the service function and releases the connection, and  *)
(* the data store operations a service function is made of, with the local *)
(* and global transactions they run in.                                    *)
(*                                                                         *)
(* The service function is user code: it is modelled as an arbitrary       *)
(* sequence of data store operations, executeInsideTransaction calls and   *)
(* remote calls.  CONSTANTS say how careful that code is.                  *)
(***************************************************************************)
EXTENDS SqlServer, FiniteSets

CONSTANTS Requests,                    \* service function calls
          OpKinds,                     \* data store operations they use
          Expected,                    \* "version" values of update arguments, 0: not given
          MaxOps,                      \* bound on data store operations and frames per call
          MaxDepth,                    \* bound on nested executeInsideTransaction calls
          MaxRemoteCalls,              \* bound on remote calls per call
          OwnResources,                \* calls of "every user for own resources" functions
          NonTransactional,            \* calls of @NoTransactionNeeded functions
          NonDistributedTransactional, \* calls of @NoDistributedTransactionNeeded functions
          MayThrow,                    \* a service function may throw
          IgnoresErrors,               \* a service function may go on after an error
          DbErrors                     \* the database may refuse a statement

AllOpKinds == {"create", "read", "update", "delete", "checkedDelete"}

ASSUME ConstantsAssumption ==
  /\ Rows # {}
  /\ OpKinds \subseteq AllOpKinds
  /\ Expected \subseteq Versions
  /\ MaxOps \in Nat /\ MaxDepth \in Nat /\ MaxRemoteCalls \in Nat
  /\ OwnResources \subseteq Requests
  /\ MayThrow \in BOOLEAN /\ IgnoresErrors \in BOOLEAN /\ DbErrors \in BOOLEAN

VARIABLES
  pool,         \* connections that are free
  conn,         \* conn[r]: CLS "connection"
  localTransaction, globalTransaction,          \* CLS flags
  dbLocalTransactionCount, remoteServiceCallCount,
  dataStoreOperationAfterRemoteServiceCall,
  pc,           \* pc[r]: the await r is at
  op,           \* op[r]: the data store operation r executes
  depth,        \* depth[r]: executeInsideTransaction calls r is inside of
  failed,       \* failed[r]: the last thing r awaited returned an error
  opsLeft,
  response,     \* response[r]: what tryExecuteServiceMethod answered
  frameWrites,  \* ghost: rows written in the outermost open frame of r
  units         \* ghost: local transactions of r that changed data

clsVars == <<localTransaction, globalTransaction, dbLocalTransactionCount,
             remoteServiceCallCount, dataStoreOperationAfterRemoteServiceCall>>
callVars == <<pool, conn, response>>
ghostVars == <<frameWrites, units>>
vars == <<serverVars, clsVars, callVars, ghostVars, pc, op, depth, failed, opsLeft>>

PCs == {"arrived", "resolving", "running", "opBegin", "select", "write", "opCommit",
        "opRollback", "frameBegin", "frameCommit", "frameRollback", "done"}

Operations == [kind : AllOpKinds, row : Rows, expect : Versions, seen : Versions,
               started : BOOLEAN]

NoOperation == [kind |-> "read", row |-> CHOOSE row \in Rows : TRUE, expect |-> 0,
                seen |-> 0, started |-> FALSE]

TypeOK ==
  /\ ServerTypeOK
  /\ pool \in SUBSET Conns
  /\ conn \in [Requests -> Conns \union {NoConn}]
  /\ localTransaction \in [Requests -> BOOLEAN]
  /\ globalTransaction \in [Requests -> BOOLEAN]
  /\ dbLocalTransactionCount \in [Requests -> Nat]
  /\ remoteServiceCallCount \in [Requests -> Nat]
  /\ dataStoreOperationAfterRemoteServiceCall \in [Requests -> BOOLEAN]
  /\ pc \in [Requests -> PCs]
  /\ op \in [Requests -> Operations]
  /\ depth \in [Requests -> Nat]
  /\ failed \in [Requests -> BOOLEAN]
  /\ opsLeft \in [Requests -> Nat]
  /\ response \in [Requests -> {"none", "ok", "error"}]
  /\ frameWrites \in [Requests -> SUBSET Rows]
  /\ units \in [Requests -> Nat]

Init ==
  /\ ServerInit
  /\ pool = Conns
  /\ conn = [r \in Requests |-> NoConn]
  /\ localTransaction = [r \in Requests |-> FALSE]
  /\ globalTransaction = [r \in Requests |-> FALSE]
  /\ dbLocalTransactionCount = [r \in Requests |-> 0]
  /\ remoteServiceCallCount = [r \in Requests |-> 0]
  /\ dataStoreOperationAfterRemoteServiceCall = [r \in Requests |-> FALSE]
  /\ pc = [r \in Requests |-> "arrived"]
  /\ op = [r \in Requests |-> NoOperation]
  /\ depth = [r \in Requests |-> 0]
  /\ failed = [r \in Requests |-> FALSE]
  /\ opsLeft = [r \in Requests |-> MaxOps]
  /\ response = [r \in Requests |-> "none"]
  /\ frameWrites = [r \in Requests |-> {}]
  /\ units = [r \in Requests |-> 0]

----------------------------------------------------------------------------
(* tryExecuteServiceMethod around the service function                     *)

(* Line 457: a free connection is taken from the pool, or r waits for one. *)
ReserveConnection(r) ==
  /\ pc[r] = "arrived"
  /\ \E c \in pool :
       /\ pool' = pool \ {c}
       /\ conn' = [conn EXCEPT ![r] = c]
  /\ localTransaction' = [localTransaction EXCEPT ![r] = FALSE]
  /\ globalTransaction' = [globalTransaction EXCEPT ![r] = FALSE]
  /\ pc' = [pc EXCEPT ![r] = IF r \in OwnResources THEN "resolving" ELSE "running"]
  /\ UNCHANGED <<serverVars, dbLocalTransactionCount, remoteServiceCallCount,
                 dataStoreOperationAfterRemoteServiceCall, op, depth, failed, opsLeft,
                 response, ghostVars>>

(* The pool cannot connect: nothing was reserved.                          *)
ReserveConnectionFails(r) ==
  /\ DbErrors
  /\ pc[r] = "arrived"
  /\ pc' = [pc EXCEPT ![r] = "done"]
  /\ response' = [response EXCEPT ![r] = "error"]
  /\ UNCHANGED <<serverVars, clsVars, pool, conn, op, depth, failed, opsLeft, ghostVars>>

(* Mutant of Thrown: the exception path gives the connection back and      *)
(* leaves it in the CLS context, from where it may be given back again.    *)
ThrownReleasing(r) ==
  /\ pc' = [pc EXCEPT ![r] = "done"]
  /\ response' = [response EXCEPT ![r] = "error"]
  /\ pool' = pool \union {conn[r]}
  /\ UNCHANGED <<serverVars, clsVars, conn, op, depth, failed, opsLeft, ghostVars>>

(* The exception path, lines 620-622: line 565 is jumped over.             *)
Thrown(r) ==
  /\ pc' = [pc EXCEPT ![r] = "done"]
  /\ response' = [response EXCEPT ![r] = "error"]
  /\ UNCHANGED <<serverVars, clsVars, pool, conn, op, depth, failed, opsLeft, ghostVars>>

(* Lines 513-521: the caller's account id is read with userService         *)
(* .getIdBySubject; its error, e.g. an unknown subject, is thrown.         *)
ResolveUserAccount(r) ==
  /\ pc[r] = "resolving"
  /\ dbLocalTransactionCount' = [dbLocalTransactionCount EXCEPT ![r] = 0]
  /\ pc' = [pc EXCEPT ![r] = "running"]
  /\ UNCHANGED <<serverVars, localTransaction, globalTransaction, remoteServiceCallCount,
                 dataStoreOperationAfterRemoteServiceCall, callVars, op, depth, failed,
                 opsLeft, ghostVars>>

ResolveUserAccountFails(r) == pc[r] = "resolving" /\ Thrown(r)

(* The service function throws, inside an executeInsideTransaction or not. *)
ThrowFromFunction(r) == MayThrow /\ pc[r] = "running" /\ Thrown(r)

(* Mutant of Rejected: only functions that call remote services are judged. *)
RejectedRemote(r) ==
  \/ /\ dbLocalTransactionCount[r] >= 1
     /\ remoteServiceCallCount[r] = 1
     /\ r \notin NonTransactional
  \/ /\ remoteServiceCallCount[r] > 1 \/ dataStoreOperationAfterRemoteServiceCall[r]
     /\ r \notin NonDistributedTransactional

(* Lines 568-619: the transactions and calls the function used are judged. *)
Rejected(r) ==
  \/ /\ dbLocalTransactionCount[r] > 1
     /\ remoteServiceCallCount[r] = 0
     /\ r \notin NonTransactional
  \/ /\ dbLocalTransactionCount[r] >= 1
     /\ remoteServiceCallCount[r] = 1
     /\ r \notin NonTransactional
  \/ /\ \/ remoteServiceCallCount[r] > 1
        \/ dataStoreOperationAfterRemoteServiceCall[r]
     /\ r \notin NonDistributedTransactional

(* Lines 560-566: the function returned (error: [null, error]), the        *)
(* connection goes back to the pool, the checks follow.                    *)
ReturnFromFunction(r, error) ==
  /\ pc[r] = "running" /\ depth[r] = 0
  /\ failed[r] /\ ~error => IgnoresErrors
  /\ pool' = pool \union {conn[r]}
  /\ conn' = [conn EXCEPT ![r] = NoConn]
  /\ response' = [response EXCEPT ![r] = IF error \/ Rejected(r) THEN "error" ELSE "ok"]
  /\ pc' = [pc EXCEPT ![r] = "done"]
  /\ UNCHANGED <<serverVars, clsVars, op, depth, failed, opsLeft, ghostVars>>

----------------------------------------------------------------------------
(* What the service function does next                                     *)

GoesOn(r) == pc[r] = "running" /\ (failed[r] => IgnoresErrors)

FirstStatement(kind) ==
  IF kind \in {"read", "update", "checkedDelete"} THEN "select" ELSE "write"

(* Mutant of InTransaction: the global transaction is not looked at.       *)
InLocalTransaction(r) == localTransaction[r]

InTransaction(r) == globalTransaction[r] \/ localTransaction[r]

(* Mutant of ForUpdate: the entity is read without a lock.                 *)
NeverForUpdate(r) == FALSE

(* getEntityById adds FOR UPDATE when its caller asks for it and in any    *)
(* transaction.                                                            *)
ForUpdate(r) == op[r].kind # "read" \/ InTransaction(r)

(* createEntity, updateEntity and deleteEntityById begin with              *)
(* tryStartLocalTransactionIfNeeded; getEntityById without hooks with      *)
(* updateDbLocalTransactionCount.                                          *)
StartOperation(r, kind, row, expect) ==
  /\ GoesOn(r) /\ opsLeft[r] > 0
  /\ kind # "update" => expect = 0
  /\ opsLeft' = [opsLeft EXCEPT ![r] = @ - 1]
  /\ op' = [op EXCEPT ![r] = [kind |-> kind, row |-> row, expect |-> expect, seen |-> 0,
                              started |-> FALSE]]
  /\ IF kind # "read" /\ ~InTransaction(r)
       THEN pc' = [pc EXCEPT ![r] = "opBegin"]
       ELSE pc' = [pc EXCEPT ![r] = FirstStatement(kind)]
  /\ dbLocalTransactionCount' =
       IF kind = "read" /\ ~InTransaction(r)
         THEN [dbLocalTransactionCount EXCEPT ![r] = @ + 1]
         ELSE dbLocalTransactionCount
  /\ UNCHANGED <<serverVars, localTransaction, globalTransaction, remoteServiceCallCount,
                 dataStoreOperationAfterRemoteServiceCall, callVars, depth, failed, ghostVars>>

(* executeInsideTransaction, line 392.                                     *)
ExecuteInsideTransaction(r) ==
  /\ GoesOn(r) /\ opsLeft[r] > 0 /\ depth[r] < MaxDepth
  /\ opsLeft' = [opsLeft EXCEPT ![r] = @ - 1]
  /\ globalTransaction' = [globalTransaction EXCEPT ![r] = TRUE]
  /\ depth' = [depth EXCEPT ![r] = @ + 1]
  /\ frameWrites' = IF depth[r] = 0 THEN [frameWrites EXCEPT ![r] = {}] ELSE frameWrites
  /\ pc' = [pc EXCEPT ![r] = "frameBegin"]
  /\ UNCHANGED <<serverVars, localTransaction, dbLocalTransactionCount,
                 remoteServiceCallCount, dataStoreOperationAfterRemoteServiceCall, callVars,
                 op, failed, units>>

(* callRemoteService: counted before the call, which may fail.             *)
CallRemoteService(r, error) ==
  /\ GoesOn(r) /\ remoteServiceCallCount[r] < MaxRemoteCalls
  /\ remoteServiceCallCount' = [remoteServiceCallCount EXCEPT ![r] = @ + 1]
  /\ failed' = [failed EXCEPT ![r] = error]
  /\ UNCHANGED <<serverVars, localTransaction, globalTransaction, dbLocalTransactionCount,
                 dataStoreOperationAfterRemoteServiceCall, callVars, pc, op, depth, opsLeft,
                 ghostVars>>

(* Mutant of ReturnFromExecutable: a transaction is ended without one.     *)
ReturnFromExecutableAnywhere(r, error) ==
  /\ pc[r] = "running"
  /\ failed[r] /\ ~error => IgnoresErrors
  /\ pc' = [pc EXCEPT ![r] = IF error THEN "frameRollback" ELSE "frameCommit"]
  /\ UNCHANGED <<serverVars, clsVars, callVars, op, depth, failed, opsLeft, ghostVars>>

(* The executable returns: lines 415-425.                                  *)
ReturnFromExecutable(r, error) ==
  /\ pc[r] = "running" /\ depth[r] > 0
  /\ failed[r] /\ ~error => IgnoresErrors
  /\ pc' = [pc EXCEPT ![r] = IF error THEN "frameRollback" ELSE "frameCommit"]
  /\ UNCHANGED <<serverVars, clsVars, callVars, op, depth, failed, opsLeft, ghostVars>>

----------------------------------------------------------------------------
(* The awaits of a data store operation                                    *)

OpSucceeds(r) ==
  /\ pc' = [pc EXCEPT ![r] = "running"]
  /\ failed' = [failed EXCEPT ![r] = FALSE]
  /\ op' = [op EXCEPT ![r] = NoOperation]

(* catch: roll back what the operation itself began, return the error.     *)
OpFails(r) ==
  IF op[r].started
    THEN /\ pc' = [pc EXCEPT ![r] = "opRollback"]
         /\ UNCHANGED <<op, failed>>
    ELSE /\ pc' = [pc EXCEPT ![r] = "running"]
         /\ failed' = [failed EXCEPT ![r] = TRUE]
         /\ op' = [op EXCEPT ![r] = NoOperation]

(* tryStartLocalTransactionIfNeeded, after its guard.                      *)
BeginLocalTransaction(r) ==
  /\ pc[r] = "opBegin"
  /\ Begin(conn[r])
  /\ localTransaction' = [localTransaction EXCEPT ![r] = TRUE]
  /\ dbLocalTransactionCount' = [dbLocalTransactionCount EXCEPT ![r] = @ + 1]
  /\ op' = [op EXCEPT ![r].started = TRUE]
  /\ pc' = [pc EXCEPT ![r] = FirstStatement(op[r].kind)]
  /\ UNCHANGED <<globalTransaction, remoteServiceCallCount,
                 dataStoreOperationAfterRemoteServiceCall, callVars, depth, failed, opsLeft,
                 ghostVars>>

(* Mutant of BeginLocalTransactionFails: the error is swallowed.           *)
BeginLocalTransactionSwallows(r) ==
  /\ pc[r] = "opBegin"
  /\ DbErrors \/ tx[conn[r]] = "failed"
  /\ pc' = [pc EXCEPT ![r] = FirstStatement(op[r].kind)]
  /\ UNCHANGED <<serverVars, clsVars, callVars, op, failed, depth, opsLeft, ghostVars>>

BeginLocalTransactionFails(r) ==
  /\ pc[r] = "opBegin"
  /\ DbErrors \/ tx[conn[r]] = "failed"
  /\ OpFails(r)
  /\ UNCHANGED <<serverVars, clsVars, callVars, depth, opsLeft, ghostVars>>

(* executeSqlOrThrow and executeSqlQueryOrThrow note a statement that      *)
(* follows a remote call.                                                  *)
NoteStatement(r) ==
  /\ dataStoreOperationAfterRemoteServiceCall' =
       [dataStoreOperationAfterRemoteServiceCall EXCEPT ![r] = @ \/ remoteServiceCallCount[r] > 0]
  /\ UNCHANGED <<localTransaction, globalTransaction, dbLocalTransactionCount,
                 remoteServiceCallCount>>

(* updateEntity's eTagCheckPreHook, lines 84-88 and 105.                   *)
VersionMatches(r, version) == op[r].expect \in {0, version}

(* getEntityById: FOR UPDATE when asked for or in a transaction; then the  *)
(* caller's reaction to what was read.                                     *)
SelectEntity(r) ==
  /\ pc[r] = "select"
  /\ LET c == conn[r]
         row == op[r].row
         version == Visible(c, row)
     IN  /\ tx[c] # "failed"
         /\ IF version # 0 /\ ForUpdate(r)
              THEN LockRow(c, row)
              ELSE UNCHANGED serverVars
         /\ IF version # 0 /\ VersionMatches(r, version)
              THEN IF op[r].kind = "read"
                     THEN OpSucceeds(r)
                     ELSE /\ op' = [op EXCEPT ![r].seen = version]
                          /\ pc' = [pc EXCEPT ![r] = "write"]
                          /\ UNCHANGED failed
              ELSE OpFails(r)
  /\ NoteStatement(r)
  /\ UNCHANGED <<callVars, depth, opsLeft, ghostVars>>

(* The version the row has after the statement of the operation.           *)
NewVersion(r) ==
  CASE op[r].kind = "update" -> op[r].seen + 1
    [] op[r].kind = "create" -> 1
    [] OTHER -> 0

(* The INSERT, UPDATE or DELETE.  An UPDATE or DELETE of a row that is not *)
(* there affects no row.                                                   *)
WriteEntity(r) ==
  /\ pc[r] = "write"
  /\ NewVersion(r) <= MaxVersion
  /\ LET c == conn[r]
         row == op[r].row
         present == Visible(c, row) # 0
     IN  /\ LockAvailable(c, row) /\ tx[c] # "failed"
         /\ op[r].kind = "create" => ~present
         /\ IF op[r].kind = "create" \/ present
              THEN /\ WriteRow(c, row, NewVersion(r))
                   /\ frameWrites' = [frameWrites EXCEPT ![r] = @ \union {row}]
              ELSE UNCHANGED <<serverVars, frameWrites>>
  /\ IF op[r].started
       THEN /\ pc' = [pc EXCEPT ![r] = "opCommit"]
            /\ UNCHANGED <<op, failed>>
       ELSE OpSucceeds(r)
  /\ NoteStatement(r)
  /\ UNCHANGED <<callVars, depth, opsLeft, units>>

(* Who waits for whom: the database ends a cycle by failing a statement.   *)
Blocked(r) ==
  /\ \/ pc[r] = "write"
     \/ /\ pc[r] = "select" /\ ForUpdate(r)
        /\ Visible(conn[r], op[r].row) # 0
  /\ ~LockAvailable(conn[r], op[r].row)

InDeadlock(r) ==
  \E S \in SUBSET Requests :
    r \in S /\ \A s \in S : Blocked(s) /\ \E t \in S : conn[t] = lock[op[s].row]

(* INSERT of an entity that exists.                                        *)
IsDuplicate(r) ==
  /\ pc[r] = "write" /\ op[r].kind = "create"
  /\ LockAvailable(conn[r], op[r].row)
  /\ Visible(conn[r], op[r].row) # 0

StatementFails(r) ==
  /\ pc[r] \in {"select", "write"}
  /\ DbErrors \/ tx[conn[r]] = "failed" \/ IsDuplicate(r) \/ InDeadlock(r)
  /\ StatementError(conn[r])
  /\ OpFails(r)
  /\ NoteStatement(r)
  /\ UNCHANGED <<callVars, depth, opsLeft, ghostVars>>

(* tryCommitLocalTransactionIfNeeded, then the finally block.              *)
CommitLocalTransaction(r) ==
  /\ pc[r] = "opCommit"
  /\ Commit(conn[r])
  /\ localTransaction' = [localTransaction EXCEPT ![r] = FALSE]
  /\ units' = [units EXCEPT ![r] = IF db' # db THEN @ + 1 ELSE @]
  /\ OpSucceeds(r)
  /\ UNCHANGED <<globalTransaction, dbLocalTransactionCount, remoteServiceCallCount,
                 dataStoreOperationAfterRemoteServiceCall, callVars, depth, opsLeft,
                 frameWrites>>

CommitLocalTransactionFails(r) ==
  /\ DbErrors
  /\ pc[r] = "opCommit"
  /\ CommitError(conn[r])
  /\ OpFails(r)
  /\ UNCHANGED <<clsVars, callVars, depth, opsLeft, ghostVars>>

(* tryRollbackLocalTransactionIfNeeded, whose own error is swallowed, then *)
(* the finally block.                                                      *)
RollbackLocalTransaction(r) ==
  /\ pc[r] = "opRollback"
  /\ Rollback(conn[r])
  /\ localTransaction' = [localTransaction EXCEPT ![r] = FALSE]
  /\ pc' = [pc EXCEPT ![r] = "running"]
  /\ failed' = [failed EXCEPT ![r] = TRUE]
  /\ op' = [op EXCEPT ![r] = NoOperation]
  /\ UNCHANGED <<globalTransaction, dbLocalTransactionCount, remoteServiceCallCount,
                 dataStoreOperationAfterRemoteServiceCall, callVars, depth, opsLeft,
                 ghostVars>>

----------------------------------------------------------------------------
(* The awaits of executeInsideTransaction                                  *)

LeaveFrame(r, error) ==
  /\ depth' = [depth EXCEPT ![r] = @ - 1]
  /\ failed' = [failed EXCEPT ![r] = error]
  /\ pc' = [pc EXCEPT ![r] = "running"]
  /\ UNCHANGED <<localTransaction, dbLocalTransactionCount, remoteServiceCallCount,
                 dataStoreOperationAfterRemoteServiceCall, callVars, op, opsLeft, ghostVars>>

BeginGlobalTransaction(r) ==
  /\ pc[r] = "frameBegin"
  /\ Begin(conn[r])
  /\ pc' = [pc EXCEPT ![r] = "running"]
  /\ failed' = [failed EXCEPT ![r] = FALSE]
  /\ UNCHANGED <<clsVars, callVars, op, depth, opsLeft, ghostVars>>

(* Line 412 returns without resetting globalTransaction.                   *)
BeginGlobalTransactionFails(r) ==
  /\ pc[r] = "frameBegin"
  /\ DbErrors \/ tx[conn[r]] = "failed"
  /\ LeaveFrame(r, TRUE)
  /\ UNCHANGED <<serverVars, globalTransaction>>

CommitGlobalTransaction(r) ==
  /\ pc[r] = "frameCommit"
  /\ Commit(conn[r])
  /\ globalTransaction' = [globalTransaction EXCEPT ![r] = FALSE]
  /\ LeaveFrame(r, FALSE)

(* Mutant of CommitGlobalTransactionFails: the error is swallowed, as that *)
(* of ROLLBACK is.                                                         *)
CommitGlobalTransactionSwallows(r) ==
  /\ DbErrors
  /\ pc[r] = "frameCommit"
  /\ CommitError(conn[r])
  /\ globalTransaction' = [globalTransaction EXCEPT ![r] = FALSE]
  /\ LeaveFrame(r, FALSE)

(* Line 428 returns without resetting globalTransaction.                   *)
CommitGlobalTransactionFails(r) ==
  /\ DbErrors
  /\ pc[r] = "frameCommit"
  /\ CommitError(conn[r])
  /\ LeaveFrame(r, TRUE)
  /\ UNCHANGED globalTransaction

(* Mutant of RollbackGlobalTransaction: no ROLLBACK is sent.               *)
LeaveWithoutRollback(r) ==
  /\ pc[r] = "frameRollback"
  /\ globalTransaction' = [globalTransaction EXCEPT ![r] = FALSE]
  /\ LeaveFrame(r, TRUE)
  /\ UNCHANGED serverVars

(* tryRollbackTransaction swallows the error of the statement.             *)
RollbackGlobalTransaction(r) ==
  /\ pc[r] = "frameRollback"
  /\ Rollback(conn[r])
  /\ globalTransaction' = [globalTransaction EXCEPT ![r] = FALSE]
  /\ LeaveFrame(r, TRUE)

----------------------------------------------------------------------------
TryExecuteServiceMethod(r) ==
  \/ ReserveConnection(r) \/ ReserveConnectionFails(r)
  \/ ResolveUserAccount(r) \/ ResolveUserAccountFails(r)
  \/ \E error \in BOOLEAN : ReturnFromFunction(r, error)
  \/ ThrowFromFunction(r)

ServiceFunction(r) ==
  \/ \E kind \in OpKinds, row \in Rows, expect \in Expected :
       StartOperation(r, kind, row, expect)
  \/ ExecuteInsideTransaction(r)
  \/ \E error \in BOOLEAN : CallRemoteService(r, error) \/ ReturnFromExecutable(r, error)

DataStoreOperation(r) ==
  \/ BeginLocalTransaction(r) \/ BeginLocalTransactionFails(r)
  \/ SelectEntity(r) \/ WriteEntity(r) \/ StatementFails(r)
  \/ CommitLocalTransaction(r) \/ CommitLocalTransactionFails(r)
  \/ RollbackLocalTransaction(r)

GlobalTransaction(r) ==
  \/ BeginGlobalTransaction(r) \/ BeginGlobalTransactionFails(r)
  \/ CommitGlobalTransaction(r) \/ CommitGlobalTransactionFails(r)
  \/ RollbackGlobalTransaction(r)

RequestStep(r) ==
  TryExecuteServiceMethod(r) \/ ServiceFunction(r) \/ DataStoreOperation(r) \/ GlobalTransaction(r)

AllDone == \A r \in Requests : pc[r] = "done"

(* Every call has been answered: the instance idles.                       *)
Idle == AllDone /\ UNCHANGED vars

Next == (\E r \in Requests : RequestStep(r)) \/ Idle

Spec == Init /\ [][Next]_vars

(* Every await settles and the service function does not run for ever; a   *)
(* call that waits for a connection or a row lock must not count on the    *)
(* pool's failure or on an error that the database need not report.        *)
WaitsForLock(r) == Blocked(r) /\ ~InDeadlock(r) /\ tx[conn[r]] # "failed"

FairSpec ==
  Spec /\ \A r \in Requests :
            WF_vars(RequestStep(r) /\ ~ReserveConnectionFails(r) /\ ~WaitsForLock(r))

----------------------------------------------------------------------------
(* Safety                                                                  *)

(* A connection is used by one call at a time and never while it is free:  *)
(* tryReserveDbConnectionFromPool and tryReleaseDbConnectionBackToPool are *)
(* paired whatever the service function does.                              *)
ConnectionOwnership ==
  \A r \in Requests :
    conn[r] # NoConn => /\ conn[r] \notin pool
                        /\ \A s \in Requests \ {r} : conn[s] # conn[r]

(* No call inherits a transaction or a row lock with its connection: every *)
(* path that releases the connection has ended the transaction before.     *)
PooledConnectionsClean ==
  \A c \in pool : tx[c] = "none" /\ \A row \in Rows : lock[row] # c

(* Hooks and data store operation run in one transaction: no INSERT,       *)
(* UPDATE or DELETE is sent outside a transaction.                         *)
WriteInsideTransaction ==
  \A r \in Requests : pc[r] = "write" => tx[conn[r]] # "none"

(* updateEntity computes "version + 1" from what it read; the row has that *)
(* version still when the UPDATE is sent, so no update overwrites another. *)
NoLostUpdate ==
  \A r \in Requests :
    pc[r] = "write" /\ op[r].kind = "update" => op[r].seen = Visible(conn[r], op[r].row)

(* While the executable of executeInsideTransaction runs, what it wrote is *)
(* neither committed nor lost, and locked: it can still be undone.         *)
OpenFrameUncommitted ==
  \A r \in Requests :
    depth[r] > 0 /\ ~failed[r] =>
      \A row \in frameWrites[r] :
        lock[row] = conn[r] /\ pend[conn[r]][row] # NoWrite

(* A function answered without error, not annotated @NoTransactionNeeded,  *)
(* made its changes in one local transaction, and in none if it also       *)
(* called a remote service: the counters see every transaction.            *)
UnitsOfWork ==
  \A r \in Requests :
    response[r] = "ok" /\ r \notin NonTransactional =>
      /\ remoteServiceCallCount[r] = 0 => units[r] <= 1
      /\ remoteServiceCallCount[r] = 1 => units[r] = 0

(* executeInsideTransaction answers without error only in the step that    *)
(* commits every change its executable made.                               *)
SuccessMeansCommitted ==
  [][\A r \in Requests :
       depth[r] = 1 /\ depth'[r] = 0 /\ ~failed'[r] =>
         \A row \in frameWrites[r] : db'[row] = pend[conn[r]][row]]_vars

(* Liveness: every call is answered; a call waiting for a connection or a  *)
(* row lock gets it, because calls that have them end and give them back.  *)
EveryCallAnswered == \A r \in Requests : pc[r] = "arrived" ~> pc[r] = "done"
=============================================================================
