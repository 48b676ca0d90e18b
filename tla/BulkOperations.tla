---------------------------- MODULE BulkOperations ----------------------------
(***************************************************************************)
(* createEntities and deleteEntitiesByIds: executeInsideTransaction with   *)
(* an executable that starts createEntity or deleteEntityById for all      *)
(* elements of an array at once (Promise.all).  They share the connection  *)
(* and the CLS context of one service function call; the connection sends  *)
(* one statement at a time, in the order in which they were handed to it.  *)
(*                                                                         *)
(* The rows are the elements of the array, by their index.  Hashing and    *)
(* pre-hooks take their time; whatever else an element does after an       *)
(* answer of the database happens in the step of that answer.  No          *)
(* sub-entities, no post-hook, no user account.                            *)
(***************************************************************************)
EXTENDS SqlServer, Sequences, FiniteSets

CONSTANTS Connection,  \* the connection of the call
          Operations,  \* the operations the call may be: createEntities, deleteEntitiesByIds
          DbErrors     \* the database may refuse a statement

ASSUME BulkAssumption ==
  /\ Connection \in Conns
  /\ IsFiniteSet(Rows) /\ Rows = 1..Cardinality(Rows)
  /\ Operations \subseteq {"createEntities", "deleteEntitiesByIds"}
  /\ DbErrors \in BOOLEAN

VARIABLES
  operation,
  connection,        \* CLS "connection"
  globalTransaction, localTransaction,  \* CLS flags
  queue,             \* the statements handed to the connection that it has not executed
  call,              \* the await executeInsideTransaction is at
  element,           \* element[e]: the await createEntity or deleteEntityById of e is at
  didStart,          \* didStart[e]: didStartTransaction of e
  response,          \* what executeInsideTransaction answered
  late               \* ghost: elements that had sent no statement when the first one failed

callVars == <<operation, connection, globalTransaction, call, response>>
elementVars == <<localTransaction, element, didStart, late>>
vars == <<serverVars, callVars, elementVars, queue>>

Call == 0
Statement(sender, sql) == [sender |-> sender, sql |-> sql]

TypeOK ==
  /\ ServerTypeOK
  /\ operation \in {"createEntities", "deleteEntitiesByIds"}
  /\ connection \in Conns \union {NoConn}
  /\ globalTransaction \in BOOLEAN /\ localTransaction \in BOOLEAN
  /\ queue \in Seq([sender : Rows \union {Call},
                    sql : {"BEGIN", "WRITE", "READ", "COMMIT", "ROLLBACK"}])
  /\ call \in {"ready", "begin", "executable", "commit", "rollback", "returned", "released", "thrown"}
  /\ element \in [Rows -> {"ready", "hashing", "begin", "hooks", "write", "read", "commit",
                           "commitError", "rollback", "succeeded", "failed"}]
  /\ didStart \in [Rows -> BOOLEAN]
  /\ response \in {"none", "ok", "error"}
  /\ late \subseteq Rows

(* The version column of the rows before the operation and after it.       *)
Before == IF operation = "createEntities" THEN 0 ELSE 1
After == 1 - Before

Init ==
  /\ operation \in Operations
  /\ db = [row \in Rows |-> Before]
  /\ tx = [c \in Conns |-> "none"]
  /\ pend = [c \in Conns |-> [row \in Rows |-> NoWrite]]
  /\ lock = [row \in Rows |-> NoConn]
  /\ connection = Connection
  /\ globalTransaction = FALSE /\ localTransaction = FALSE
  /\ queue = <<>>
  /\ call = "ready"
  /\ element = [e \in Rows |-> "ready"]
  /\ didStart = [e \in Rows |-> FALSE]
  /\ response = "none"
  /\ late = {}

----------------------------------------------------------------------------
(* executeInsideTransaction around the executable                          *)

(* Mutant of ExecuteInsideTransaction: the flag is not set.                *)
ExecuteWithoutFlag ==
  /\ call = "ready"
  /\ call' = "begin"
  /\ queue' = Append(queue, Statement(Call, "BEGIN"))
  /\ UNCHANGED <<serverVars, elementVars, operation, connection, globalTransaction, response>>

ExecuteInsideTransaction ==
  /\ call = "ready"
  /\ call' = "begin"
  /\ globalTransaction' = TRUE
  /\ queue' = Append(queue, Statement(Call, "BEGIN"))
  /\ UNCHANGED <<serverVars, elementVars, operation, connection, response>>

(* The connection executes the next statement.                             *)
Executing(sender, sql) == queue # <<>> /\ Head(queue) = Statement(sender, sql)

Answer(value) == call' = "returned" /\ response' = value

(* The executable starts: createEntity hashes first, deleteEntityById sends*)
(* its DELETE, as globalTransaction is set.                                *)
BeginGlobalTransaction ==
  /\ Executing(Call, "BEGIN")
  /\ Begin(Connection)
  /\ call' = "executable"
  /\ IF operation = "createEntities"
       THEN /\ element' = [e \in Rows |-> "hashing"]
            /\ queue' = Tail(queue)
       ELSE /\ element' = [e \in Rows |-> "write"]
            /\ queue' = Tail(queue) \o [e \in Rows |-> Statement(e, "WRITE")]
  /\ UNCHANGED <<operation, connection, globalTransaction, response, localTransaction, didStart,
                 late>>

BeginGlobalTransactionFails ==
  /\ DbErrors
  /\ Executing(Call, "BEGIN")
  /\ queue' = Tail(queue)
  /\ Answer("error")
  /\ UNCHANGED <<serverVars, elementVars, operation, connection, globalTransaction>>

(* Mutant of ReturnFromExecutable: the ROLLBACK is not awaited.            *)
ReturnBeforeRollback(error, statements) ==
  IF operation = "createEntities"
    THEN IF error
           THEN /\ Answer("error")
                /\ queue' = Append(statements, Statement(Call, "ROLLBACK"))
           ELSE /\ call' = "commit" /\ UNCHANGED response
                /\ queue' = Append(statements, Statement(Call, "COMMIT"))
    ELSE /\ call' = "thrown" /\ UNCHANGED response
         /\ queue' = statements

(* The executable's promise: createEntities answers with a [result, error] *)
(* pair.  What deleteEntitiesByIds returns, nothing or the error, is no    *)
(* pair: executeInsideTransaction throws when it takes it apart.           *)
ReturnFromExecutable(error, statements) ==
  /\ IF operation = "createEntities"
       THEN /\ call' = IF error THEN "rollback" ELSE "commit"
            /\ queue' = Append(statements,
                               Statement(Call, IF error THEN "ROLLBACK" ELSE "COMMIT"))
       ELSE /\ call' = "thrown"
            /\ queue' = statements
  /\ UNCHANGED response

(* Mutant of CommitGlobalTransaction: no return.                           *)
CommitWithoutAnswer ==
  /\ Executing(Call, "COMMIT")
  /\ Commit(Connection)
  /\ queue' = Tail(queue)
  /\ globalTransaction' = FALSE
  /\ Answer("undefined")
  /\ UNCHANGED <<elementVars, operation, connection>>

CommitGlobalTransaction ==
  /\ Executing(Call, "COMMIT")
  /\ Commit(Connection)
  /\ queue' = Tail(queue)
  /\ globalTransaction' = FALSE
  /\ Answer("ok")
  /\ UNCHANGED <<elementVars, operation, connection>>

CommitGlobalTransactionFails ==
  /\ DbErrors
  /\ Executing(Call, "COMMIT")
  /\ CommitError(Connection)
  /\ queue' = Tail(queue)
  /\ Answer("error")
  /\ UNCHANGED <<elementVars, operation, connection, globalTransaction>>

RollbackGlobalTransaction ==
  /\ Executing(Call, "ROLLBACK")
  /\ Rollback(Connection)
  /\ queue' = Tail(queue)
  /\ globalTransaction' = FALSE
  /\ Answer("error")
  /\ UNCHANGED <<elementVars, operation, connection>>

(* The service function returns what it got and tryExecuteServiceMethod    *)
(* releases the connection.                                                *)
Release ==
  /\ call = "returned"
  /\ call' = "released"
  /\ connection' = NoConn
  /\ UNCHANGED <<serverVars, elementVars, operation, globalTransaction, response, queue>>

----------------------------------------------------------------------------
(* createEntity and deleteEntityById of one element.  "statements" is what *)
(* is queued after the step but for what the step adds in the end.         *)

(* Mutant of Settle: the first element that succeeds answers.              *)
SettleFirst(e, outcome, statements) ==
  /\ element' = [element EXCEPT ![e] = outcome]
  /\ localTransaction' = (localTransaction /\ ~didStart[e])
  /\ UNCHANGED <<operation, connection, globalTransaction, didStart, late>>
  /\ IF call = "executable"
       THEN ReturnFromExecutable(outcome = "failed", statements)
       ELSE queue' = statements /\ UNCHANGED <<call, response>>

(* The element's promise settles, after cleanupLocalTransactionIfNeeded.   *)
(* Promise.all: the first error or the last success is its result.         *)
Settle(e, outcome, statements) ==
  /\ element' = [element EXCEPT ![e] = outcome]
  /\ localTransaction' = (localTransaction /\ ~didStart[e])
  /\ UNCHANGED <<operation, connection, globalTransaction, didStart>>
  /\ LET first == call = "executable" /\ outcome = "failed"
         last == /\ call = "executable" /\ outcome = "succeeded"
                 /\ \A f \in Rows \ {e} : element[f] = "succeeded"
     IN  /\ late' = IF first THEN {f \in Rows \ {e} : element[f] \in {"hashing", "hooks"}}
                             ELSE late
         /\ IF first \/ last
              THEN ReturnFromExecutable(first, statements)
              ELSE queue' = statements /\ UNCHANGED <<call, response>>

(* Element e sends a statement; connection is null after its release.      *)
Send(e, state, sql, statements) ==
  /\ element' = [element EXCEPT ![e] = state]
  /\ queue' = Append(statements, Statement(e, sql))
  /\ UNCHANGED <<callVars, localTransaction, didStart, late>>

(* catch: roll back what this operation has begun, return the error.       *)
Fail(e, statements) ==
  IF didStart[e] /\ connection # NoConn
    THEN Send(e, "rollback", "ROLLBACK", statements)
    ELSE Settle(e, "failed", statements)

(* try: send the statement, or throw as there is no connection.            *)
TrySend(e, state, sql, statements) ==
  IF connection # NoConn
    THEN Send(e, state, sql, statements)
    ELSE Fail(e, statements)

(* The end of try: commit what this operation has begun.  getEntityById    *)
(* returns its error, so that a createEntity without result commits, too.  *)
Finish(e, outcome, statements) ==
  IF didStart[e]
    THEN TrySend(e, IF outcome = "succeeded" THEN "commit" ELSE "commitError", "COMMIT", statements)
    ELSE Settle(e, outcome, statements)

(* hashAndEncryptEntity, then tryStartLocalTransactionIfNeeded.            *)
Hash(e) ==
  /\ element[e] = "hashing"
  /\ UNCHANGED serverVars
  /\ IF globalTransaction \/ localTransaction
       THEN /\ element' = [element EXCEPT ![e] = "hooks"]
            /\ UNCHANGED <<callVars, localTransaction, didStart, late, queue>>
       ELSE TrySend(e, "begin", "BEGIN", queue)

BeginLocalTransaction(e) ==
  /\ Executing(e, "BEGIN")
  /\ Begin(Connection)
  /\ queue' = Tail(queue)
  /\ localTransaction' = TRUE
  /\ didStart' = [didStart EXCEPT ![e] = TRUE]
  /\ element' = [element EXCEPT ![e] = "hooks"]
  /\ UNCHANGED <<callVars, late>>

BeginLocalTransactionFails(e) ==
  /\ Executing(e, "BEGIN")
  /\ DbErrors \/ tx[Connection] = "failed"
  /\ Fail(e, Tail(queue))
  /\ UNCHANGED serverVars

(* tryExecutePreHooks, then the INSERT.                                    *)
HooksSucceed(e) ==
  /\ element[e] = "hooks"
  /\ TrySend(e, "write", "WRITE", queue)
  /\ UNCHANGED serverVars

HooksFail(e) ==
  /\ element[e] = "hooks"
  /\ Fail(e, queue)
  /\ UNCHANGED serverVars

(* INSERT or DELETE.  createEntity reads its entity back.                  *)
WriteEntity(e) ==
  /\ Executing(e, "WRITE")
  /\ WriteRow(Connection, e, After)
  /\ IF operation = "createEntities"
       THEN TrySend(e, "read", "READ", Tail(queue))
       ELSE Finish(e, "succeeded", Tail(queue))

(* Mutant of WriteEntityFails: the promise does not settle.                *)
WriteEntityFailsUnsettled(e) ==
  /\ Executing(e, "WRITE")
  /\ DbErrors \/ tx[Connection] = "failed"
  /\ StatementError(Connection)
  /\ queue' = Tail(queue)
  /\ UNCHANGED <<callVars, elementVars>>

WriteEntityFails(e) ==
  /\ Executing(e, "WRITE")
  /\ DbErrors \/ tx[Connection] = "failed"
  /\ StatementError(Connection)
  /\ Fail(e, Tail(queue))

GetEntityById(e) ==
  /\ Executing(e, "READ")
  /\ tx[Connection] # "failed"
  /\ Finish(e, IF Visible(Connection, e) = After THEN "succeeded" ELSE "failed", Tail(queue))
  /\ UNCHANGED serverVars

GetEntityByIdFails(e) ==
  /\ Executing(e, "READ")
  /\ DbErrors \/ tx[Connection] = "failed"
  /\ StatementError(Connection)
  /\ Finish(e, "failed", Tail(queue))

CommitLocalTransaction(e) ==
  /\ Executing(e, "COMMIT")
  /\ Commit(Connection)
  /\ Settle(e, IF element[e] = "commit" THEN "succeeded" ELSE "failed", Tail(queue))

CommitLocalTransactionFails(e) ==
  /\ DbErrors
  /\ Executing(e, "COMMIT")
  /\ CommitError(Connection)
  /\ Fail(e, Tail(queue))

RollbackLocalTransaction(e) ==
  /\ Executing(e, "ROLLBACK")
  /\ Rollback(Connection)
  /\ Settle(e, "failed", Tail(queue))

CreateOrDelete(e) ==
  \/ Hash(e) \/ BeginLocalTransaction(e) \/ BeginLocalTransactionFails(e)
  \/ HooksSucceed(e) \/ HooksFail(e)
  \/ WriteEntity(e) \/ WriteEntityFails(e)
  \/ GetEntityById(e) \/ GetEntityByIdFails(e)
  \/ CommitLocalTransaction(e) \/ CommitLocalTransactionFails(e)
  \/ RollbackLocalTransaction(e)

Next ==
  \/ ExecuteInsideTransaction \/ Release
  \/ BeginGlobalTransaction \/ BeginGlobalTransactionFails
  \/ CommitGlobalTransaction \/ CommitGlobalTransactionFails
  \/ RollbackGlobalTransaction
  \/ \E e \in Rows : CreateOrDelete(e)

Spec == Init /\ [][Next]_vars

(* The database answers, hashing and hooks settle, functions return: every *)
(* behaviour is finite, so that it is enough that it goes on.              *)
FairSpec == Spec /\ WF_vars(Next)

----------------------------------------------------------------------------
(* Properties                                                              *)

(* An answer without error means that every element of the array has been  *)
(* created: no element's failure or delay is passed over by Promise.all.   *)
SuccessMeansAll == response = "ok" => \A e \in Rows : db[e] = After

(* The rows change all at once, in a COMMIT: elements that run next to     *)
(* each other do not commit each other's work.  Elements that had sent     *)
(* nothing when the first one failed are excepted: they go on after the    *)
(* ROLLBACK, in transactions of their own or in none.                      *)
RowsChangeTogether ==
  [][LET changed == {e \in Rows : db'[e] # db[e]}
     IN  \/ changed \subseteq late
         \/ Head(queue).sql = "COMMIT" /\ \A e \in Rows : db'[e] = After]_vars

(* A connection that goes back to the pool has no transaction, and no      *)
(* statement that writes is still queued on it - again unless an element   *)
(* had sent nothing when the first one failed.                             *)
ReleasedClean ==
  call = "released" /\ late = {} =>
    /\ tx[Connection] = "none"
    /\ \A i \in DOMAIN queue : queue[i].sql = "READ"

(* The call ends and so does every element it started.                     *)
BulkCallEnds ==
  <>[](/\ call \in {"released", "thrown"}
       /\ \A e \in Rows : element[e] \in {"ready", "succeeded", "failed"})

(* deleteEntitiesByIds returns nothing or an error                         *)
(* (docs/api/DELETE_ENTITIES).  Its executable returns neither as a pair:  *)
(* executeInsideTransaction throws after the last DELETE and answers       *)
(* nothing, with its transaction open and its connection reserved.         *)
ReturnsNothingOrError == <>(response # "none")
=============================================================================
