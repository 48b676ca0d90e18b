----------------------------- MODULE SqlServer -----------------------------
(***************************************************************************)
(* The relational database behind AbstractSqlDataStore, as the data store  *)
(* uses it: one transaction at a time per connection, row locks that a     *)
(* transaction keeps until it ends, statements outside a transaction that  *)
(* commit by themselves, and PostgreSQL's rule that a failing statement    *)
(* aborts the transaction it ran in.  External to the repository: what is  *)
(* modelled is what src/datastore relies on.                               *)
(*                                                                         *)
(* A row is represented by its "version" column; 0 means no such row.      *)
(***************************************************************************)
EXTENDS Integers

CONSTANTS Conns,        \* the connections of the pool
          Rows,         \* the identities of the entities that are stored
          MaxVersion,   \* bound on the version column
          NoConn        \* "no connection"

ASSUME NoConnAssumption == NoConn \notin Conns
ASSUME MaxVersionAssumption == MaxVersion \in Nat \ {0}

VARIABLES
  db,     \* db[row]: the committed version of the row
  tx,     \* tx[c]: state of the transaction of connection c
  pend,   \* pend[c][row]: version written by c's transaction, or NoWrite
  lock    \* lock[row]: the connection whose transaction locks the row

serverVars == <<db, tx, pend, lock>>

Versions == 0..MaxVersion
NoWrite == -1
TxStates == {"none", "active", "failed"}

ServerTypeOK ==
  /\ db \in [Rows -> Versions]
  /\ tx \in [Conns -> TxStates]
  /\ pend \in [Conns -> [Rows -> Versions \union {NoWrite}]]
  /\ lock \in [Rows -> Conns \union {NoConn}]

ServerInit ==
  /\ db = [row \in Rows |-> 1]
  /\ tx = [c \in Conns |-> "none"]
  /\ pend = [c \in Conns |-> [row \in Rows |-> NoWrite]]
  /\ lock = [row \in Rows |-> NoConn]

----------------------------------------------------------------------------

(* What a statement on connection c reads.                                 *)
Visible(c, row) == IF pend[c][row] # NoWrite THEN pend[c][row] ELSE db[row]

(* A statement that locks the row waits while another transaction has it.  *)
LockAvailable(c, row) == lock[row] \in {NoConn, c}

(* BEGIN.  Inside an open transaction it is a warning and changes nothing. *)
Begin(c) ==
  /\ tx[c] # "failed"
  /\ tx' = [tx EXCEPT ![c] = "active"]
  /\ UNCHANGED <<db, pend, lock>>

EndTransaction(c) ==
  /\ tx' = [tx EXCEPT ![c] = "none"]
  /\ pend' = [pend EXCEPT ![c] = [row \in Rows |-> NoWrite]]
  /\ lock' = [row \in Rows |-> IF lock[row] = c THEN NoConn ELSE lock[row]]

(* COMMIT.  Of a failed transaction it is a rollback, reported as success. *)
Commit(c) ==
  /\ db' = IF tx[c] = "active" THEN [row \in Rows |-> Visible(c, row)] ELSE db
  /\ EndTransaction(c)

Rollback(c) ==
  /\ EndTransaction(c)
  /\ UNCHANGED db

(* COMMIT whose answer is an error: either it took effect or it did not.   *)
CommitError(c) == Commit(c) \/ Rollback(c)

(* SELECT ... FOR UPDATE of an existing row.                               *)
LockRow(c, row) ==
  /\ tx[c] # "failed"
  /\ LockAvailable(c, row)
  /\ lock' = IF tx[c] = "active" THEN [lock EXCEPT ![row] = c] ELSE lock
  /\ UNCHANGED <<db, tx, pend>>

(* INSERT, UPDATE or DELETE that leaves the row with version v.            *)
WriteRow(c, row, v) ==
  /\ tx[c] # "failed"
  /\ LockAvailable(c, row)
  /\ IF tx[c] = "active"
       THEN /\ pend' = [pend EXCEPT ![c][row] = v]
            /\ lock' = [lock EXCEPT ![row] = c]
            /\ UNCHANGED <<db, tx>>
       ELSE /\ db' = [db EXCEPT ![row] = v]
            /\ UNCHANGED <<tx, pend, lock>>

(* A statement that fails aborts the transaction it is part of.            *)
StatementError(c) ==
  /\ tx' = [tx EXCEPT ![c] = IF @ = "none" THEN "none" ELSE "failed"]
  /\ UNCHANGED <<db, pend, lock>>
=============================================================================
