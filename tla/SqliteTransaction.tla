------------------------- MODULE SqliteTransaction --------------------------
(***************************************************************************)
(* maidsafe::sqlite::Database, Transaction and Statement                   *)
(* (sqlite3_wrapper.h, .cc): processes that write to one SQLite file, each *)
(* through a connection of its own.  SQLite is external: one connection at *)
(* a time is in a transaction that BEGIN IMMEDIATE began, and what it has  *)
(* written is in the file once COMMIT succeeds.                            *)
(***************************************************************************)
EXTENDS Integers

CONSTANTS
  Connections, NoConnection,
  kAttempts,
  MaxRows \* bound: rows written

ASSUME ConnectionsAssumption == NoConnection \notin Connections

\* content: the rows of the file; writer: the connection in a transaction, and pending
\* what it has written there; at: what the owner of a connection is doing; tries: the
\* loop counter; committed: the member of the Transaction; mine: history of what was
\* written through it; done: history of what was committed.
VARIABLE db

Each(x) == [c \in Connections |-> x]
SqliteInit ==
  db = [content |-> {}, writer |-> NoConnection, pending |-> {}, at |-> Each("idle"),
        tries |-> Each(0), committed |-> Each(FALSE), mine |-> Each({}),
        rows |-> 0, done |-> {}]

ConnectionGoes(d, c, label) == [d EXCEPT !.at[c] = label, !.tries[c] = 0]
RolledBack(d) == [d EXCEPT !.writer = NoConnection, !.pending = {}]

MakeTransaction(c) ==
  db.at[c] = "idle" /\ db' = [ConnectionGoes(db, c, "beginning") EXCEPT !.mine[c] = {}]

Retry(d, c) ==
  IF d.tries[c] + 1 < kAttempts THEN [d EXCEPT !.tries[c] = @ + 1]
  ELSE ConnectionGoes(d, c, IF d.at[c] = "beginning" THEN "idle" ELSE "failed")

\* The constructor leaves committed with the value its memory happens to have.  An
\* attempt fails while any connection, this one too, is in a transaction; a
\* file that is no database is not tried again.
Begin(c) ==
  /\ db.at[c] = "beginning"
  /\ \/ /\ db.writer = NoConnection
        /\ \E garbage \in BOOLEAN :
             db' = [ConnectionGoes(db, c, "open") EXCEPT !.writer = c, !.committed[c] = garbage]
     \/ db.writer # NoConnection /\ db' = Retry(db, c)
     \/ db.writer = NoConnection /\ db' = ConnectionGoes(db, c, "idle")

Step(c) ==
  /\ db.at[c] = "open" /\ db.rows < MaxRows
  /\ LET row == db.rows + 1
     IN db' = [db EXCEPT !.rows = row, !.pending = @ \cup {row}, !.mine[c] = @ \cup {row}]

Commit(c) == db.at[c] = "open" /\ db' = ConnectionGoes(db, c, "committing")

\* Faulty: that no transaction is active any more is taken for success.
CommitIfActive(d, c) ==
  [ConnectionGoes(d, c, "committed") EXCEPT !.committed[c] = TRUE, !.done = @ \cup d.mine[c],
     !.content = @ \cup (IF d.writer = c THEN d.pending ELSE {}), !.writer = NoConnection,
     !.pending = {}]
CommitOutcome(d, c) == IF d.writer = c THEN CommitIfActive(d, c) ELSE Retry(d, c)

\* COMMIT succeeds, fails and leaves the transaction as it is (busy), or fails and
\* SQLite rolls back by itself (disk full), after which the retries fail too.
ExecuteCommit(c) ==
  /\ db.at[c] = "committing"
  /\ \/ db' = CommitOutcome(db, c)
     \/ db.writer = c /\ db' = Retry(db, c)
     \/ db.writer = c /\ db' = Retry(RolledBack(db), c)

\* The destructor does nothing if committed is set, whoever set it; a ROLLBACK with no
\* transaction to end is an error that is logged.
DestroyTransaction(c) ==
  /\ db.at[c] \in {"open", "failed", "committed"}
  /\ db' = ConnectionGoes(IF ~db.committed[c] /\ db.writer = c THEN RolledBack(db) ELSE db, c, "idle")

\* The connection is closed, or its process dies, and it is opened again.
Reopen(c) == db' = ConnectionGoes(IF db.writer = c THEN RolledBack(db) ELSE db, c, "idle")

SqliteNext ==
  \E c \in Connections :
    \/ MakeTransaction(c) \/ Begin(c)
    \/ Step(c)
    \/ Commit(c) \/ ExecuteCommit(c)
    \/ DestroyTransaction(c)
    \/ Reopen(c)

SqliteSpec == SqliteInit /\ [][SqliteNext]_db

-----------------------------------------------------------------------------
\* The file holds what was written through the transactions whose Commit returned and
\* nothing else, whatever was retried, given up, destroyed or cut off.
CommittedOrNothing == db.content = db.done
=============================================================================
