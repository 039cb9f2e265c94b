----------------------------- MODULE RecordCycle -----------------------------
(***************************************************************************)
(* The life of the records of one block on a database table in the client: *)
(* the records (model/Record.ts), the cache of the block                   *)
(* (model/DataSourceWrapper.ts), the statements its data source has still  *)
(* to send (DatabaseTable.dirty$), the connection (database/Connection.ts) *)
(* and commit and rollback of the application (FormBacking.ts).            *)
(*                                                                         *)
(* The table is the one of the database server: what is committed, what    *)
(* the transaction of this client sees, and the rows it holds.  Users of   *)
(* other sessions change and delete rows that are not held.  The event     *)
(* stack serialises the events of the user, so that nothing is edited      *)
(* while a request is under way; triggers succeed.                         *)
(***************************************************************************)
EXTENDS Naturals, Sequences, Functions

CONSTANTS
  Rows,            \* primary keys
  Values,          \* contents of the other columns of a row
  Null,            \* content of an empty record
  Gone,            \* content of a row that does not exist
  NoRecord,
  Copies,          \* bound on the Record objects of a row
  LockModes,       \* DatabaseTable.rowlocking: "None", "Optimistic", "Pessimistic"
  Strategies,      \* Block.flushStrategy: "Row", "Block"
  Faults,          \* subset of {"busy", "error", "refused"}, see the actions
  Dates,           \* is the column a date?
  UndoesUnflushed  \* may the user roll back what is not yet flushed?

ASSUME RecordCycleAssumption ==
  /\ Null \notin Values
  /\ Gone \notin Values \cup {Null}
  /\ Copies \in Nat \ {0}
  /\ NoRecord \notin Rows \X (1..Copies)
  /\ LockModes \subseteq {"None", "Optimistic", "Pessimistic"}
  /\ Strategies \subseteq {"Row", "Block"}
  /\ {Dates, UndoesUnflushed} \subseteq BOOLEAN

\* Record objects: a row can be fetched anew while the object of an earlier
\* fetch is still in dirty$.
Record == Rows \X (1..Copies)
Row(i) == i[1]

States == {"New", "Insert", "Inserted", "Delete", "Deleted", "Update",
           "Updated", "Consistent"}

VARIABLES
  rowlocking, strategy, \* settings of the data source and of the block
  committed,            \* the table as other sessions see it
  current,              \* the table as this transaction sees it
  held,                 \* rows locked or written by this transaction
  rec,                  \* the Record objects
  cache,                \* DataSourceWrapper.cache$
  pending,              \* DatabaseTable.dirty$, in the order of the changes
  modified,             \* DataSourceWrapper.modified$
  transaction,          \* Connection.modified: a transaction to end is known
  unvalidated,          \* the record whose row is not validated
  phase,                \* what the client is doing, or waiting for
  goal,                 \* what it does when the flush is over
  batch, answer         \* records whose step is still to execute, and results

settings == <<rowlocking, strategy>>
table == <<committed, current, held>>
block == <<rec, cache, pending, modified, unvalidated>>
request == <<goal, batch, answer>>
vars == <<settings, table, block, transaction, phase, request>>

Blank == [state |-> "New", value |-> Null, initial |-> Null,
          locked |-> FALSE, failed |-> FALSE, dirty |-> FALSE]

Fetched(v) == [Blank EXCEPT !.state = "Consistent", !.value = v, !.initial = v]

\* What is kept of a Record object
Contents == [state : States, value : Values \cup {Null}, initial : Values \cup {Null},
             locked : BOOLEAN, failed : BOOLEAN, dirty : BOOLEAN]

NoAnswer == [i \in Record |-> "none"]

\* Objects that neither the cache nor dirty$ refers to are garbage.
Tidy(R, C, P) == [i \in Record |-> IF i \in C \cup Range(P) THEN R[i] ELSE Blank]

\* DatabaseTable.insert, update, delete: dirty$ has every record once.
Queue(P, i) == IF i \in Range(P) THEN P ELSE Append(P, i)

-----------------------------------------------------------------------------
\* Records

\* Record.setValue: a change makes the record dirty, the initial value makes
\* it clean again.  Dates are compared with themselves, and never make it dirty.
SetValue(x, v) ==
  [x EXCEPT !.value = v,
            !.dirty = IF Dates THEN @ ELSE v # x.initial /\ (@ \/ v # x.value)]

\* Record.setClean
SetClean(x, release) ==
  [x EXCEPT !.initial = x.value, !.dirty = FALSE, !.locked = @ /\ ~release]

\* Mutant: the lock survives a rollback
RestoredLocked(x) == [x EXCEPT !.value = x.initial, !.dirty = FALSE]

\* Record.refresh: back to the initial values
Restored(x) ==
  [x EXCEPT !.value = x.initial, !.dirty = FALSE, !.locked = FALSE]

\* Mutant: the empty answer of a refresh is not noticed
FoundAlways(x, r) == x.initial # Null

\* Statements find their row by the initial values of the primary key.
Found(x, r) == x.initial # Null /\ current[r] # Gone

\* DataSourceWrapper.refresh, DatabaseTable.refresh
Refreshed(x, r) ==
  CASE x.state \in {"Delete", "Deleted"} -> x
    [] x.state \in {"New", "Insert"} -> [Blank EXCEPT !.failed = x.failed]
    [] OTHER -> IF Found(x, r)
                THEN [Fetched(current[r]) EXCEPT !.failed = x.failed]
                ELSE [Restored(x) EXCEPT !.state = "Delete"]

\* DatabaseTable.process: what a failed statement does to its record
Failed(x, r, a) ==
  [IF a \in {"changed", "busy"} THEN Refreshed(x, r) ELSE x
     EXCEPT !.failed = TRUE, !.locked = FALSE]

\* DataSourceWrapper.flush: the statement of a record has succeeded
Flushed(x) ==
  SetClean([x EXCEPT !.state = CASE @ \in {"Insert", "Inserted"} -> "Inserted"
                                 [] @ = "Update" -> "Updated"
                                 [] OTHER -> "Deleted"], FALSE)

\* DataSourceWrapper.modified(record,false)
Modified(x) ==
  [x EXCEPT !.failed = FALSE,
            !.state = CASE ~x.dirty -> @
                        [] @ = "New" -> "Insert"
                        [] @ \in {"Update", "Updated", "Consistent"} -> "Update"
                        [] OTHER -> @]

\* Mutant: a record that was inserted or updated before is not queued again
QueuedOnce(x) == x.dirty /\ x.state \notin {"Delete", "Deleted", "Inserted", "Updated"}

\* DataSourceWrapper.modified: does the data source learn of the change?
Queued(x) == x.dirty /\ x.state \notin {"Delete", "Deleted"}

\* Mutant: the insert of a record is taken for its later updates
StatementOnce(x) ==
  CASE x.failed \/ x.state \in {"Deleted", "Inserted"} -> "none"
    [] x.state = "Insert" -> "insert"
    [] x.state = "Delete" -> "delete"
    [] OTHER -> IF x.dirty THEN "update" ELSE "none"

\* The statement DatabaseTable.flush sends for a record of dirty$
Statement(x) ==
  CASE x.failed \/ x.state = "Deleted" -> "none"
    [] x.state = "Insert" -> "insert"
    [] x.state = "Delete" -> "delete"
    [] OTHER -> IF x.dirty THEN "update" ELSE "none"

\* DataSourceWrapper.locked
Locked(x) == rowlocking = "None" \/ x.state \in {"New", "Insert"} \/ x.locked

\* The assertion of a lock, update or delete, checked on the server by Rest.select:
\* the row still has the initial values of the record.
Assertion(x, r) == CASE ~Found(x, r) -> "gone"
                     [] current[r] # x.initial -> "changed"
                     [] OTHER -> "ok"

-----------------------------------------------------------------------------
\* The block

\* The objects of a row that dirty$ does not refer to, and a new one
Free(r) == ({r} \X (1..Copies)) \ Range(pending)
Object(r) == CHOOSE i \in Free(r) : TRUE

\* The objects a query creates for the rows of the table
Fresh == {Object(r) : r \in {s \in Rows : current[s] # Gone}}

\* Block.executeQuery: the cache is what the query returns; dirty$ stays.
ShowQuery(R) ==
  /\ cache' = Fresh
  /\ rec' = [i \in Record |-> IF i \in Fresh THEN Fetched(current[Row(i)])
                              ELSE IF i \in Range(pending) THEN R[i] ELSE Blank]

Init ==
  /\ rowlocking \in LockModes
  /\ strategy \in Strategies
  /\ committed \in [Rows -> Values \cup {Gone}]
  /\ current = committed
  /\ held = {}
  /\ cache = {<<r,1>> : r \in {s \in Rows : current[s] # Gone}}
  /\ rec = [i \in Record |-> IF i \in cache THEN Fetched(current[Row(i)]) ELSE Blank]
  /\ pending = <<>>
  /\ modified = FALSE
  /\ transaction = FALSE
  /\ unvalidated = NoRecord
  /\ phase = "idle"
  /\ goal = "idle"
  /\ batch = {}
  /\ answer = NoAnswer

\* Bound: changes that would leave no object for the next query are not made.
Bounded(i) == Free(Row(i)) \ {i} # {}

\* The user handles one record at a time: its row is validated when it is left.
AtRecord(i) ==
  /\ phase = "idle"
  /\ i \in cache
  /\ unvalidated \in {NoRecord, i}
  /\ Bounded(i)

\* A row whose record failed stays unvalidated when rows are flushed one by one.
Stays(R, u) == strategy = "Row" /\ u # NoRecord /\ R[u].failed

\* DataSourceWrapper.flush, DatabaseTable.flush up to the call of the server, with
\* the records R, cache C and dirty$ P, on the way to what g says.
StartFlush(R, C, P, u, g) ==
  LET Q == [i \in Record |-> IF i \in C /\ R[i].state = "New"
                             THEN [R[i] EXCEPT !.state = "Insert"] ELSE R[i]]
      B == {i \in Range(P) : Statement(Q[i]) # "none"}
  IN /\ cache' = C
     /\ batch' = B
     /\ \/ /\ B = {}
           /\ rec' = Tidy(Q, C, <<>>)
           /\ pending' = <<>>
           /\ unvalidated' = IF Stays(Q, u) THEN u ELSE NoRecord
           /\ phase' = IF Stays(Q, u) THEN "idle" ELSE g
           /\ UNCHANGED goal
        \/ /\ B # {}
           /\ rec' = Tidy(Q, C, P)
           /\ pending' = P
           /\ unvalidated' = u
           /\ phase' = "flush"
           /\ goal' = g

\* Record after Block.validateRecord of the row the user is on
Validated == IF unvalidated = NoRecord THEN rec
             ELSE [rec EXCEPT ![unvalidated] = Modified(@)]

PendingValidated ==
  IF unvalidated # NoRecord /\ Queued(rec[unvalidated])
  THEN Queue(pending, unvalidated) ELSE pending

\* Block.validateRecord, Block.flush
Flush(g) ==
  /\ phase = "idle"
  /\ modified' = (modified \/ PendingValidated # pending)
  /\ StartFlush(Validated, cache, PendingValidated, unvalidated, g)
  /\ UNCHANGED <<settings, table, transaction, answer>>

-----------------------------------------------------------------------------
\* The user and other sessions

\* Another session changes or deletes a row and commits.
OtherCommit(r) ==
  /\ r \notin held
  /\ committed[r] # Gone
  /\ \E v \in (Values \cup {Gone}) \ {committed[r]} :
       /\ committed' = [committed EXCEPT ![r] = v]
       /\ current' = [current EXCEPT ![r] = v]
  /\ UNCHANGED <<settings, held, block, transaction, phase, request>>

\* Block.insert: a new record with key r
NewRecord(r) ==
  /\ phase = "idle"
  /\ unvalidated = NoRecord
  /\ \A i \in cache : Row(i) # r
  /\ Bounded(Object(r))
  /\ cache' = cache \cup {Object(r)}
  /\ rec' = [rec EXCEPT ![Object(r)] = Blank]
  /\ unvalidated' = Object(r)
  /\ modified' = TRUE
  /\ UNCHANGED <<settings, table, pending, transaction, phase, request>>

\* view/Block.onEdit, validateField: an edit of a record that needs no lock
Edit(i) ==
  /\ AtRecord(i)
  /\ Locked(rec[i]) \/ rowlocking = "Optimistic"
  /\ \E v \in Values \ {rec[i].value} :
       rec' = [rec EXCEPT ![i] = SetValue(@, v)]
  /\ modified' = TRUE
  /\ unvalidated' = i
  /\ UNCHANGED <<settings, table, cache, pending, transaction, phase, request>>

\* Mutant: only a lock that is granted starts a transaction
StartsIfLocked(a) == a = "ok"

\* Connection.lock: the answers that make a transaction known
Starts(a) == a \in {"ok", "changed", "gone"}

\* DataSourceWrapper.lock, DatabaseTable.lock: select for update, with assertion,
\* and its answer.  A row that exists is held even when the assertion fails; one
\* that another session holds is not waited for.
LockRow(i, a) ==
  /\ AtRecord(i)
  /\ rowlocking = "Pessimistic"
  /\ ~Locked(rec[i])
  /\ \/ a = Assertion(rec[i], Row(i))
     \/ a = "error" /\ "busy" \in Faults /\ Row(i) \notin held
  /\ held' = IF a \in {"ok", "changed"} THEN held \cup {Row(i)} ELSE held
  /\ transaction' = (transaction \/ Starts(a))
  /\ modified' = TRUE

\* view/Block.onEdit, lock: the lock is granted and the record edited, or it is
\* refused and the record refreshed.
LockAndEdit(i) ==
  /\ \E a \in {"ok", "changed", "gone", "error"} :
       /\ LockRow(i, a)
       /\ \/ /\ a = "ok"
             /\ \E v \in Values \ {rec[i].value} :
                  rec' = [rec EXCEPT ![i] = SetValue([@ EXCEPT !.locked = TRUE], v)]
             /\ unvalidated' = i
          \/ /\ a # "ok"
             /\ rec' = [rec EXCEPT ![i] =
                  Refreshed(Failed(rec[i], Row(i), a), Row(i))]
             /\ UNCHANGED unvalidated
  /\ UNCHANGED <<settings, committed, current, cache, pending, phase, request>>

\* Record.setDirty and the reset of "failed" that start every delete
Deleting(x) == [x EXCEPT !.dirty = TRUE, !.failed = FALSE]

\* DataSourceWrapper.modified(record,true), delete: an unlocked record is locked
\* first; one that was never flushed is only dropped.
DeleteFrom(i, x) ==
  LET dropped == x.state \in {"New", "Insert"}
      R == [rec EXCEPT ![i] =
              [x EXCEPT !.state = IF dropped THEN "Deleted" ELSE "Delete"]]
      C == cache \ {i}
      P == IF dropped THEN pending ELSE Queue(pending, i)
  IN IF strategy = "Row"
     THEN StartFlush(R, C, P, NoRecord, "idle")
     ELSE /\ cache' = C
          /\ pending' = P
          /\ rec' = Tidy(R, C, P)
          /\ unvalidated' = NoRecord
          /\ UNCHANGED <<phase, goal, batch>>

DeleteRecord(i) ==
  /\ AtRecord(i)
  /\ Locked(rec[i]) \/ rowlocking = "Optimistic"
  /\ modified' = TRUE
  /\ DeleteFrom(i, Deleting(rec[i]))
  /\ UNCHANGED <<settings, table, transaction, answer>>

LockAndDelete(i) ==
  /\ \E a \in {"ok", "changed", "gone", "error"} :
       /\ LockRow(i, a)
       /\ \/ /\ a = "ok"
             /\ DeleteFrom(i, [Deleting(rec[i]) EXCEPT !.locked = TRUE])
          \/ /\ a # "ok"
             /\ rec' = [rec EXCEPT ![i] = Failed(Deleting(@), Row(i), a)]
             /\ UNCHANGED <<cache, pending, unvalidated, phase, goal, batch>>
  /\ UNCHANGED <<settings, committed, current, answer>>

\* Block.refresh(0,true): the refresh key
RefreshRecord(i) ==
  /\ AtRecord(i)
  /\ rec' = [rec EXCEPT ![i] = [Refreshed(@, Row(i)) EXCEPT !.failed = FALSE]]
  /\ UNCHANGED <<settings, table, cache, pending, modified, unvalidated,
                 transaction, phase, request>>

\* Row.validate, Block.validateRecord: the user leaves the row
LeaveRow ==
  /\ strategy = "Block"
  /\ phase = "idle"
  /\ unvalidated # NoRecord
  /\ rec' = Validated
  /\ pending' = PendingValidated
  /\ modified' = (modified \/ PendingValidated # pending)
  /\ unvalidated' = NoRecord
  /\ UNCHANGED <<settings, table, cache, transaction, phase, request>>

\* The user leaves the block (with strategy "Row" the row is enough).
LeaveBlock ==
  /\ unvalidated # NoRecord \/ pending # <<>>
  /\ Flush("idle")

\* Form.executeQuery with flush; what flush answers is not looked at.
Query == Flush("query")

\* FormBacking.commit: validate and flush
Commit == Flush("commit")

-----------------------------------------------------------------------------
\* The batch, on the server (Rest.batch and Rest.update, one step at a time)

\* Mutant: deletes are not asserted
AssertedUpdate(x) == rowlocking # "None" /\ ~x.locked /\ Statement(x) = "update"

\* A record that is not locked is asserted before it is changed.
Asserted(x) == rowlocking # "None" /\ ~x.locked /\ Statement(x) # "insert"

\* Steps are executed in the order of dirty$.
Turn(i) ==
  /\ i \in batch
  /\ \E n \in 1..Len(pending) :
       pending[n] = i /\ \A m \in 1..(n - 1) : pending[m] \notin batch

Step(i, a) ==
  /\ phase = "flush"
  /\ Turn(i)
  /\ batch' = batch \ {i}
  /\ answer' = [answer EXCEPT ![i] = a]
  /\ UNCHANGED <<settings, committed, block, transaction, phase, goal>>

\* The row is not what the record shows; the lock of the assertion stays.
AssertionFails(i) ==
  /\ Asserted(rec[i])
  /\ Assertion(rec[i], Row(i)) # "ok"
  /\ Step(i, Assertion(rec[i], Row(i)))
  /\ held' = IF Assertion(rec[i], Row(i)) = "gone" THEN held
             ELSE held \cup {Row(i)}
  /\ UNCHANGED current

\* The assertion does not wait for another session that holds the row.
RowIsBusy(i) ==
  /\ "busy" \in Faults
  /\ Asserted(rec[i])
  /\ Row(i) \notin held
  /\ Step(i, "busy")
  /\ UNCHANGED <<current, held>>

\* The database refuses the statement: a duplicate or missing key, or some constraint.
StatementFails(i) ==
  LET x == rec[i]
      key == Statement(x) = "insert" /\ (x.value = Null \/ current[Row(i)] # Gone)
  IN /\ key \/ "error" \in Faults
     /\ Asserted(x) => Assertion(x, Row(i)) = "ok"
     /\ Step(i, "error")
     /\ UNCHANGED <<current, held>>

\* The statement is executed; one that finds no row succeeds too.
StatementSucceeds(i) ==
  LET x == rec[i]
      r == Row(i)
  IN /\ Asserted(x) => Assertion(x, r) = "ok"
     /\ Statement(x) = "insert" => x.value # Null /\ current[r] = Gone
     /\ Step(i, "ok")
     /\ IF Statement(x) = "insert" \/ Found(x, r)
        THEN /\ current' = [current EXCEPT ![r] =
                              IF Statement(x) = "delete" THEN Gone ELSE x.value]
             /\ held' = held \cup {r}
        ELSE UNCHANGED <<current, held>>

-----------------------------------------------------------------------------
\* The answers, in the client

\* DataSourceWrapper.flush, DatabaseTable.flush from the answer on, Connection.batch
ReceiveBatch ==
  LET R == [i \in Record |->
              CASE answer[i] = "none" -> rec[i]
                [] answer[i] = "ok"   -> Flushed(rec[i])
                [] OTHER              -> Failed(rec[i], Row(i), answer[i])]
  IN /\ phase = "flush"
     /\ batch = {}
     /\ rec' = Tidy(R, cache, <<>>)
     /\ pending' = <<>>
     /\ transaction' = TRUE
     /\ answer' = NoAnswer
     /\ unvalidated' = IF Stays(R, unvalidated) THEN unvalidated ELSE NoRecord
     /\ phase' = IF Stays(R, unvalidated) THEN "idle" ELSE goal
     /\ goal' = "idle"
     /\ UNCHANGED <<settings, table, cache, modified, batch>>

\* The server refuses the batch as a whole, and nothing is executed: there are no
\* steps in the answer, reading it throws, and the flush has failed.
RefuseBatch ==
  /\ "refused" \in Faults
  /\ phase = "flush"
  /\ answer = NoAnswer
  /\ batch' = {}
  /\ unvalidated' = IF strategy = "Row" THEN unvalidated ELSE NoRecord
  /\ phase' = IF goal = "query" /\ unvalidated' = NoRecord THEN "query" ELSE "idle"
  /\ goal' = "idle"
  /\ UNCHANGED <<settings, table, rec, cache, pending, modified, transaction, answer>>

\* Block.executeQuery
ReceiveQuery ==
  /\ phase = "query"
  /\ ShowQuery(rec)
  /\ phase' = "idle"
  /\ UNCHANGED <<settings, table, pending, modified, unvalidated, transaction, request>>

\* Connection.commit: nothing is sent when no transaction is known.
SendCommit ==
  /\ phase = "commit"
  /\ \/ /\ transaction
        /\ committed' = current
        /\ held' = {}
     \/ /\ ~transaction
        /\ UNCHANGED <<committed, held>>
  /\ phase' = "sync"
  /\ UNCHANGED <<settings, current, block, transaction, request>>

RefuseCommit ==
  /\ "refused" \in Faults
  /\ phase = "commit"
  /\ transaction
  /\ phase' = "idle"
  /\ UNCHANGED <<settings, table, block, transaction, request>>

\* Form.synchronize, DataSourceWrapper.setSynchronized
Synchronize ==
  /\ phase = "sync"
  /\ rec' = [i \in Record |-> IF i \in cache
                THEN [SetClean(rec[i], TRUE) EXCEPT !.state = "Consistent"]
                ELSE rec[i]]
  /\ modified' = FALSE
  /\ transaction' = FALSE
  /\ phase' = "idle"
  /\ UNCHANGED <<settings, table, cache, pending, unvalidated, request>>

\* FormBacking.rollback, of the user or of Connection.keepalive; the forms are
\* undone even when the connection could not roll back.
Rollback ==
  /\ phase = "idle"
  /\ pending = <<>> \/ UndoesUnflushed
  /\ \/ /\ transaction
        /\ current' = committed
        /\ held' = {}
        /\ transaction' = FALSE
     \/ /\ ~transaction \/ "refused" \in Faults
        /\ UNCHANGED <<current, held, transaction>>
  /\ phase' = "undo"
  /\ UNCHANGED <<settings, committed, block, request>>

\* Form.undo, DatabaseTable.undo, and the query of an undone block
Undo ==
  /\ phase = "undo"
  /\ \/ /\ modified
        /\ ShowQuery([i \in Record |-> Restored(rec[i])])
     \/ /\ ~modified
        /\ rec' = [i \in Record |-> IF i \in cache THEN SetClean(rec[i], TRUE)
                                    ELSE rec[i]]
        /\ UNCHANGED cache
  /\ modified' = FALSE
  /\ unvalidated' = NoRecord
  /\ phase' = "idle"
  /\ UNCHANGED <<settings, table, pending, transaction, request>>

Next ==
  \/ \E r \in Rows : OtherCommit(r) \/ NewRecord(r)
  \/ \E i \in Record :
       \/ Edit(i) \/ LockAndEdit(i)
       \/ DeleteRecord(i) \/ LockAndDelete(i)
       \/ RefreshRecord(i)
       \/ AssertionFails(i) \/ RowIsBusy(i)
       \/ StatementFails(i) \/ StatementSucceeds(i)
  \/ LeaveRow \/ LeaveBlock \/ Query \/ Commit \/ Rollback
  \/ ReceiveBatch \/ RefuseBatch \/ ReceiveQuery
  \/ SendCommit \/ RefuseCommit \/ Synchronize \/ Undo

Spec == Init /\ [][Next]_vars

-----------------------------------------------------------------------------
(* Properties *)

\* Types; Gone is never shown, and only rows of the batch have an answer.
TypeOK ==
  /\ rowlocking \in LockModes
  /\ strategy \in Strategies
  /\ committed \in [Rows -> Values \cup {Gone}]
  /\ current \in [Rows -> Values \cup {Gone}]
  /\ held \subseteq Rows
  /\ rec \in [Record -> Contents]
  /\ cache \subseteq Record
  /\ pending \in Seq(Record)
  /\ batch \subseteq Range(pending)
  /\ {modified, transaction} \subseteq BOOLEAN
  /\ unvalidated \in cache \cup {NoRecord}
  /\ phase \in {"idle", "flush", "query", "commit", "sync", "undo"}
  /\ goal \in {"idle", "query", "commit"}
  /\ answer \in [Record -> {"none", "ok", "changed", "gone", "busy", "error"}]

\* What other sessions committed is never overwritten unseen: a row that this
\* transaction does not hold yet is updated or deleted only while it has the values
\* the record shows as fetched (lock, assertions, DatabaseTable.process).  Without
\* row locking nothing is asserted.
NoLostUpdate ==
  [][\A i \in batch \ batch' :
       /\ current'[Row(i)] # current[Row(i)]
       /\ Statement(rec[i]) # "insert"
       /\ rowlocking # "None"
       => Row(i) \in held \/ current[Row(i)] = rec[i].initial]_vars

\* Client and server agree on what is locked.  A record the client takes for locked,
\* and therefore neither locks nor asserts, has its row locked: commit, rollback,
\* refresh and failures reset the flag before the next edit (Record.locked, setClean).
\* While the server holds locks or changes, the client knows that there is a
\* transaction: commit and rollback send nothing otherwise (Connection.modified).
LocksAgree ==
  /\ phase \notin {"sync", "undo"} =>
       \A i \in cache \cup Range(pending) : rec[i].locked => Row(i) \in held
  /\ held # {} => transaction \/ phase \in {"flush", "sync"}

\* No edit is forgotten: a validated record that differs from what was fetched or
\* flushed waits in dirty$, or is marked as failed.  The exception is a record whose
\* refresh found no row: the user was told, and its edits are not looked at.
NothingForgotten ==
  \A i \in cache :
    /\ i # unvalidated
    /\ ~rec[i].failed
    /\ rec[i].state \notin {"Delete", "Deleted"}
    /\ rec[i].value # rec[i].initial
    => i \in Range(pending)

\* A commit saves what the block shows: every record that was flushed or edited,
\* and has not failed, has its value in the table (FormBacking.commit).
CommitSaves ==
  [][phase = "commit" /\ phase' = "sync" =>
       \A i \in cache :
         /\ ~rec[i].failed
         /\ rec[i].state \notin {"Delete", "Deleted"}
         /\ rowlocking # "None"
         /\ rec[i].state \in {"Inserted", "Updated"} \/ rec[i].value # rec[i].initial
         => committed'[Row(i)] = rec[i].value]_vars

\* A row is deleted by this client only when the user took its record out of the
\* block, and did not get it back by a rollback.
DeletesAreAsked ==
  [][\A i \in batch \ batch' :
       current[Row(i)] # Gone /\ current'[Row(i)] = Gone
         => \A j \in cache : Row(j) = Row(i)
                                => rec[j].state \in {"New", "Insert"}]_vars

=============================================================================
