----------------------------- MODULE TaskTables -----------------------------
(***************************************************************************)
(* The worker's SQLite file: BocloudWorkerDB (bocloud_worker_db.py) on top *)
(* of BaseSqliteDB (sqlite_db.py), whose insert, update and delete execute *)
(* one statement, commit it, and execute it again while the database is    *)
(* locked.  Several threads of several processes share the file, each with *)
(* a connection of its own.  SQLite itself is external: one transaction    *)
(* writes at a time, the others still read the committed tables, a commit  *)
(* fails while others read and leaves its transaction open, closing a      *)
(* connection rolls back, and an id is never given twice.                  *)
(*                                                                         *)
(* Which operation is called when is the business of JobExec: here each is *)
(* called in any order for a queue that has a status row.  init_request    *)
(* stores every request, those of a queue that is there already too.       *)
(***************************************************************************)
EXTENDS Integers, FiniteSets, Sequences

CONSTANTS
  Conns,        \* the connections, each of one thread of one process
  Queues,       \* the queues of the requests
  Hosts,        \* the target machines
  HostList,     \* the hosts of the job of a queue, in the request's order
  Called,       \* the operations that are called
  RetryTime,    \* retry_time
  MaxCalls,     \* bound: how many operations are called
  MaxBusy,      \* bound: how many commits find the database locked
  MaxCrashes    \* bound: how many processes die in an operation

NoOne == "no connection"

Ops == {"submit", "mark", "result", "summary", "finish", "fail", "respond", "respond failure", "cleanup", "refresh"}

ASSUME TablesAssumption ==
  /\ HostList \in [Queues -> Seq(Hosts) \ {<<>>}]
  /\ Called \subseteq Ops
  /\ NoOne \notin Conns
  /\ RetryTime \in Nat /\ MaxCalls \in Nat /\ MaxBusy \in Nat /\ MaxCrashes \in Nat

VARIABLES
  db,         \* the committed tables
  tx,         \* the tables as the open transaction has them
  writer,     \* the connection with an open transaction
  op,         \* the operation a connection executes, and its next statement
  stage,      \* where the loop of that statement is
  arg,        \* the row the lookup before the statement returned
  count,      \* insert, update, delete: count
  commits,    \* commit: count
  outcome,    \* history: how the last operation of a connection ended
  asked,      \* history: the calls of insert_async_task_result, by queue
  stored,     \* history: those that returned, by queue
  exhausted,  \* history: a commit used up its retries
  deleted,    \* history: a delete was committed
  calls,      \* operations called so far
  busy,       \* commits that found the database locked
  crashes     \* processes that died

history == <<asked, stored, exhausted, deleted>>
budgets == <<calls, busy, crashes>>
vars == <<db, tx, writer, op, stage, arg, count, commits, outcome, history, budgets>>

TASK_NEW == 0
TASK_RUNNING == 1
TASK_COMPLETE == 2

Idle == [name |-> "none", queue |-> "none", host |-> "none", next |-> 1]
NoRow == [id |-> 0]

EmptyTables ==
  [requests |-> {}, status |-> {}, results |-> {}, lastRequest |-> 0, lastTask |-> 0, lastResult |-> 0]

----------------------------------------------------------------------------
(* The queries. *)

RequestsOf(t, q) == {r \in t.requests : r.queue = q}

StatusOf(t, q) == {s \in t.status : \E r \in RequestsOf(t, q) : s.request_id = r.id}

ResultsOf(t, q) == {r \in t.results : \E s \in StatusOf(t, q) : r.task_id = s.id}

(* fetchall returns the rows by id, and every caller takes row[0]. *)
FirstRow(rs) == CHOOSE r \in rs : \A o \in rs : r.id <= o.id

(* get_task_id_by_queue does not pass the association of its tables to select. *)
UnjoinedStatus(t, q) == IF RequestsOf(t, q) = {} THEN {} ELSE t.status

(* _generate_where_clause: "a AND b AND target=? OR target=? ...". *)
Where(r, ands, targets) ==
  \/ /\ \A f \in DOMAIN ands : r[f] = ands[f]
     /\ targets # <<>> => r.target = targets[1]
  \/ \E i \in 2..Len(targets) : r.target = targets[i]

----------------------------------------------------------------------------
(* The statements of an operation, the lookup before each, and their effect. *)

Statements(name) ==
  CASE name = "submit"  -> <<"insert request", "insert status">>
    [] name = "mark"    -> <<"update running">>
    [] name = "result"  -> <<"insert result">>
    [] name = "summary" -> <<"insert summary">>
    [] name = "finish"  -> <<"update complete">>
    [] name = "fail"    -> <<"insert failure", "update complete", "commit">>
    [] name = "respond" -> <<"update request">>
    [] name = "respond failure" -> <<"update request", "update failed">>
    [] name = "cleanup" -> <<"delete unvalid">>
    [] name = "refresh" -> <<"delete by request">>
    [] OTHER            -> <<>>

(* Mutant: every operation commits each of its statements. *)
AlwaysCommits(name) == TRUE

(* handle_job_exception passes commit=False to both of its statements. *)
Commits(name) == name # "fail"

Statement(c) == Statements(op[c].name)[op[c].next]

View(c) == IF writer = c THEN tx ELSE db

(* Mutant: set_task_as_finished uses the unjoined lookup of get_task_id_by_queue. *)
LookupUnjoined(t, s, q) ==
  CASE s \in {"delete unvalid", "update complete"} -> UnjoinedStatus(t, q)
    [] s \in {"update running", "update failed", "insert result", "insert summary", "insert failure"} -> StatusOf(t, q)
    [] OTHER -> RequestsOf(t, q)

(* The rows whose first gives the statement its id. *)
Lookup(t, s, q) ==
  CASE s \in {"update running", "update failed", "insert result", "insert summary", "insert failure"} -> StatusOf(t, q)
    [] s = "delete unvalid" -> UnjoinedStatus(t, q)
    [] OTHER -> RequestsOf(t, q)

(* Mutant: insert returns the -1 last_autonum starts with. *)
InsertedIdUnset(t) == -1

(* insert returns cursor.lastrowid, read after the commit. *)
InsertedId(t) == t.lastRequest

InsertRequest(t, q) ==
  [t EXCEPT !.lastRequest = @ + 1,
            !.requests = @ \cup {[id |-> t.lastRequest + 1, queue |-> q, responded |-> FALSE]}]

InsertStatus(t, requestId) ==
  [t EXCEPT !.lastTask = @ + 1,
            !.status = @ \cup {[id |-> t.lastTask + 1, request_id |-> requestId, status |-> TASK_NEW]}]

InsertResult(t, taskId, target, valid) ==
  [t EXCEPT !.lastResult = @ + 1,
            !.results = @ \cup {[id |-> t.lastResult + 1, task_id |-> taskId,
                                 target |-> target, valid |-> valid]}]

UpdateRequest(t, id) ==
  [t EXCEPT !.requests = {IF r.id = id THEN [r EXCEPT !.responded = TRUE] ELSE r : r \in @}]

(* Mutant: the WHERE compares the id of the row with that of the request. *)
UpdateStatusByTask(t, requestId, status) ==
  [t EXCEPT !.status = {IF s.id = requestId THEN [s EXCEPT !.status = status] ELSE s : s \in @}]

UpdateStatus(t, requestId, status) ==
  [t EXCEPT !.status = {IF s.request_id = requestId THEN [s EXCEPT !.status = status] ELSE s : s \in @}]

DeleteResults(t, ands, targets) ==
  [t EXCEPT !.results = {r \in @ : ~Where(r, ands, targets)}]

(* v2_playbook_on_stats stores its summary as a valid result of 0.0.0.0. *)
Effect(t, s, o, row) ==
  CASE s = "insert request"    -> InsertRequest(t, o.queue)
    [] s = "insert status"     -> InsertStatus(t, row.id)
    [] s = "update running"    -> UpdateStatus(t, row.request_id, TASK_RUNNING)
    [] s = "insert result"     -> InsertResult(t, row.id, o.host, 0)
    [] s = "insert summary"    -> InsertResult(t, row.id, "0.0.0.0", 1)
    [] s = "insert failure"    -> InsertResult(t, row.id, "", 1)
    [] s = "update complete"   -> UpdateStatus(t, row.id, TASK_COMPLETE)
    [] s = "update request"    -> UpdateRequest(t, row.id)
    [] s = "update failed"     -> UpdateStatus(t, row.request_id, TASK_COMPLETE)
    [] s = "delete unvalid"    -> DeleteResults(t, [task_id |-> row.id, valid |-> 0], HostList[o.queue])
    [] s = "delete by request" -> DeleteResults(t, [id |-> row.id, valid |-> 0], <<>>)

(* update_async_task_status leaves a row alone that has the status already. *)
Unneeded(s, row) ==
  \/ s = "update running" /\ row.status = TASK_RUNNING
  \/ s = "update failed" /\ row.status = TASK_COMPLETE

----------------------------------------------------------------------------
Init ==
  /\ db = EmptyTables
  /\ tx = EmptyTables
  /\ writer = NoOne
  /\ op = [c \in Conns |-> Idle]
  /\ stage = [c \in Conns |-> "idle"]
  /\ arg = [c \in Conns |-> NoRow]
  /\ count = [c \in Conns |-> 0]
  /\ commits = [c \in Conns |-> 0]
  /\ outcome = [c \in Conns |-> "none"]
  /\ asked = [q \in Queues |-> 0]
  /\ stored = [q \in Queues |-> 0]
  /\ exhausted = FALSE
  /\ deleted = FALSE
  /\ calls = 0 /\ busy = 0 /\ crashes = 0

(* The handlers and recovery work on queues that have a status row. *)
Accepted(q) == StatusOf(db, q) # {}

(* after_request has the id of the request it answers from init_request. *)
Answered(name, q) == IF name \in {"respond", "respond failure"} THEN RequestsOf(db, q) ELSE {NoRow}

(* A thread opens a connection and calls an operation of BocloudWorkerDB. *)
Call(c) ==
  /\ stage[c] = "idle"
  /\ calls < MaxCalls
  /\ \E name \in Called, q \in Queues :
       /\ name = "submit" \/ Accepted(q)
       /\ \E i \in 1..(IF name = "result" THEN Len(HostList[q]) ELSE 1) :
            op' = [op EXCEPT ![c] = [name |-> name, queue |-> q, host |-> HostList[q][i], next |-> 1]]
       /\ \E row \in Answered(name, q) : arg' = [arg EXCEPT ![c] = row]
       /\ asked' = IF name = "result" THEN [asked EXCEPT ![q] = @ + 1] ELSE asked
  /\ stage' = [stage EXCEPT ![c] = "begin"]
  /\ outcome' = [outcome EXCEPT ![c] = "none"]
  /\ calls' = calls + 1
  /\ UNCHANGED <<db, tx, writer, count, commits, stored, exhausted, deleted, busy, crashes>>

(* The connection is closed: what it has not committed is rolled back. *)
Close(c, how) ==
  /\ op' = [op EXCEPT ![c] = Idle]
  /\ stage' = [stage EXCEPT ![c] = "idle"]
  /\ arg' = [arg EXCEPT ![c] = NoRow]
  /\ count' = [count EXCEPT ![c] = 0]
  /\ commits' = [commits EXCEPT ![c] = 0]
  /\ outcome' = [outcome EXCEPT ![c] = how]

(* The loop of the statement is left by break. *)
StatementDone(c, row) ==
  /\ IF op[c].next < Len(Statements(op[c].name))
     THEN /\ op' = [op EXCEPT ![c].next = @ + 1]
          /\ stage' = [stage EXCEPT ![c] = "begin"]
          /\ arg' = [arg EXCEPT ![c] = row]
          /\ count' = [count EXCEPT ![c] = 0]
          /\ commits' = [commits EXCEPT ![c] = 0]
          /\ UNCHANGED outcome
     ELSE Close(c, "returned")
  /\ stored' = IF Statement(c) = "insert result"
               THEN [stored EXCEPT ![op[c].queue] = @ + 1] ELSE stored

(* Mutant: the exception is logged and the operation returns. *)
RaiseSwallowed(c) ==
  /\ StatementDone(c, arg[c])
  /\ writer' = IF writer = c THEN NoOne ELSE writer

(* Nobody closes the connection, and what it has not committed stays open. *)
StayOpen(c) ==
  /\ stage' = [stage EXCEPT ![c] = "unclosed"]
  /\ UNCHANGED <<writer, op, arg, count, commits, outcome>>

(* Mutant: no caller closes the connection when the operation raises. *)
RaiseUnclosed(c) == StayOpen(c) /\ UNCHANGED stored

(* "database is locked" once too often: the callers close the connection in  *)
(* their finally, but for AnsibleHandler.run, which calls cleanup_results.   *)
Raise(c) ==
  /\ \/ /\ op[c].name # "cleanup"
        /\ Close(c, "raised")
        /\ writer' = IF writer = c THEN NoOne ELSE writer
     \/ /\ op[c].name = "cleanup"
        /\ StayOpen(c)
  /\ UNCHANGED stored

(* The next try opens a connection in place of it, or the thread ends, and   *)
(* Python collects the old one, at any time.                                 *)
Collect(c) ==
  /\ stage[c] = "unclosed"
  /\ Close(c, "raised")
  /\ writer' = IF writer = c THEN NoOne ELSE writer
  /\ UNCHANGED <<db, tx, history, budgets>>

(* The select that finds the id; the new status row has the id insert returned. *)
Begin(c) ==
  /\ stage[c] = "begin"
  /\ UNCHANGED <<db, tx, writer, asked, exhausted, deleted, budgets>>
  /\ LET s == Statement(c)
         row == FirstRow(Lookup(View(c), s, op[c].queue))
         go(place) == /\ stage' = [stage EXCEPT ![c] = place]
                      /\ UNCHANGED <<op, count, commits, outcome, stored>>
     IN \/ /\ s = "commit"
           /\ go("commit") /\ UNCHANGED arg
        \/ /\ s \in {"insert request", "insert status", "update request"}
           /\ go("execute") /\ UNCHANGED arg
        \/ /\ s \notin {"commit", "insert request", "insert status", "update request"}
           /\ IF Unneeded(s, row)
              THEN StatementDone(c, row)
              ELSE go("execute") /\ arg' = [arg EXCEPT ![c] = row]

(* cu.execute: the first statement of a transaction takes the lock. *)
Execute(c) ==
  /\ stage[c] = "execute"
  /\ writer \in {NoOne, c}
  /\ writer' = c
  /\ tx' = Effect(View(c), Statement(c), op[c], arg[c])
  /\ IF Commits(op[c].name)
     THEN /\ stage' = [stage EXCEPT ![c] = "commit"]
          /\ UNCHANGED <<op, arg, count, commits, outcome, stored>>
     ELSE StatementDone(c, arg[c])
  /\ UNCHANGED <<db, asked, exhausted, deleted, budgets>>

(* Another connection keeps the lock for longer than the timeout. *)
ExecuteLocked(c) ==
  /\ stage[c] = "execute"
  /\ writer \notin {NoOne, c}
  /\ \/ /\ count[c] < RetryTime
        /\ count' = [count EXCEPT ![c] = @ + 1]
        /\ UNCHANGED <<writer, op, stage, arg, commits, outcome, stored>>
     \/ /\ count[c] = RetryTime
        /\ Raise(c)
  /\ UNCHANGED <<db, tx, asked, exhausted, deleted, budgets>>

Commit(c) ==
  /\ stage[c] = "commit"
  /\ db' = View(c)
  /\ writer' = IF writer = c THEN NoOne ELSE writer
  /\ StatementDone(c, [id |-> InsertedId(db')])
  /\ deleted' = (deleted \/ op[c].name \in {"cleanup", "refresh"})
  /\ UNCHANGED <<tx, asked, exhausted, budgets>>

(* Mutant: commit does not try again itself. *)
CommitLockedReexecutes(c) ==
  /\ stage[c] = "commit"
  /\ busy < MaxBusy
  /\ busy' = busy + 1
  /\ IF Statement(c) # "commit" /\ count[c] < RetryTime
     THEN /\ count' = [count EXCEPT ![c] = @ + 1]
          /\ stage' = [stage EXCEPT ![c] = "execute"]
          /\ UNCHANGED <<writer, op, arg, commits, outcome, stored>>
     ELSE Raise(c)
  /\ UNCHANGED <<db, tx, asked, exhausted, deleted, calls, crashes>>

(***************************************************************************)
(* Readers keep the commit waiting for longer than the timeout.  commit    *)
(* tries again, then raises; insert, update and delete catch that and      *)
(* execute their statement again, in the transaction that is still open.   *)
(***************************************************************************)
CommitLocked(c) ==
  /\ stage[c] = "commit"
  /\ busy < MaxBusy
  /\ busy' = busy + 1
  /\ \/ /\ commits[c] < RetryTime
        /\ commits' = [commits EXCEPT ![c] = @ + 1]
        /\ UNCHANGED <<writer, op, stage, arg, count, outcome, stored, exhausted>>
     \/ /\ commits[c] = RetryTime
        /\ exhausted' = TRUE
        /\ Statement(c) # "commit"
        /\ count[c] < RetryTime
        /\ count' = [count EXCEPT ![c] = @ + 1]
        /\ commits' = [commits EXCEPT ![c] = 0]
        /\ stage' = [stage EXCEPT ![c] = "execute"]
        /\ UNCHANGED <<writer, op, arg, outcome, stored>>
     \/ /\ commits[c] = RetryTime
        /\ exhausted' = TRUE
        /\ Statement(c) = "commit" \/ count[c] = RetryTime
        /\ Raise(c)
  /\ UNCHANGED <<db, tx, asked, deleted, calls, crashes>>

(* The process dies; SQLite rolls its transaction back. *)
Crash(c) ==
  /\ stage[c] # "idle"
  /\ crashes < MaxCrashes
  /\ crashes' = crashes + 1
  /\ Close(c, "crashed")
  /\ writer' = IF writer = c THEN NoOne ELSE writer
  /\ UNCHANGED <<db, tx, history, calls, busy>>

Step(c) == Begin(c) \/ Execute(c) \/ ExecuteLocked(c) \/ Commit(c) \/ CommitLocked(c)

Next == \E c \in Conns : Call(c) \/ Step(c) \/ Collect(c) \/ Crash(c)

Spec == Init /\ [][Next]_vars

----------------------------------------------------------------------------
(* The properties. *)

(* PRAGMA foreign_keys is never set, so nothing but the code's order of      *)
(* statements and lookups makes a status row name a request and a result row *)
(* name a task: it does, whatever crashes and whatever is locked.            *)
ReferencesOK ==
  /\ \A s \in db.status : \E r \in db.requests : s.request_id = r.id
  /\ \A r \in db.results : \E s \in db.status : r.task_id = s.id

(* The lock of the database is held from a statement to its commit, by a     *)
(* failing job from one statement to the next, and by a cleanup that gave    *)
(* up: no other operation that ended, well or not, locks the workers out.    *)
LockReleased ==
  \A c \in Conns : writer = c => stage[c] \in {"execute", "commit"} \/ op[c].name \in {"fail", "cleanup"}

(* insert_async_task_result has stored the row of every call that returned,  *)
(* as long as neither a cleanup nor a refresh deleted rows; and one call     *)
(* stores one row at most, unless a commit used up its retries.              *)
StoredOnce ==
  \A q \in Queues :
    LET rows == Cardinality({r \in ResultsOf(db, q) : r.valid = 0})
    IN /\ ~deleted => stored[q] <= rows
       /\ ~exhausted => rows <= asked[q]

(* The status get_async_task_status takes is not that of the first request,  *)
(* which set_task_as_finished completes: this has no status row, or got it   *)
(* after a later request of the queue.                                       *)
Overtaken(q) == FirstRow(StatusOf(db, q)).request_id # FirstRow(RequestsOf(db, q)).id

IsComplete(q) == FirstRow(StatusOf(db, q)).status = TASK_COMPLETE

IsFailure(r) == r.valid = 1 /\ r.target = ""

(* handle_job_exception: the failure is stored and the row COMPLETE in one   *)
(* commit; no reader sees the one without the other.                         *)
FailureAtomic ==
  [][\A q \in Queues :
       (\E r \in ResultsOf(db', q) \ ResultsOf(db, q) : IsFailure(r))
       => IsComplete(q)' \/ Overtaken(q)']_vars

(* An operation for one queue changes nothing of the others, by whatever ids *)
(* it looked up.  cleanup_results and refresh_request_data_for_... do (see   *)
(* JobExec!CleanupKeepsOthers and the README), and are excepted.             *)
OnlyOwnRows ==
  [][\A c \in Conns : stage[c] = "commit" /\ op[c].name \notin {"cleanup", "refresh"} =>
       \A q \in Queues \ {op[c].queue} :
         stage'[c] # "commit" =>
           /\ RequestsOf(db', q) = RequestsOf(db, q)
           /\ StatusOf(db', q) = StatusOf(db, q)
           /\ ResultsOf(db', q) = ResultsOf(db, q)]_vars

Finishes(c, q) ==
  /\ op[c].name = "finish" /\ op[c].queue = q
  /\ stage[c] # "idle" /\ stage'[c] = "idle" /\ outcome'[c] = "returned"

(* When set_task_as_finished returns, get_async_task_status says COMPLETE,   *)
(* whatever is inserted, marked, locked or dies meanwhile, unless a later    *)
(* request of the queue has overtaken the first.                             *)
FinishedUnlessOvertaken ==
  [][\A c \in Conns, q \in Queues : Finishes(c, q) => IsComplete(q)' \/ Overtaken(q)']_vars
=============================================================================
