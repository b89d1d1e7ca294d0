------------------------------ MODULE JobExec ------------------------------
(***************************************************************************)
(* The execution of jobs by ansible_api: job_exec (bocloud_worker.py), the *)
(* AnsibleHandler thread it starts (ansible_handler.py), the callback      *)
(* plugin that collects and reports the results (result_rabbitMQ.py),      *)
(* handle_job_exception (ansible_utils.py), and what they share: the       *)
(* SQLite tables, the pool of threads, the RabbitMQ broker.                *)
(*                                                                         *)
(* A thread executes the job of one queue, which may have any number of    *)
(* them: celery's, that of a recovery_exec that found the row NEW while    *)
(* celery still held the task, and the recovery threads, which it starts   *)
(* for a row that is RUNNING, whoever is running it.  What the web server  *)
(* writes (a row is NEW when its request came in, COMPLETE when the        *)
(* response says success: false) is not part of this module.  The tables   *)
(* are keyed by queue; TaskTables has the SQL and says when that is right. *)
(***************************************************************************)
EXTENDS Naturals, FiniteSets, Sequences

CONSTANTS
  Queues,          \* the queues (the names of the jobs) of the accepted requests
  Threads,         \* the calls of job_exec, each with the thread it starts
  QueueOf,         \* the queue of the job a thread executes
  SyncThreads,     \* the threads of requests with "response": "sync"
  Recoveries,      \* the threads recovery_exec starts, recovery=True
  Monitored,       \* the threads of the process that runs ThreadsMonitor
  Hosts,           \* the target machines
  IpList,          \* the hosts of the job of a thread, in the request's order
  FirstQueue,      \* the queue whose async_task_status row has the least id
  UseDB,           \* is_not_db is False
  MAX_TRY_TIMES,
  MaxFaults        \* bound: how many operations on the broker and the tables may fail

ASSUME ThreadsAssumption ==
  /\ QueueOf \in [Threads -> Queues]
  /\ FirstQueue \in Queues
  /\ IpList \in [Threads -> Seq(Hosts) \ {<<>>}]
  /\ SyncThreads \subseteq Threads
  /\ Recoveries \subseteq Threads \ SyncThreads
  /\ Monitored \subseteq Threads

ASSUME BoundsAssumption ==
  /\ UseDB \in BOOLEAN
  /\ MAX_TRY_TIMES \in Nat \ {0}
  /\ MaxFaults \in Nat

VARIABLES
  caller,      \* where job_exec is
  pc,          \* where the thread is
  counter,     \* AnsibleHandler.run: counter, the attempts that failed
  launched,    \* history: the calls of _task_exec
  reason,      \* the message handle_job_exception was called with
  pending,     \* the hosts the running playbook has no result of yet
  data,        \* ansible_result["data"]
  answer,      \* ansible_result["success"]
  collected,   \* v2_playbook_on_stats: operate_result
  signal,      \* the threads whose result_signal is set
  pool,        \* threads_pool
  kill,        \* the threads with a SystemExit pending
  status,      \* async_task_status.status, by queue
  rows,        \* async_task_result
  mq,          \* history: the messages published, by thread
  faults,      \* history: the kinds of fault that hit a thread
  budget       \* faults left

callerVars == <<caller, pool>>
runVars    == <<counter, launched, reason>>
playVars   == <<pending, data, collected>>
answerVars == <<answer, signal>>
tableVars  == <<status, rows>>
faultVars  == <<faults, budget>>
vars == <<callerVars, pc, runVars, playVars, answerVars, kill, tableVars, mq, faultVars>>

TASK_NEW == 0
TASK_RUNNING == 1
TASK_COMPLETE == 2

Targets(t) == {IpList[t][i] : i \in DOMAIN IpList[t]}
Async(t) == t \notin SyncThreads
Stored(t) == UseDB /\ Async(t)

CallerStates == {"idle", "listed", "start", "raised", "append", "wait", "answered", "timeout"}

Done == {"ended", "dead"}
Labels == {"none", "check", "try", "launch", "play", "stats", "store", "send", "finish",
           "signal", "unwind", "sleep", "fail", "fail_store", "fail_signal", "ended", "dead"}
Statuses == {TASK_NEW, TASK_RUNNING, TASK_COMPLETE}
FaultKinds == {"db", "broker", "kill"}
Reasons == {"invalid", "value_error", "exceeded", "terminated"}

(* A row of async_task_result, and a message of ansible_result["data"].  A  *)
(* host has one result per attempt here, the last one its plays produced.   *)
Row == [queue : Queues, thread : Threads, attempt : 0..MAX_TRY_TIMES,
        target : Hosts \cup {"", "0.0.0.0"}, ok : BOOLEAN, valid : BOOLEAN]

Message == [kind : Reasons \cup {"final"}, rows : SUBSET Row]

TableRow(t, h, ok, valid) ==
  [queue |-> QueueOf[t], thread |-> t, attempt |-> counter[t],
   target |-> h, ok |-> ok, valid |-> valid]

Result(t, h, ok) == TableRow(t, h, ok, FALSE)
Summary(t, h, ok) == TableRow(t, h, ok, TRUE)

Init ==
  /\ caller = [t \in Threads |-> "idle"]
  /\ pc = [t \in Threads |-> "none"]
  /\ counter = [t \in Threads |-> 0]
  /\ launched = [t \in Threads |-> 0]
  /\ reason = [t \in Threads |-> "invalid"]
  /\ pending = [t \in Threads |-> {}]
  /\ data = [t \in Threads |-> {}]
  /\ answer = [t \in Threads |-> "none"]
  /\ collected = [t \in Threads |-> {}]
  /\ signal = {}
  /\ pool = {}
  /\ kill = {}
  /\ status = [q \in Queues |-> TASK_NEW]
  /\ rows = {}
  /\ mq = [t \in Threads |-> <<>>]
  /\ faults = [t \in Threads |-> {}]
  /\ budget = MaxFaults

----------------------------------------------------------------------------
(* Steps shared by the actions. *)

Goto(t, label) == pc' = [pc EXCEPT ![t] = label]

NoFault == UNCHANGED faultVars

(* An operation on the tables or the broker fails. *)
Fault(t, kind) ==
  /\ budget > 0
  /\ budget' = budget - 1
  /\ faults' = [faults EXCEPT ![t] = @ \cup {kind}]

(* run calls handle_job_exception(queue, msg, ...) next. *)
FailJob(t, msg) ==
  /\ Goto(t, "fail")
  /\ reason' = [reason EXCEPT ![t] = msg]

(* Mutants: one try too many, one too few, no report after the last. *)
AttemptFailsOnceMore(t) ==
  /\ counter' = [counter EXCEPT ![t] = @ + 1]
  /\ IF counter[t] + 1 > MAX_TRY_TIMES
     THEN FailJob(t, "exceeded")
     ELSE Goto(t, "sleep") /\ UNCHANGED reason

AttemptFailsOnceLess(t) ==
  /\ counter' = [counter EXCEPT ![t] = @ + 1]
  /\ IF counter[t] + 1 >= MAX_TRY_TIMES - 1
     THEN FailJob(t, "exceeded")
     ELSE Goto(t, "sleep") /\ UNCHANGED reason

AttemptFailsSilently(t) ==
  /\ counter' = [counter EXCEPT ![t] = @ + 1]
  /\ Goto(t, IF counter[t] + 1 >= MAX_TRY_TIMES THEN "ended" ELSE "sleep")
  /\ UNCHANGED reason

(* except Exception: count the attempt; sleep and retry, or give up. *)
AttemptFails(t) ==
  /\ counter' = [counter EXCEPT ![t] = @ + 1]
  /\ IF counter[t] + 1 >= MAX_TRY_TIMES
     THEN FailJob(t, "exceeded")
     ELSE Goto(t, "sleep") /\ UNCHANGED reason

Publish(t, kind, msgRows) ==
  mq' = [mq EXCEPT ![t] = Append(@, [kind |-> kind, rows |-> msgRows])]

SetStatus(t, s) == status' = [status EXCEPT ![QueueOf[t]] = s]

----------------------------------------------------------------------------
(* job_exec: mark the row RUNNING, start the thread, append it to the pool, wait. *)

(* Mutant: recovery marks the row again. *)
AlwaysMarks(t) == Stored(t)

Marks(t) == t \notin Recoveries /\ Stored(t)

(* recovery_exec lists the RUNNING rows once and then runs one after the other: *)
(* a row may be COMPLETE when its turn comes.                                   *)
ListUncompleted(t) ==
  /\ caller[t] = "idle"
  /\ t \in Recoveries
  /\ status[QueueOf[t]] = TASK_RUNNING
  /\ caller' = [caller EXCEPT ![t] = "listed"]
  /\ UNCHANGED <<pool, pc, runVars, playVars, answerVars, kill, tableVars, mq, faultVars>>

MarkRunning(t) ==
  /\ caller[t] = IF t \in Recoveries THEN "listed" ELSE "idle"
  /\ caller' = [caller EXCEPT ![t] = "start"]
  /\ \/ Marks(t) /\ SetStatus(t, TASK_RUNNING) /\ NoFault
     \/ Marks(t) /\ Fault(t, "db") /\ UNCHANGED status
     \/ ~Marks(t) /\ NoFault /\ UNCHANGED status
  /\ UNCHANGED <<pool, pc, runVars, playVars, answerVars, kill, rows, mq>>

StartThread(t) ==
  /\ caller[t] = "start"
  /\ caller' = [caller EXCEPT ![t] = "append"]
  /\ Goto(t, "check")
  /\ UNCHANGED <<pool, runVars, playVars, answerVars, kill, tableVars, mq, faultVars>>

(* AnsibleHandler(...) raises on a request AnsibleTask cannot parse; nobody reports it. *)
ConstructorRaises(t) ==
  /\ caller[t] = "start"
  /\ caller' = [caller EXCEPT ![t] = "raised"]
  /\ UNCHANGED <<pool, pc, runVars, playVars, answerVars, kill, tableVars, mq, faultVars>>

AppendToPool(t) ==
  /\ caller[t] = "append"
  /\ caller' = [caller EXCEPT ![t] = "wait"]
  /\ pool' = pool \cup {t}
  /\ UNCHANGED <<pc, runVars, playVars, answerVars, kill, tableVars, mq, faultVars>>

(* result_signal.wait(60) or ansible_thread.join(time_out) returns, *)
CallerAnswered(t) ==
  /\ caller[t] = "wait"
  /\ IF Async(t) THEN pc[t] \in Done ELSE t \in signal
  /\ caller' = [caller EXCEPT ![t] = "answered"]
  /\ UNCHANGED <<pool, pc, runVars, playVars, answerVars, kill, tableVars, mq, faultVars>>

(* Mutant: result_signal.wait() without a timeout. *)
OnlyJoinTimesOut(t) ==
  /\ caller[t] = "wait"
  /\ Async(t) /\ pc[t] \notin Done
  /\ caller' = [caller EXCEPT ![t] = "timeout"]
  /\ UNCHANGED <<pool, pc, runVars, playVars, answerVars, kill, tableVars, mq, faultVars>>

(* or runs out of time; the thread goes on. *)
CallerTimesOut(t) ==
  /\ caller[t] = "wait"
  /\ IF Async(t) THEN pc[t] \notin Done ELSE t \notin signal
  /\ caller' = [caller EXCEPT ![t] = "timeout"]
  /\ UNCHANGED <<pool, pc, runVars, playVars, answerVars, kill, tableVars, mq, faultVars>>

----------------------------------------------------------------------------
(* ThreadsMonitor.force_stop_thread, on one thread of the pool. *)

PopDeadThread(t) ==
  /\ t \in pool \cap Monitored
  /\ pc[t] \in Done
  /\ pool' = pool \ {t}
  /\ UNCHANGED <<caller, pc, runVars, playVars, answerVars, kill, tableVars, mq, faultVars>>

(* The thread outlived its timeout: a SystemExit is left pending in it. *)
TerminateThread(t) ==
  /\ t \in pool \cap Monitored
  /\ pc[t] \notin Done
  /\ kill' = kill \cup {t}
  /\ faults' = [faults EXCEPT ![t] = @ \cup {"kill"}]
  /\ pool' = pool \ {t}
  /\ UNCHANGED <<caller, pc, runVars, playVars, answerVars, tableVars, mq, budget>>

----------------------------------------------------------------------------
(* AnsibleHandler.run and _task_exec. *)

(* Windows and Linux targets mixed, or no ansible: report and return. *)
CheckTargets(t) ==
  /\ pc[t] = "check"
  /\ \/ Goto(t, "try") /\ UNCHANGED reason
     \/ FailJob(t, "invalid")
  /\ UNCHANGED <<callerVars, counter, launched, playVars, answerVars, kill, tableVars, mq, faultVars>>

FirstTry(t) ==
  /\ pc[t] = "try"
  /\ counter[t] = 0
  /\ Goto(t, "launch")
  /\ UNCHANGED <<callerVars, runVars, playVars, answerVars, kill, tableVars, mq, faultVars>>

(* Mutant: host_list is cut to its first host. *)
CleanupFirstOnly(t) ==
  {r \in rows : r.queue = FirstQueue /\ ~r.valid /\ r.target = IpList[t][1]}

(* The rows that DELETE ... WHERE task_id=? AND valid=? AND target=? OR     *)
(* target=? ... matches: task_id is the least id of async_task_status       *)
(* (get_task_id_by_queue does not join), and the OR binds last.             *)
CleanupMatches(t) ==
  {r \in rows : \/ /\ r.queue = FirstQueue /\ ~r.valid
                   /\ r.target = IpList[t][1]
                \/ \E i \in 2..Len(IpList[t]) : r.target = IpList[t][i]}

(* Mutant: the continue of the except clause is reached without an error, too. *)
CleanupNeverLaunches(t) ==
  /\ pc[t] = "try"
  /\ counter[t] > 0
  /\ rows' = rows \ CleanupMatches(t)
  /\ Goto(t, "sleep")
  /\ UNCHANGED <<callerVars, runVars, playVars, answerVars, kill, status, mq, faultVars>>

(* A later try first cleans up.  Without the database its tables are empty  *)
(* and get_task_id_by_queue raises IndexError, which counts as an attempt.  *)
CleanupResults(t) ==
  /\ pc[t] = "try"
  /\ counter[t] > 0
  /\ \/ /\ UseDB
        /\ rows' = rows \ CleanupMatches(t)
        /\ Goto(t, "launch")
        /\ NoFault
        /\ UNCHANGED <<counter, reason>>
     \/ UseDB /\ Fault(t, "db") /\ AttemptFails(t) /\ UNCHANGED rows
     \/ ~UseDB /\ AttemptFails(t) /\ NoFault /\ UNCHANGED rows
  /\ UNCHANGED <<callerVars, launched, playVars, answerVars, kill, status, mq>>

(* Mutant: the CallbackModule keeps the data of the attempt before. *)
TaskExecKeepsData(t) ==
  /\ pc[t] = "launch"
  /\ launched' = [launched EXCEPT ![t] = @ + 1]
  /\ \/ /\ Goto(t, "play")
        /\ pending' = [pending EXCEPT ![t] = Targets(t)]
        /\ UNCHANGED <<counter, reason>>
     \/ FailJob(t, "value_error") /\ UNCHANGED <<counter, pending>>
     \/ AttemptFails(t) /\ UNCHANGED pending
  /\ UNCHANGED <<callerVars, data, collected, answerVars, kill, tableVars, mq, faultVars>>

(* _task_exec: a new CallbackModule empties ansible_result["data"] and the  *)
(* playbook starts; or ValueError (no playbook was generated); or an error. *)
TaskExec(t) ==
  /\ pc[t] = "launch"
  /\ launched' = [launched EXCEPT ![t] = @ + 1]
  /\ \/ /\ Goto(t, "play")
        /\ data' = [data EXCEPT ![t] = {}]
        /\ pending' = [pending EXCEPT ![t] = Targets(t)]
        /\ UNCHANGED <<counter, reason>>
     \/ FailJob(t, "value_error") /\ UNCHANGED <<counter, data, pending>>
     \/ AttemptFails(t) /\ UNCHANGED <<data, pending>>
  /\ UNCHANGED <<callerVars, collected, answerVars, kill, tableVars, mq, faultVars>>

PlaybookRaises(t) ==
  /\ pc[t] = "play"
  /\ AttemptFails(t)
  /\ UNCHANGED <<callerVars, launched, playVars, answerVars, kill, tableVars, mq, faultVars>>

(* v2_runner_on_ok, _on_failed, _on_unreachable, v2_playbook_on_no_hosts_matched  *)
(* store a result: insert_message_to_sqlite logs an error of the database.        *)
StoreResult(t, h, ok) ==
  \/ /\ Stored(t)
     /\ rows' = rows \cup {Result(t, h, ok)}
     /\ UNCHANGED data
     /\ NoFault
  \/ Stored(t) /\ Fault(t, "db") /\ UNCHANGED <<rows, data>>
  \/ /\ ~Stored(t)
     /\ data' = [data EXCEPT ![t] = @ \cup {Result(t, h, ok)}]
     /\ UNCHANGED rows
     /\ NoFault

HostResult(t, h) ==
  /\ pc[t] = "play"
  /\ h \in pending[t]
  /\ pending' = [pending EXCEPT ![t] = @ \ {h}]
  /\ \E ok \in BOOLEAN : StoreResult(t, h, ok)
  /\ UNCHANGED <<callerVars, pc, runVars, collected, answerVars, kill, status, mq>>

(* Skipped tasks and ignored errors store nothing. *)
HostSkipped(t, h) ==
  /\ pc[t] = "play"
  /\ h \in pending[t]
  /\ pending' = [pending EXCEPT ![t] = @ \ {h}]
  /\ UNCHANGED <<callerVars, pc, runVars, data, collected, answerVars, kill, tableVars, mq, faultVars>>

NoHostsMatched(t) ==
  /\ pc[t] = "play"
  /\ pending[t] = Targets(t)
  /\ pending' = [pending EXCEPT ![t] = {}]
  /\ StoreResult(t, "", FALSE)
  /\ Goto(t, "stats")
  /\ UNCHANGED <<callerVars, runVars, collected, answerVars, kill, status, mq>>

PlaybookEnds(t) ==
  /\ pc[t] = "play"
  /\ pending[t] = {}
  /\ Goto(t, "stats")
  /\ UNCHANGED <<callerVars, runVars, playVars, answerVars, kill, tableVars, mq, faultVars>>

----------------------------------------------------------------------------
(* v2_playbook_on_stats.  An error is logged, by the plugin or by ansible's *)
(* send_callback, and the playbook's run returns as if nothing had failed.  *)

(* Mutant: the signal is set before the answer. *)
SignalsFirst(t) ==
  /\ pc[t] = "stats"
  /\ ~Async(t)
  /\ \/ /\ t \notin signal
        /\ signal' = signal \cup {t}
        /\ UNCHANGED <<pc, answer>>
     \/ /\ t \in signal
        /\ answer' = [answer EXCEPT ![t] = IF \A r \in data[t] : r.ok THEN "success" ELSE "failure"]
        /\ Goto(t, "unwind")
        /\ UNCHANGED signal
  /\ UNCHANGED <<callerVars, runVars, playVars, kill, tableVars, mq, faultVars>>

StatsSync(t) ==
  /\ pc[t] = "stats"
  /\ ~Async(t)
  /\ answer' = [answer EXCEPT ![t] = IF \A r \in data[t] : r.ok THEN "success" ELSE "failure"]
  /\ Goto(t, "signal")
  /\ UNCHANGED <<callerVars, runVars, playVars, signal, kill, tableVars, mq, faultVars>>

StatsCollect(t) ==
  /\ pc[t] = "stats"
  /\ Async(t)
  /\ \/ /\ Stored(t)
        /\ collected' = [collected EXCEPT ![t] = {r \in rows : r.queue = QueueOf[t] /\ ~r.valid}]
        /\ Goto(t, "store")
        /\ NoFault
     \/ Stored(t) /\ Fault(t, "db") /\ Goto(t, "unwind") /\ UNCHANGED collected
     \/ /\ ~Stored(t)
        /\ collected' = [collected EXCEPT ![t] = data[t]]
        /\ Goto(t, "send")
        /\ NoFault
  /\ UNCHANGED <<callerVars, runVars, pending, data, answerVars, kill, tableVars, mq>>

StatsStore(t) ==
  /\ pc[t] = "store"
  /\ \/ /\ rows' = rows \cup {Summary(t, "0.0.0.0", \A r \in collected[t] : r.ok)}
        /\ Goto(t, "send")
        /\ NoFault
     \/ Fault(t, "db") /\ Goto(t, "unwind") /\ UNCHANGED rows
  /\ UNCHANGED <<callerVars, runVars, playVars, answerVars, kill, status, mq>>

(* Mutants: an error of the broker counts as a failed attempt; the row is        *)
(* completed although the message is not out; the row is never completed.        *)
StatsSendRetries(t) ==
  /\ pc[t] = "send"
  /\ \/ /\ Publish(t, "final", collected[t])
        /\ Goto(t, IF Stored(t) THEN "finish" ELSE "unwind")
        /\ NoFault /\ UNCHANGED <<counter, reason>>
     \/ Fault(t, "broker") /\ AttemptFails(t) /\ Publish(t, "final", collected[t])
  /\ UNCHANGED <<callerVars, launched, playVars, answerVars, kill, tableVars>>

StatsSendThenFinish(t) ==
  /\ pc[t] = "send"
  /\ Goto(t, IF Stored(t) THEN "finish" ELSE "unwind")
  /\ \/ Publish(t, "final", collected[t]) /\ NoFault
     \/ Fault(t, "broker") /\ UNCHANGED mq
  /\ UNCHANGED <<callerVars, runVars, playVars, answerVars, kill, tableVars>>

StatsSendAndForget(t) ==
  /\ pc[t] = "send"
  /\ Publish(t, "final", collected[t])
  /\ Goto(t, "unwind")
  /\ UNCHANGED <<callerVars, runVars, playVars, answerVars, kill, tableVars, faultVars>>

(* intergrate_send_result_to_rabbitmq: it may raise before the message is   *)
(* published (no broker) or after (closing the connection).                 *)
StatsSend(t) ==
  /\ pc[t] = "send"
  /\ \/ /\ Publish(t, "final", collected[t])
        /\ Goto(t, IF Stored(t) THEN "finish" ELSE "unwind")
        /\ NoFault
     \/ Fault(t, "broker") /\ Goto(t, "unwind") /\ UNCHANGED mq
     \/ Fault(t, "broker") /\ Goto(t, "unwind") /\ Publish(t, "final", collected[t])
  /\ UNCHANGED <<callerVars, runVars, playVars, answerVars, kill, tableVars>>

StatsFinish(t) ==
  /\ pc[t] = "finish"
  /\ Goto(t, "unwind")
  /\ \/ SetStatus(t, TASK_COMPLETE) /\ NoFault
     \/ Fault(t, "db") /\ UNCHANGED status
  /\ UNCHANGED <<callerVars, runVars, playVars, answerVars, kill, rows, mq>>

(* PlaybookExecutor.run and _task_exec return: still inside run's try. *)
Unwind(t) ==
  /\ pc[t] = "unwind"
  /\ Goto(t, "ended")
  /\ UNCHANGED <<callerVars, runVars, playVars, answerVars, kill, tableVars, mq, faultVars>>

Sleep(t) ==
  /\ pc[t] = "sleep"
  /\ Goto(t, "try")
  /\ UNCHANGED <<callerVars, runVars, playVars, answerVars, kill, tableVars, mq, faultVars>>

----------------------------------------------------------------------------
(* handle_job_exception *)

FailSync(t) ==
  /\ pc[t] = "fail"
  /\ ~Async(t)
  /\ data' = [data EXCEPT ![t] = {}]
  /\ answer' = [answer EXCEPT ![t] = "failure"]
  /\ Goto(t, "fail_signal")
  /\ UNCHANGED <<callerVars, runVars, pending, collected, signal, kill, tableVars, mq, faultVars>>

(* Mutant: an error of the broker is ignored and the row completed. *)
FailSendAndStore(t) ==
  /\ pc[t] = "fail"
  /\ Async(t)
  /\ Goto(t, IF UseDB THEN "fail_store" ELSE "ended")
  /\ \/ Publish(t, reason[t], {}) /\ NoFault
     \/ Fault(t, "broker") /\ UNCHANGED mq
  /\ UNCHANGED <<callerVars, runVars, playVars, answerVars, kill, tableVars>>

(* An error of the broker leaves run by its except clause: the thread dies. *)
FailSend(t) ==
  /\ pc[t] = "fail"
  /\ Async(t)
  /\ \/ /\ Publish(t, reason[t], {})
        /\ Goto(t, IF UseDB THEN "fail_store" ELSE "ended")
        /\ NoFault
     \/ Fault(t, "broker") /\ Goto(t, "dead") /\ UNCHANGED mq
     \/ Fault(t, "broker") /\ Goto(t, "dead") /\ Publish(t, reason[t], {})
  /\ UNCHANGED <<callerVars, runVars, playVars, answerVars, kill, tableVars>>

(* One transaction: the result row and the status, or neither. *)
FailStore(t) ==
  /\ pc[t] = "fail_store"
  /\ Goto(t, "ended")
  /\ \/ /\ rows' = rows \cup {Summary(t, "", FALSE)}
        /\ SetStatus(t, TASK_COMPLETE)
        /\ NoFault
     \/ Fault(t, "db") /\ UNCHANGED tableVars
  /\ UNCHANGED <<callerVars, runVars, playVars, answerVars, kill, mq>>

(* result_signal.set(), the last line of v2_playbook_on_stats and of this. *)
Signal(t) ==
  /\ pc[t] \in {"signal", "fail_signal"}
  /\ signal' = signal \cup {t}
  /\ Goto(t, IF pc[t] = "signal" THEN "unwind" ELSE "ended")
  /\ UNCHANGED <<callerVars, runVars, playVars, answer, kill, tableVars, mq, faultVars>>

----------------------------------------------------------------------------
(* The pending SystemExit is raised, wherever the thread then is. *)

Killed(t) == t \in kill /\ kill' = kill \ {t} /\ UNCHANGED <<callerVars, signal, faultVars>>

(* Within run's try: except (SystemExit, SystemError). *)
KilledInTry(t) ==
  /\ Killed(t)
  /\ pc[t] \in {"try", "launch", "play", "stats", "store", "send", "finish", "signal", "unwind"}
  /\ FailJob(t, "terminated")
  /\ \/ UNCHANGED mq
     \/ pc[t] = "send" /\ Publish(t, "final", collected[t])
  /\ UNCHANGED <<counter, launched, playVars, answer, tableVars>>

(* Outside it, in an except clause or in handle_job_exception: the thread  *)
(* dies; the message may be out, or the dictionary of the answer cleared.   *)
KilledOutsideTry(t) ==
  /\ Killed(t)
  /\ pc[t] \in {"check", "sleep", "fail", "fail_store", "fail_signal"}
  /\ Goto(t, "dead")
  /\ \/ UNCHANGED <<mq, data, answer>>
     \/ pc[t] = "fail" /\ Async(t) /\ Publish(t, reason[t], {}) /\ UNCHANGED <<data, answer>>
     \/ /\ pc[t] = "fail" /\ ~Async(t)
        /\ data' = [data EXCEPT ![t] = {}]
        /\ answer' = [answer EXCEPT ![t] = "none"]
        /\ UNCHANGED mq
  /\ UNCHANGED <<runVars, pending, collected, tableVars>>

(* The bare except of v2_runner_on_ok takes it, with or without the result, *)
KillSwallowedByCallback(t, h) ==
  /\ Killed(t)
  /\ pc[t] = "play"
  /\ h \in pending[t]
  /\ pending' = [pending EXCEPT ![t] = @ \ {h}]
  /\ \/ UNCHANGED <<rows, data>>
     \/ Stored(t) /\ rows' = rows \cup {Result(t, h, TRUE)} /\ UNCHANGED data
     \/ /\ ~Stored(t)
        /\ data' = [data EXCEPT ![t] = @ \cup {Result(t, h, TRUE)}]
        /\ UNCHANGED rows
  /\ UNCHANGED <<pc, runVars, collected, answer, status, mq>>

(* or the one of check_targets_category, *)
KillSwallowedByCheck(t) ==
  /\ Killed(t)
  /\ pc[t] = "check"
  /\ FailJob(t, "invalid")
  /\ UNCHANGED <<counter, launched, playVars, answer, tableVars, mq>>

(* or those of RabbitmqHandler: the connection goes on to the next broker,  *)
(* or the sending raises Exception, before or after the message is out.     *)
KillSwallowedBySend(t) ==
  /\ Killed(t)
  /\ Async(t)
  /\ pc[t] \in {"send", "fail"}
  /\ \/ UNCHANGED <<pc, mq>>
     \/ /\ Goto(t, IF pc[t] = "send" THEN "unwind" ELSE "dead")
        /\ \/ UNCHANGED mq
           \/ pc[t] = "send" /\ Publish(t, "final", collected[t])
           \/ pc[t] = "fail" /\ Publish(t, reason[t], {})
  /\ UNCHANGED <<runVars, playVars, answer, tableVars>>

----------------------------------------------------------------------------
CallerStep(t) ==
  \/ ListUncompleted(t) \/ MarkRunning(t) \/ StartThread(t) \/ ConstructorRaises(t)
  \/ AppendToPool(t) \/ CallerAnswered(t) \/ CallerTimesOut(t)

MonitorStep(t) == PopDeadThread(t) \/ TerminateThread(t)

(* What ansible decides: how long a playbook runs and how it ends. *)
PlaybookStep(t) ==
  \/ PlaybookRaises(t) \/ NoHostsMatched(t) \/ PlaybookEnds(t)
  \/ \E h \in Hosts : HostResult(t, h) \/ HostSkipped(t, h)

RunStep(t) ==
  \/ CheckTargets(t) \/ FirstTry(t) \/ CleanupResults(t) \/ TaskExec(t)
  \/ StatsSync(t) \/ StatsCollect(t) \/ StatsStore(t) \/ StatsSend(t) \/ StatsFinish(t)
  \/ Unwind(t) \/ Sleep(t)
  \/ FailSync(t) \/ FailSend(t) \/ FailStore(t) \/ Signal(t)

KillStep(t) ==
  \/ KilledInTry(t) \/ KilledOutsideTry(t)
  \/ KillSwallowedByCheck(t) \/ KillSwallowedBySend(t)
  \/ \E h \in Hosts : KillSwallowedByCallback(t, h)

ThreadStep(t) == RunStep(t) \/ PlaybookStep(t) \/ KillStep(t)

Next == \E t \in Threads : CallerStep(t) \/ MonitorStep(t) \/ ThreadStep(t)

Spec == Init /\ [][Next]_vars

(* A pending exception is raised, a caller's wait has a timeout, and the     *)
(* thread's own code runs on; how long a playbook takes is ansible's affair. *)
FairSpec ==
  /\ Spec
  /\ \A t \in Threads : WF_vars(CallerStep(t)) /\ WF_vars(RunStep(t)) /\ WF_vars(KillStep(t))

PlaybooksEnd == \A t \in Threads : WF_vars(PlaybookStep(t))

----------------------------------------------------------------------------
(* Properties *)

(* The values the variables may have: where the callers and threads are, *)
ControlTypeOK ==
  /\ caller \in [Threads -> CallerStates]
  /\ pc \in [Threads -> Labels]
  /\ counter \in [Threads -> 0..MAX_TRY_TIMES]
  /\ launched \in [Threads -> 0..MAX_TRY_TIMES]
  /\ reason \in [Threads -> Reasons]
  /\ signal \subseteq SyncThreads
  /\ pool \subseteq Threads
  /\ kill \subseteq Monitored

(* what they collected and reported, *)
ResultTypeOK ==
  /\ pending \in [Threads -> SUBSET Hosts]
  /\ data \in [Threads -> SUBSET Row]
  /\ answer \in [Threads -> {"none", "success", "failure"}]
  /\ collected \in [Threads -> SUBSET Row]
  /\ rows \subseteq Row
  /\ mq \in [Threads -> Seq(Message)]

(* the status of the jobs and the faults. *)
StatusTypeOK ==
  /\ status \in [Queues -> Statuses]
  /\ faults \in [Threads -> SUBSET FaultKinds]
  /\ budget \in 0..MaxFaults

TypeOK == ControlTypeOK /\ ResultTypeOK /\ StatusTypeOK

Reported(q) == \E t \in Threads : QueueOf[t] = q /\ mq[t] # <<>>

Active(t) == caller[t] \in {"start", "append"} \/ pc[t] \notin Done \cup {"none"}

(* The server is never left waiting for a job its execution marked finished:  *)
(* both places that do, v2_playbook_on_stats and handle_job_exception,        *)
(* publish a report of the job first, whatever fails or is killed between.    *)
FinishedImpliesReported == \A q \in Queues : status[q] = TASK_COMPLETE => Reported(q)

(* An asynchronous thread that ends without any message was hit by a failing *)
(* broker, failing tables or a termination: the retries, the ValueError path *)
(* and the early returns of run all end in a report.                         *)
SilenceHasACause ==
  \A t \in Threads : Async(t) /\ pc[t] \in Done /\ mq[t] = <<>> => faults[t] # {}

(* A row stays RUNNING only while a thread executes the job, or because the *)
(* constructor of AnsibleHandler raised, or because a fault or a            *)
(* termination came between marking and finishing.                          *)
RunningHasACause ==
  \A q \in Queues : status[q] = TASK_RUNNING =>
    \E t \in Threads :
      QueueOf[t] = q /\ (Active(t) \/ caller[t] = "raised" \/ faults[t] # {})

(* A thread publishes at most one message, unless ThreadsMonitor terminated *)
(* it after its report: then a failure follows the final result.            *)
SecondReportNeedsKill ==
  \A t \in Threads :
    /\ Len(mq[t]) <= 2
    /\ Len(mq[t]) = 2 => "kill" \in faults[t] /\ mq[t][1].kind = "final" /\ mq[t][2].kind # "final"

(* What a retry of t misses: cleanup_results deletes the first host's rows of *)
(* the job whose row has the least id, whichever job it is called for.        *)
Missed(t, r) == Stored(t) /\ QueueOf[t] # FirstQueue /\ r.target = IpList[t][1]

(* The final report has no result of an attempt of its thread that raised: a  *)
(* retry first deletes what the failed attempt had stored.  Only the first    *)
(* host of a job that is not the first row's keeps its results.  (Without the *)
(* tables no retry ever launches the playbook.)                               *)
LastAttemptReported ==
  \A t \in Threads : \A i \in DOMAIN mq[t] : \A r \in mq[t][i].rows :
    r.thread = t => r.attempt = counter[t] \/ Missed(t, r)

(* The message "Exceed the max try times" tells the truth: the playbook was   *)
(* tried MAX_TRY_TIMES times, or the tables failed between two tries.         *)
GivesUpAfterMaxTries ==
  \A t \in Threads : \A i \in DOMAIN mq[t] :
    mq[t][i].kind = "exceeded" => launched[t] = MAX_TRY_TIMES \/ "db" \in faults[t]

(* A synchronous caller that is answered has a complete answer: its success  *)
(* is set, a success has no failed host, and its data are of one attempt.    *)
(* (A termination may still come while the thread unwinds, and rewrites it.) *)
AnswerComplete ==
  \A t \in SyncThreads : caller[t] = "answered" /\ "kill" \notin faults[t] =>
    /\ answer[t] # "none"
    /\ answer[t] = "success" => \A r \in data[t] : r.ok /\ r.attempt = counter[t]

(* The dictionary job_exec returned is the thread's own: the thread, unless  *)
(* terminated, does not write to it any more once the caller has it.         *)
AnswerFrozen ==
  [][\A t \in SyncThreads : caller[t] = "answered" /\ "kill" \notin faults[t] =>
       answer'[t] = answer[t] /\ data'[t] = data[t]]_vars

(* A retry deletes results of its own job only: cleanup_results gets the     *)
(* queue and the hosts of the task.                                          *)
CleanupKeepsOthers ==
  [][\A r \in rows \ rows' :
       \E t \in Threads : QueueOf[t] = r.queue /\ pc[t] = "try" /\ pc'[t] = "launch"]_vars

(* If playbooks end, every thread that was started ends. *)
EveryThreadEnds == PlaybooksEnd => \A t \in Threads : pc[t] # "none" ~> pc[t] \in Done

(* job_exec returns, however long the playbook runs. *)
CallerReturns == \A t \in Threads : caller[t] = "start" ~> caller[t] \in {"answered", "timeout", "raised"}

(* What the server sees of the asynchronous jobs is a run of JobLedger: a row  *)
(* is completed by a thread that reported, and COMPLETE turns into RUNNING     *)
(* only by a further execution, which job_exec starts as if it were the first. *)
AsyncQueues == {q \in Queues : \A t \in SyncThreads : QueueOf[t] # q}
Executions == {t \in Threads : QueueOf[t] \in AsyncQueues}

Ledger == INSTANCE JobLedger WITH
  Jobs <- AsyncQueues,
  Recoveries <- Recoveries \cap Executions,
  JobOf <- QueueOf,
  status <- [q \in AsyncQueues |-> status[q]],
  started <- {t \in Executions : caller[t] # "idle"},
  reported <- {t \in Executions : mq[t] # <<>>}

LedgerSpec == Ledger!Spec
=============================================================================
