# A TLA+ model of ansible_api

ansible_api ("BOCLOUD worker") takes jobs over HTTP, runs them with ansible on a
set of machines and reports the results to a server through RabbitMQ.  This
directory models the parts of it in which steps of several threads, processes or
services meet, checks them with TLC on small instances, and proves the main
results with TLAPS for every number of jobs, threads, hosts and tries.

Line numbers are those of the sources beside this directory (`src/...`).

## 1. The system

| component | code | state | operations |
|---|---|---|---|
| web server | `bocloud_worker.py` | the request's row, `threads_pool`, `tps` | `init_request`, `after_request`, `/job/submit`, `/job/recovery`, `/server/status/scan`, read-only pages |
| celery process | `tasks.py`, `celery_config.py` | the celery queue | `async_job_exec`: `job_exec` in another process |
| job execution | `bocloud_worker.job_exec`, `ansible_handler.py`, `result_rabbitMQ.py`, `ansible_utils.handle_job_exception` | `counter`, `ansible_result`, `result_signal` of each thread | mark RUNNING, start, try / retry, collect, report, fail |
| thread monitor | `threads_monitor.py`, `BaseHandler.terminate` | `threads_pool` | pop ended threads, raise `SystemExit` in late ones |
| task tables | `common/db/*.py`, `bocloud_worker_db.sql` | `task_requests`, `async_task_status`, `async_task_result`, one transaction per connection | insert, update, delete, commit with retries; the lookups by queue |
| broker | `rabbitmq_handler.py` | a connection per message | connect, publish, close |
| cluster registration | `node_register.py`, `zk_thread.py`, `base_http_handler.py` | the ephemeral node, the previous children, `is_master` | register, watch, elect, hand a dead worker's jobs to another |
| results and reports | `result_rabbitMQ.py`, `utils.intergrate_messages_by_host`, `check_result`, `_instead_failed_message` | the results, `errors`, `failed_msg`, the last banner | one callback for each event of a play; merging is pure |
| copying files | `action_plugins/bocloud_copy.py`, `modules/bocloud_copy.py` | its arguments, the files of the target | list the sources, copy one file after the other |
| validation | `BaseHandler.check_request`, `utils.check_white_blacklist`, `is_include_ip` | none, except `check_queue_exist` (tables) | pure |
| playbook generation | `ansible_task.py` | temporary files, the script of a `taskNodeId` | text from templates |
| what else runs on the targets | `ansible_handler/modules`, `action_plugins`, `roles` | the target machine | one operation each |
| utilities | `bocloud_logger.py`, `aes_encrptor.py`, `daemon.py`, `status.py` | files | I/O |

**How they interact.**  The web server writes the request and its status NEW,
checks it, and hands it to celery.  The celery process calls `job_exec`: it marks
the row RUNNING, starts an `AnsibleHandler` thread, appends it to `threads_pool`
and waits (`join`, or `result_signal.wait(60)` if the request wants the answer
itself; the scan route calls `job_exec` in the web server).  The thread tries the
playbook up to `MAX_TRY_TIMES` times; ansible calls the callback plugin in the same
thread, which stores every host's result and, on `v2_playbook_on_stats`, publishes
all of them, then marks the row COMPLETE.  Every other way out goes through
`handle_job_exception`, which publishes a failure.  `ThreadsMonitor`, in the web
server's process only, leaves a `SystemExit` pending in threads that are late.  When a worker's
ZooKeeper node disappears, the master asks a living worker to recover: it reads the
NEW and RUNNING rows of the database all workers share and executes them again.

**What is hard.**  Two executions of one job; a retry that must forget what its
failed attempt stored; an exception that arrives between any two steps of a thread,
also in the middle of its error handling; a broker or a database that fails between a report and
the row that says it was made; statements that are executed again because a commit
was locked; ids of one table used in another; an answer read by one thread while
another writes it.

**What correct means**, by component (where the code falls short of it, a property states its exception, or
section 6 has it):

- *job execution*: a job that is marked finished was reported; a thread ends
  silently only because something failed or killed it; one report per execution; a report holds
  results of its last attempt only; the answer of a synchronous job is whole when the caller is
  woken and does not change afterwards; callers and threads do end.
- *task tables*: rows name existing rows; an operation changes rows of its own queue;
  what returned is stored, once; the two halves of a failure are seen together; a finished job is COMPLETE; no lock is left behind.
- *thread monitor*: only late threads are terminated, each at most once, and the
  monitor lives as long as the process.
- *web server and recovery*: of the requests for one queue at most one is let through; a row is COMPLETE for a
  reason; a recovery takes up every NEW row, that of a refused request too (the code does not tell them apart), and ends.
- *registration*: a master hands over the jobs of every worker it saw die, once; of a worker that dies while
  nobody is master no one hands over the jobs.
- *results and reports*: a report fails exactly when something failed; each target has the result that
  explains its outcome; costs add up; no banner is published twice or forgotten.
- *copying*: a call that succeeds has copied everything and says whether it changed anything; nothing else is
  written; a call that fails tears no file; what belongs to one file (mode, directory, temporary file) does not leak
  into the next one.
- *validation*: what is accepted is what a direct definition of the rules accepts.

`PROJECT.json` lists each hazard with its line and the properties that cover it.

## 2. The modules

| module | content | checked by | proofs |
|---|---|---|---|
| `JobExec`, `JobLedger` | the execution of jobs; what the server may rely on | `JobDB`, `JobRecovery`, `JobEnds`, `JobCleanup` | `JobExecProofs` |
| `TaskTables` | the SQLite layer under the tables | `TablesRows` | `TaskTablesProofs` |
| `RequestCheck` | validation of requests and IP lists, as operators | `RequestCheck` | `RequestCheckProofs` |
| `Worker` | requests, celery's queue, recovery, crashes; extends `RequestCheck` | `Worker` | `WorkerProofs` |
| `ThreadsMonitor` | the monitor's passes over the unlocked dictionary | `Monitor`, `MonitorSurvives` | `ThreadsMonitorProofs` |
| `NodeRegister` | registration, election, watch, failover | `Cluster` | `NodeRegisterProofs` |
| `ResultMerge` | the merging of results, as operators | `Reports` | `ReportsProofs` |
| `Reports` | the callbacks of a play, its steps and its report; extends `ResultMerge` | `Reports` | `ReportsProofs` |
| `CopyAction` | `bocloud_copy`, plugin and module | `Copy` | `CopyActionProofs` |

An `MC...` module gives each of them the values of its constants.

How they fit together: `Worker` has a job as three steps (start, report, silence) and relies on
`JobExec` for what happens in between (`FinishedImpliesReported`, `SilenceHasACause`);
`JobExec` has the tables by queue and relies on `TaskTables` for their ids, and on `ThreadsMonitor` for
when a termination may come (any time, from any state of the thread); `Reports` has what
`JobExec` calls a result and a report; `NodeRegister` decides when a recovery is called, which
`Worker` takes as called at any moment.  Each module lets the parts it leaves out
do at least what they can do in their own module.

Every invariant and action property that a passing run checks is a theorem too; what is left to TLC is liveness (section 7).

## 3. JobExec

One module for everything one thread of control runs through, because its hazards
are in the joints: the retry loop, the callback, the report and the tables.

| variable | code |
|---|---|
| `caller` | where `job_exec` is (bocloud_worker.py:353-409), and `recovery_exec` before it |
| `pc`, `counter`, `launched`, `reason` | where `AnsibleHandler.run` is (ansible_handler.py:55-101); `counter`; the number of playbooks launched; the message it fails with |
| `pending`, `data`, `collected` | hosts without a result; `ansible_result["data"]`; `operate_result` of `v2_playbook_on_stats` |
| `answer`, `signal` | `ansible_result["success"]`; `result_signal` |
| `pool`, `kill` | `threads_pool`; the `SystemExit` pending in a thread |
| `status`, `rows` | `async_task_status.status` by queue; `async_task_result` |
| `mq` | the messages published, by thread |
| `faults`, `budget` | what failed for a thread (history), and how often something still may |

The labels of `pc` are the places between which another thread, a failure or a
termination can be observed: `check` (targets), `try` (top of the loop), `launch`
(`_task_exec`), `play` (ansible and its callbacks), `stats`, `store`, `send`,
`finish` (the parts of `v2_playbook_on_stats`), `signal`, `unwind` (leaving
ansible), `sleep`, `fail`, `fail_store`, `fail_signal` (`handle_job_exception`),
`ended`, `dead` (killed).

Ansible itself is a choice: each host is ok, failed, skipped or missing, and the
playbook may raise after any of them or never end.  An operation on the broker or the tables may
fail; a publication may fail before or after the message is out.  A pending
`SystemExit` may be raised before any step of its thread, and the actions `Kill...` say
what happens there: `run` catches it in its `try` and reports, it escapes
elsewhere, a bare `except` of a callback, of `check_targets_category` or of
`send_message` swallows it (and the operation goes on as failed).

Abstractions: a result is the host, the attempt and whether it is ok; wording,
playbooks, per-step messages of `async_playbook` jobs and the merging of messages are left out; a host
has one result per attempt.  Rows are found by queue (TaskTables has the ids), except that
`CleanupMatches` has the WHERE clause as `_generate_where_clause` builds it and the
task id as `get_task_id_by_queue` finds it (`FirstQueue`: the queue with the least id).  A queue may have any number of executions:
celery's, those of recoveries that found its row NEW (`recovery_exec` calls `job_exec` as celery does, bocloud_worker.py:435, also
when celery still holds the task), and those of recoveries that found it RUNNING (`Recoveries`).  What the
web server writes to the tables (NEW, and COMPLETE of a failed request) is `Worker`'s part.

`JobLedger` is the promise to the server.  Its row is never NEW again; it is RUNNING from the start (`Start`) of an execution
that is not a recovery's of a RUNNING row, each of which starts once, and COMPLETE from an execution that itself published
(`Finish`); a recovery (`Recover`) executes what was RUNNING and leaves the row alone.  It does not promise that COMPLETE stays: when
recovery has executed a NEW row that celery still held, celery's execution marks the row RUNNING once more (bocloud_worker_db.py:172
only asks whether it is RUNNING already).  `JobExec!LedgerSpec` is that specification under the
mapping that keeps, of the asynchronous queues, the status, which executions were called and which published.

`LastAttemptReported` has one exception, `Missed`, for what the lost join of `get_task_id_by_queue` (bocloud_worker_db.py:155) does: the cleanup of a job
that does not own the first row deletes the first host's rows of the job that does, so its own first host's stay and are reported.
Its other hosts' rows are deleted, because the OR of the WHERE clause binds last.  In `JobDB` the job with the rows is such a job.

### Properties

Invariants `FinishedImpliesReported`, `SilenceHasACause`, `RunningHasACause`,
`SecondReportNeedsKill`, `LastAttemptReported`, `GivesUpAfterMaxTries`, `AnswerComplete`;
action properties `AnswerFrozen`, `CleanupKeepsOthers`; liveness `EveryThreadEnds`,
`CallerReturns`; refinement `LedgerSpec`.  Each is stated in
words above its definition.

### Fairness

`FairSpec` assumes weak fairness of three actions of each thread: its caller's
(`CallerStep`: the wait has a timeout, so a step is always possible),
its own code (`RunStep`: threads are scheduled, and every call of the code returns or
raises), and a pending exception (`KillStep`: the interpreter raises it at the next
bytecode).  Nothing is assumed of `PlaybookStep`, what ansible does: a playbook may hang.
`EveryThreadEnds` has the fairness of playbooks as its hypothesis (`PlaybooksEnd`), and
`CallerReturns` does without.  `MonitorStep` is never fair: most processes have no monitor.

## 4. TaskTables

`BocloudWorkerDB` over `BaseSqliteDB`, one statement at a time.  A connection (`Conns`)
calls an operation (`op`) that is a sequence of `Statements`; each is preceded by
its lookup (`Begin`, `Lookup`; a committed read outside the transaction), executed
(`Execute`, `ExecuteLocked`), and committed (`Commit`, `CommitLocked`), with the two
nested retry loops of `sqlite_db.py` (`count`, `commits`) as they are: when `commit` has used up its
retries, `insert` catches the error and executes the INSERT once more in the open transaction.
`handle_job_exception`'s operation (`fail`) alone has `commit=False`.  An operation that raises closes
its connection, as the callers do in `finally` (`Raise`); only `AnsibleHandler.run`, which calls `cleanup_results`, has none
(ansible_handler.py:72-73): its connection stays as it is (`StayOpen`), with the lock if it has it, through the
sleep and until Python collects the object, at any later time (`Collect`).  `Crash` is the death of the process.

SQLite is external: one writer, readers see committed tables, a locked commit leaves its
transaction open, ids are AUTOINCREMENT, foreign keys are not enforced (no `PRAGMA
foreign_keys`).  Of the callers two things are assumed: `init_request` stores a request for every POST, any number for one queue, before
anything is checked (bocloud_worker.py:62-69), and the other operations come in any order for any queue that has a status row.
`after_request` has the id of its own request (`Answered`).  `summary` is the valid result `v2_playbook_on_stats` stores
before the row is COMPLETE (result_rabbitMQ.py:429).

Properties: `ReferencesOK`; `LockReleased` (only a cleanup that gave up keeps the lock); `StoredOnce` (what returned is stored, and once unless a
commit used up its retries); `FailureAtomic`; `OnlyOwnRows`; `FinishedUnlessOvertaken`.  The status `get_async_task_status` reads is the first of all
requests of the queue, `set_task_as_finished` writes that of the first request: `Overtaken` says that these are two, which takes a second request
of the queue whose status came before the first's, or a first request without one (a crash, or a request stored twice).

### Worker and RequestCheck

| variable | code |
|---|---|
| `requests`, `tasks`, `status` | `task_requests` and `async_task_status`, in the order of their ids, and the status of a row |
| `at`, `answer` | where the handler of a request is (`init_request`, `check_request`, `handle_job` or `machines_scan`, `after_request`); what its client is told |
| `broker` | celery's queue |
| `run` | the execution of a request by each caller of `job_exec`: celery, the web server, the two loops of a recovery |
| `rec` | `recovery_exec`: its place, the rows it has left, `recovery_request` |
| `published`, `faults` | histories: what was reported, what failed |

A row is known by the request it is of, and the tables are the sequences of their rows in the order of the ids; a row is looked up
through its queue and the first one counts, as in the code.  Operations on the tables
and on celery may fail (celery before or after it has the job); a thread may end in silence; the celery process and the web
server may die, with all they were executing, at any step.  `recovery_exec` is translated with its stale variable
(bocloud_worker.py:455), with `refresh_request_data_...` as it behaves (it takes out no target,
and raises on targets that are no list), and with an exception anywhere ending it.

`OneAdmitted`: `check_queue_exist` counts after the request's own row was inserted, so of two equal requests none
or one is let through, however they interleave.  `CompleteIsExplained`, `RecoveryStartsNew`,
`SecondThreadNeedsTimeout` and `RecoveryEnds` are about the recovery running beside the jobs it recovers.

`RequestCheck` has `check_request_items` over the rules of `api_request` and `check_white_blacklist` over
lists of codes; `MCRequestCheck` compares them with direct definitions of what the rules and the lists mean.
A value is an object, a text, a list or a scalar, and `NamesIn` what Python's `in` finds in it: the keys, the names that occur in the text,
the items of the list.  The direct definition has two surprises in it: for a request with a single target (no list) the work is not looked at
(base_handler.py returns from the loop); and texts and lists pass for objects, so that `"targets": "localhost"`
names a host and `"module": ["name", "args"]` is a whole module (base_handler.py:64-71, 86, 117).

### ThreadsMonitor

`state`, `late` are the threads; `entries`, `pool` the dictionary, in the order of insertion; `pc`, `position`,
`size` the monitor in its pass over it; `terminated` a history.  Threads start, are added, become late and end between any two
steps of the monitor, which has a step for `next`, for `isAlive` and the duration, for `terminate` and for `pop`.  The iterator is
Python 3's: it raises when the size of the dictionary has changed.  `NoThreadForgotten`,
`TerminatedOnce`, `MonitorEnds` hold; that the monitor survives its first `pop` does not (section 6).

### NodeRegister

`proc`, `session`, `sessions`, `znode`, `lock` are ZooKeeper and the processes; `zk_node`, `is_master`, `workers`
the fields of `NodeRegister`; `event`, `keeper`, `watch` a call of the watch that is due, a `ZkThread`
that is due, and the call that is running.  A crash of a process and the expiry of its session are two steps with anything
between; a session may expire while its process lives on; a watch is called once for any number of changes.
`python2` is chosen once: under Python 3 the HTTP client cannot be imported, and a call of the watch that needs it
raises (`ImportFails`).

`TwoMastersNeedExpiry` says exactly when two workers take themselves for the master; `DeathsHandledOnce` that a master which is
through with its watch has tried every death it could see, and had none recovered twice; `QuietMeansRegistered` that a
connected worker with nothing left to do has its znode.  "Tried" is all the code does: a POST that is refused is logged and forgotten.

### ResultMerge and Reports

`Reports` has one action for each callback: `RunnerOk` (of a task, a loop, an include), `RunnerFailed`, `RunnerUnreachable`,
`RunnerSkipped`, play and task starts, and `PlaybookStats`, which merges the results with
`ResultMerge` and reports.  Steps of `async_playbook` jobs connect to RabbitMQ one by one and are lost when no node can be
reached, when the job has a `taskNodeId` (a text has no `update`), or when their formatter returns nothing.
Ansible's own order of events is external and free within a task.

`ResultMerge` says what the loops of `intergrate_messages_by_host` come to, not how they go: the index of the first result of a host
(`FirstOf`), the hosts and the grouped results in the order of those (`InOrder`, `NotAfter`), the earlier results of the same host
(`EarlierOf`), and a fold for the cost of a host, whose last value depends on the order.

`FailureReported` relates the counter of errors to what `check_result` finds in the merged results; `ReportedResult` and
`CostsAddUp` relate the merged results to histories kept as the results came in; `BannerUnlessLost` relates
the banners to the steps sent.  What `ReportedResult` says of the first result's message is the code's, not an
intent: `_instead_failed_message` gives it the last failure's text, whichever host failed.

### CopyAction

One call: `CheckArgs`, `MakeTempfile` or `ListFiles` or `RemoteSrc`, then for each file one of `PassOver`, `CheckOnly`, `SendRaw`,
`RunModule`, `RunFile`, or a failure.  `args`, `dest`, `slash`, `module_return`, `changed` are the variables of
`run` that outlive a file, which is where its hazards are; `target` is the file system of the target.  A module may fail before or after it replaced a link, with an archive half extracted (`tarfile` writes to the place itself,
modules/bocloud_copy.py:344), or when it sets the attributes, with the new text already in place (376-377): `FailedWrites`; a connection may break with a
file half sent.  The properties state their exceptions
(`DestDrifts`, `TakenForFile`, a link that is replaced, what is torn): those are what the code does.
`before` and `applied` are histories: the call and the target as they were at first, and which files the module was run for with which mode.

## 5. The runs

`CHECK_DEADLOCK FALSE` where the system may stop: the instance's jobs are done, its calls or sessions used up.

| run | instance | shows |
|---|---|---|
| `JobDB` | tables; an asynchronous job on two hosts that does not own the first row, a synchronous one, with terminations, on one of them; 2 tries, 1 fault | rows and silences have causes; giving up only after all tries; reports of the last attempt only; answers whole and frozen |
| `JobRecovery` | any two of three executions of one job: celery's, a recovery's of the NEW row, a recovery's of the RUNNING row, with terminations of the last; 2 tries, 1 fault; the first two symmetric | no COMPLETE before a report, and the ledger |
| `JobEnds` | the shipped `is_not_db: true`; an asynchronous and a synchronous job on one host, 2 tries, 1 fault, terminations of both | a second report only after a termination; callers return even if playbooks hang; threads end if playbooks do |
| `TablesRows` | 2 connections, 2 queues with a common host, every operation, any queue submitted again, 4 calls with 2 locked commits, or 3 with 4, `retry_time` 1, 1 crash; symmetric | the six properties of TaskTables |
| `RequestCheck` | every request of up to six keys with right and wrong objects, texts, lists and scalars; every pair of lists with 2 entries in all | validation is what its rules say |
| `Worker` | 2 posts of 5 requests (two for one queue, one synchronous; an empty list of targets; none; a scan), 1 failure, 1 recovery | admission, completion and recovery |
| `Cluster` | 3 workers, 3 sessions, Python 2 and 3; symmetric | election, failover, registration |
| `Monitor` | 3 threads | the monitor forgets nobody and ends |
| `Reports` | 2 tasks, 2 hosts that are two targets, one target, or a single one, 6 kinds of jobs, 2 outages | reports and steps |
| `Copy` | every combination of arguments that matters; trees of 3 files; 25 file systems, with links | what is copied, left alone and said |
| `JobCleanup`, `MonitorSurvives` | | section 6 |

Why these bounds.  *Jobs*: two executions are the most that meet over a row, a pool entry, an event or
a host (further ones only repeat it; `TwoExecutions` stops `JobRecovery` at the third, and the theorems are for any number);
in `JobDB` the asynchronous job has no monitor, as in celery's process, and its termination is in `JobEnds` and in the theorems; two tries have a failed and a last attempt; one
fault is enough to break any step and leaves the others intact, so that a violation would have one cause.
*Tables*: two locked commits use up the inner retry loop of a statement, which is then executed again, and four use up both loops, so that the
operation gives up: a submission, a cleanup that gives up and an operation that finds the lock taken are three calls;
four are two submissions, of both queues or of one, and two operations that race (`FewCallsOrLocks`).
*Worker*: every property relates at most two requests; with one failure each operation fails once, and the
crash of either process comes at each step.
*Cluster*: a master, a worker that dies and one that recovers it are three; with three sessions either each of them runs, or two do and one comes
back, or is elected beside the other.
*Monitor*: with three threads one can be added, one taken out and one looked at in the same pass.
*Reports*: two hosts give every relation of a first failure to a last result; of two outages one may hit a banner and one the report.
*Copy*: every hazard is what one file leaves behind for the next, or a subfolder's for its parent: two files and a subfolder.

### Fairness

That of `JobExec` is in section 3.  `Worker` has weak fairness of each recovery together with `job_exec` when it is the
recovery that calls it (they are one Python thread); nothing is assumed of the threads it starts,
since `join` has a timeout.  `ThreadsMonitor` has weak fairness of the monitor's own steps.
`NodeRegister` and the rest are checked for safety only.

## 6. Where the code contradicts its documents

| run | property | what TLC finds |
|---|---|---|
| `JobCleanup` | `CleanupKeepsOthers` | `a AND b AND t=? OR t=?` (sqlite_db.py:281): a retry deletes results of other jobs on a common host |
| `MonitorSurvives` | `MonitorSurvives` | the pool changes size during a pass, or a thread ends before it is terminated (threads_monitor.py:38): the exception ends the monitor, and no timeout is enforced any more |

Modelling showed more, which the modules contain as the code has it and which no run is spent on.  Each can be
seen by changing the instance that is named:

- without a database the second try dies in `cleanup_results` (ansible_handler.py:73): one launch, reported as
  "Exceed the max try times" (`GivesUpAfterMaxTries` with `UseDB = FALSE`);
- `get_task_id_by_queue` drops its join (bocloud_worker_db.py:155): for a job that is not the first of the table a retry
  cleans another job's results and reports its own first host's old ones (`JobDB`, `LastAttemptReported` without `Missed`);
- a bare `except` of a callback swallows the termination (result_rabbitMQ.py:234), and the hung playbook runs on;
- a request stored twice by a locked commit (sqlite_db.py:99) has its status on the second row:
  `set_task_as_finished` updates the first's and returns, as it does for a queue with two requests whose statuses came in the other order
  (`FinishedUnlessOvertaken` without `Overtaken`);
- celery's execution of a job that recovery already executed sets COMPLETE back to RUNNING (bocloud_worker_db.py:172; `JobLedger!Start` with a guard
  that the job is not COMPLETE);
- a cleanup that gave up keeps the database locked through the sleep and the next try (ansible_handler.py:72; `LockReleased` without `"cleanup"`);
- `refresh_request_data_...` compares result ids with a request id (bocloud_worker_db.py:309) and deletes another job's
  result (`OnlyOwnRows` without its exception).

## 7. What is proved

Eight modules of proofs are checked by TLAPS to the last step.  In each, inductive
invariants are shown to hold initially and to be preserved by every action, one lemma or case per action, and the
properties follow from them.  The bounds on sessions, faults, calls, crashes, tasks and outages are constants there: any number.
No proof assumes more of the constants than the `ASSUME` of the module it is about, which TLC evaluates on every run, but for one theorem
of `JobExecProofs` and two of `CopyActionProofs` that say so.

| module | run | properties proved |
|---|---|---|
| `JobExecProofs` | `JobDB`, `JobRecovery`, `JobEnds` | `TypeOK`, `FinishedImpliesReported`, `SilenceHasACause`, `LedgerSpec`, `SecondReportNeedsKill`, `RunningHasACause`, `AnswerComplete`, `AnswerFrozen`, `GivesUpAfterMaxTries`, `LastAttemptReported` |
| `TaskTablesProofs` | `TablesRows` | `LockReleased`, `ReferencesOK`, `StoredOnce`, `FailureAtomic`, `OnlyOwnRows`, `FinishedUnlessOvertaken` |
| `WorkerProofs` | `Worker` | `OneAdmitted`, `CompleteIsExplained`, `RecoveryStartsNew`, `SecondThreadNeedsTimeout` |
| `ThreadsMonitorProofs` | `Monitor` | `NoThreadForgotten`, `TerminatedOnce` |
| `NodeRegisterProofs` | `Cluster` | `TwoMastersNeedExpiry`, `DeathsHandledOnce`, `QuietMeansRegistered` |
| `ReportsProofs` | `Reports` | `FailureReported`, `ReportedResult`, `CostsAddUp`, `BannerUnlessLost` |
| `CopyActionProofs` | `Copy` | `FailureKeepsText`, `ModeIsOwn`, `TempfileRemoved`, `OthersUntouched` and `SuccessIsTrue` for ordinary calls |
| `RequestCheckProofs` | `RequestCheck` | `RequestsCheckedAsRuled`, `AccessAsConfigured` |

### JobExecProofs

For any sets of queues, threads and hosts, any `QueueOf` and `IpList`, any `MAX_TRY_TIMES` and any number of
faults that satisfy `ThreadsAssumption` and `BoundsAssumption` (types of the constants).  A queue may have any number of executions, of
recoveries and of others.

| theorem | statement |
|---|---|
| `Invariance` | `Spec => []Inv` |
| `TypeCorrect` | `Spec => []TypeOK`; with it, `counter` never passes `MAX_TRY_TIMES` |
| `FinishedReported` | `Spec => []FinishedImpliesReported` |
| `SilenceExplained` | `Spec => []SilenceHasACause` |
| `LedgerImplemented` | `Spec => LedgerSpec` |

None of the properties is inductive alone: that COMPLETE
follows a report depends on where the thread that writes COMPLETE is, and that a
silence has a cause on every label from which a thread ends.  `Inv` adds

- `RunInv`: how far the thread is bounds `counter` and `launched`, and only synchronous threads reach the signals;
- `ReportInv`: a thread about to write COMPLETE (`finish`, `fail_store`) has published;
- `CauseInv`: a pending termination is in `faults`; an asynchronous thread that is unwinding or ended and has not
  published was hit by something;
- `StartInv`: only a recovery lists a row.

The module first states once what the helpers do (`ReportFacts`, `GotoFacts`, `FailJobFacts`,
`AttemptFacts`, `FaultFacts`, `StatusFacts`, `StoreResultFacts`), then what any step does to the histories and
the status (`DeltaStep`: reports and faults only grow; COMPLETE is written by a thread
that is about to finish; RUNNING by the first step of a caller that is not a recovery's), then the preservation of
each part, one case per action.  `LedgerImplemented` maps every step of an execution to `Start`, `Recover`, `Report`, `Finish`
or a stutter of the ledger (`StartMaps`, `CallMaps`, `ReportMaps`, `FinishMaps`), and every other step to a stutter (`SyncMaps`).

The second part of the module is about what a thread reports, under the same assumptions.  `JobInv` is `Inv`, `MarkedInv` (a RUNNING row was marked
by an execution that is not over, or was hit by a fault) and, of each thread, `ThreadInv`:

- `MessagesOf`: none before the report, one then, two only when a termination came after the first;
- `DataOf`, `AnswerOf`: what a synchronous thread has answered, and that its signal is set when the answer is whole;
- `TriesOf`, `ExceededOf`: every counted attempt launched the playbook, unless the tables failed;
- `RowsOf`, `CollectedOf`, `ReportedOf`: what is stored, read back and reported is of the last attempt, but for the rows its cleanup misses;
- `FinishOf`: a thread whose caller waits for it was started.  With it, `EndsWell`: a thread that ends unharmed completes its row in that step.

Each part is preserved by the steps of its own thread (`Step`), one case per action; that the other threads leave it alone is proved once
(`Locality`).  One theorem has a hypothesis, because the code is wrong without it (section 6): `TriesExhausted` (`GivesUpAfterMaxTries`) has
`UseDB`, since `cleanup_results` raises at every retry without tables; it holds in the run that checks it.  `LastAttempt` (`LastAttemptReported`) is
about the jobs of every queue: the exception of the property (`Missed`) is the code's for all but the first row's.

### ThreadsMonitorProofs

For any set of threads, with no assumption.  `Invariance`, `TypeCorrect`, `NoneForgotten` (`NoThreadForgotten`) and
`EachTerminatedOnce` (`TerminatedOnce`).  That a thread is terminated once rests on the step after the termination, which takes it out
of the pool, and on the thread never being added again: `PoolInv` says that a terminated thread is in the
pool only while the monitor is about to pop that very thread, and that it terminates or pops only what its
tests allowed.  These hold although the pool changes in the middle of the pass.

### NodeRegisterProofs

For any set of workers and any number of sessions.  `Invariance`, `TypeCorrect`, `MastersExclude` (`TwoMastersNeedExpiry`),
`DeathsHandled` (`DeathsHandledOnce`) and `QuietRegistered` (`QuietMeansRegistered`).  The invariant adds to the types

- `LockInv`: as long as the session a master was elected in lives, it holds the lock;
- `EventInv`: a connected worker without a znode has a call of its watch coming;
- `GoneInv`: what a master has lost sight of is in the list it was given last, and is being looked at or has a call of the watch coming;
- `RecoveredInv`: what a master had recovered is not looked at again unless it came back.

`RegisterFacts`, `RegisterGone` and `EndSessionFacts` state what a znode's creation and the end of a session do, whoever causes them.

### TaskTablesProofs

For any sets of connections, queues and hosts, any `retry_time`, and any number of calls, locked commits and crashes, under
`TablesAssumption` (types of the constants, and that `NoOne` is no connection).  All six properties of `TablesRows`, from three invariants:

- `Inv` says at which stages a connection may hold the lock (`LockInv`): from a statement to its commit;
  `handle_job_exception`'s connection also from one of its statements to the next, because it commits only at the end;
  and a cleanup's after it gave up, because nobody closes it.
  `StatementsFacts` says that the last statement of a failing job is its commit, so that no operation ends before it.  `LockReleased` follows.
- `RowsInv` has the tables (ids are given once, every row names one that is there) and, of each connection: who has the open transaction
  (`LockOf`); that its queue has a status row (`AcceptedOf`); that the row it looked up is one of its queue, also when other
  connections committed in between (`ArgOf`); what its transaction cannot have changed (`OwnOf`); and that a failure is in the same
  transaction as COMPLETE (`FailOf`).  `ReferencesOK`, `FailureAtomic` and `OnlyOwnRows` follow.
  Since ids only grow and no request is deleted, the first request of a queue stays the first, however many come after it (`FirstStays`);
  so the statuses of the request that was looked up are COMPLETE when it is committed (`Completed`, `CompletedIs`), and
  `FinishedUnlessOvertaken` follows.
- `CountInv` counts the results of a queue against the calls that returned and those still at work (`CountOf`); with it, `StoredOnce`.

`EffectOK` states once what any statement does to tables that are in order, and each invariant is then preserved by the eight kinds of
steps (`Call`, `Begin`, `Execute`, `Commit`, their locked forms, `Collect`, `Crash`).

### WorkerProofs

For any sets of requests and recoveries, any contents, lists and numbers of posts and failures, under `WorkerAssumption` (every request has
a queue).  `BaseInv` has what the handler of a request, its rows and those who execute it are together (`HandlerOf`), and which rows
a recovery may still have before it (`RowsOK`).  On it rest

- `OneIsAdmitted`: of two admitted requests of one queue the later insertion would have counted the earlier row, as rows are never deleted;
- `CompleteHasAReason`, by `CompleteInv`: the explanation is a request whose client has its answer, so that later steps keep it;
- `EveryNewIsTakenUp`, by `SettledInv`: of the rows a recovery listed, each is settled, still before it, or the one its thread runs;
- `SecondIsLate`, by `ThreadInv`: a thread of the first loop that lives is the one that is waited for, or was given up.

### ReportsProofs

For any jobs (any hosts, and any targets they are), any number of tasks and outages.

`BannersComeFirst` rests on `Remembered`: no task to come has a step, and the banner of the current one is remembered exactly when a step of it
was published or lost.  `CallbackCases` reduces every callback to what it does to the steps (`SendsStep`, `LosesStep`, nothing) and to the results.

`ResultsInv` says that the histories and `errors` are those of the results (`Tracked`, `Counted`), and that a report is made of the results of an
ended play.  The rest is about what `ResultMerge` computes, for sequences of any length:

- `InOrderProperties`: of a finite set with a total order, `InOrder` is the bijection from its places (`LeastNat`, `MinOfIndices`, `MaxOfIndices`
  say that the choices it is built from exist);
- `HostsOfProperties`: each host once; `OneResultPerHostFields`, `AllResultsOrdered`, `InsteadFields`: the fields of the merged results;
- `MergedChecked`: `check_result` of the merged results fails exactly when one of the results did; with it `FailuresAreReported`
  and `ResultsAreReported`;
- `CostsTelescope`: the costs of a host among the first k merged results add up to the cost its last one had, by the least k for which they do not;
  with it `CostsAreOwn`.

### CopyActionProofs

For any calls and targets that satisfy `CopyAssumption` (their types).  `CallInv` has what a call leaves of its arguments (`ArgsInv`) and that nothing is done
before the files are listed (`PhaseInv`).  `TextsInv` says of each file that it was a link, has its text or that of a
source file that was taken up, the one that fails included, or is torn where files are sent to their places themselves or an archive is extracted
(`OnlyInPlaceTears`; `FailedWritesKeep` says what a write that fails leaves); `ModesInv` that with "preserve" the mode is asked for anew for each file, unless no
module was run for the one before (`ModesAreOwn`); `TempfileInv` where the temporary file of `content` may still be there (`NoTempfileIsLeft`).

`OthersUntouched` and `SuccessIsTrue` speak of the place of each file, and hold of *ordinary* calls only.  `Ordinary(call, target)` says that
paths are sequences of names, and a source file has a name and a text; that links lead to files; that where a file is to go
there is no directory, nor one to be made for another file; that no directory is copied with `remote_src`;
and that neither a `dest` with a "/" nor the place of an archive that is to follow links is a link.
`Apart(call, target)` says besides that no two places of different names are one file, and that what is there is in directories.
What they exclude is odd, and there the code may write elsewhere, or two files to one place.  `MCCopyAction` assumes both of every call and target of the
instance (`OrdinaryInstance`), so that TLC evaluates them: nothing the run checks is excluded.

| theorem | statement |
|---|---|
| `OthersAreUntouched` | `Spec => [](Ordinary(before.args, before.target) => OthersUntouched)` |
| `SuccessIsAlwaysTrue` | `Spec => [](Ordinary(before.args, before.target) /\ Apart(before.args, before.target) => SuccessIsTrue)` |

- `FlattenElements`: the list of the files (`FlattenSeq`) has source files only; the concatenation of k lists exists by the
  least k for which it does not (`ConcatenationExists`).
- `ModuleWrites`, `FileModuleWrites`: what a module does to a target, as the spots it writes and the ways it makes directories on;
  `StepWrites` says the same of each step, and `SpotsAreNamed` that the spots are places of source files.
- `PlacesInv`: a link leads where it led or is none any more, nothing vanishes, and no directory comes where a file is to go.
  `DestInv`: `dest` is what the call says, or, once a link was followed, the file it led to (`Drifted`): all later files are written there,
  which is why `OthersUntouched` has what the places link to, and `SuccessIsTrue` excepts `DestDrifts`.
- `ModuleDiffers`, `NotSkipped`: the module sees the differences the plugin saw, and passes a file over that the plugin did not only where a directory
  is taken for the file (`TakenForFile`).  `ModuleTells`: so it says whether it changed anything; for an archive whose text is there already,
  because its directories are there too (`ArchiveInv`, kept by `AboveKept`).
- `ChangeInv`: the call remembers each change, and the only module of a list of one says so itself.  `CopiedInv`: the files before the next one are where they
  are to be (`StepLands` for the one that is copied, `CopiedKept` for those before it).

The proof found `Given`, on which `OthersUntouched` rests, at fault for a call with `content` and `remote_src`:
the code creates the temporary file then (bocloud_copy.py, `run`), and its place is the one that may be written.

### RequestCheckProofs

`RequestCheck` has operators only, and its theorems are about all their arguments; `api_request` is the code's, with its rules as they are.

- `SubmitIsRuled` and `ScanAndLogviewAreRuled`: of any body, which are accepted.  They rest on what the loop over the two items of a rule
  does (`TwoNecessary`, from the definition of `FoldLeft`), on what is asked of each item (`KeyIsThere`, `TargetsChecked`), on what Python's `in`
  finds in an object, a text, a list or a scalar (`NamesAreHeld`) and on the
  exclusion of the options (`TwoOptions`).
- `AccessIsRuled`: for an address of any length and lists of any length, an address is let in exactly when the lists name it; each
  code is read as the set of the numbers it covers (`CodeCovers`, `ListNames`).
- `BodiesCheckedAsRuled` and `ListsAdmitAsConfigured`: from these and a type invariant, the two properties of the run, for bodies and lists
  built in any order and of any length.

The proof found the model at fault once: `CheckArg` had been a `CASE` with a missing key in two of its arms, so that TLC
took the first and the definition allowed both; it now asks for the key first, as the code does.

### Only model-checked

- *Liveness* (`EveryThreadEnds`, `CallerReturns`, `MonitorEnds`, `RecoveryEnds`) is out of the prover's reach;
  that of `JobExec` is checked without the tables, whose operations return or raise at once.
- `CleanupKeepsOthers` and `MonitorSurvives` are violated (section 6).

The library's induction theorems take an operator as their parameter, which the installed provers cannot instantiate.  Where a proof needs
induction over data (`SumExists`, `CostsTelescope`, `ConcatenationExists`) it takes the least counterexample, from the theorem on well-founded
relations that is stated for sets.

## 8. What is not modelled

- *Pages and counters of the web server*: `/status`, `/logview` and `tps` keep nothing another part reads.
- *Playbook generation*: text from templates; that it may raise, or give no playbook, is in `JobExec`.
- *The script file of a `taskNodeId`* (ansible_task.py:196): two jobs with one id write and remove one temporary file.  Nothing
  excludes such jobs, so there is no property to state.
- *Other modules and action plugins, roles*: one operation each, on the target machines, sharing no state with the worker; the
  MongoDB role is taken over from elsewhere.
- *Callbacks of asynchronous tasks* (`v2_runner_on_async_*`): no playbook of the worker uses `async`.
- *`value_scope`* of a rule: no rule has one.
- *`backup` and `directory_mode` of `bocloud_copy`*, and all members of an archive but one.  Where an archive's member is to go there may be a
  link: `tarfile` writes through it, the model replaces it.
- *A timeout of `null`*: `job_exec` then waits and joins without bound, and with it a recovery; `CallerReturns` and `RecoveryEnds` are about requests
  whose timeout is a number.
- *How a value of no kind a rule expects is refused*: `in` raises on a scalar and the request is answered with an error; in the model it is refused.
- *Logging, encryption, daemon*: I/O and formatting.
- `custom_message` and `zookeeper_handler.py` have no callers.
