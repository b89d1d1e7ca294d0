------------------------------- MODULE Worker -------------------------------
(***************************************************************************)
(* The requests of one database, from the POST to the row that says        *)
(* COMPLETE: the Flask handlers (bocloud_worker.py: init_request,          *)
(* handle_job, machines_scan, after_request), the celery task (tasks.py),  *)
(* and recovery_exec, which reads the rows and executes jobs again.  The   *)
(* database is on (is_not_db: false); without it there are no rows.        *)
(*                                                                         *)
(* What a thread does between its start and its report is JobExec's part:  *)
(* here it is running, then it has published and sets its row COMPLETE, or *)
(* it ends in silence (a fault or a termination, JobExec!SilenceHasACause).*)
(* A request has a queue; the rows are found through it, and the first row *)
(* of a queue is the one the lookups return (TaskTables!FirstRow).         *)
(***************************************************************************)
EXTENDS RequestCheck

CONSTANTS
  Requests,     \* the POSTs of /job/submit and /server/status/scan
  Body,         \* request.json of a request
  Ip,           \* request.remote_addr
  Scans,        \* the requests of /server/status/scan
  Broken,       \* the requests AnsibleTask cannot parse
  Whitelist, Blacklist,
  Recoveries,   \* the calls of recovery_exec
  MaxPosts,     \* bound: how many of the requests are posted
  MaxFailures   \* bound: how many operations on the tables or on celery's broker fail,
                \* threads end without a report and processes die, together

NoRequest == "no request"

ASSUME WorkerAssumption ==
  /\ NoRequest \notin Requests
  /\ Scans \subseteq Requests /\ Broken \subseteq Requests
  /\ \A r \in Requests : "queue" \in DOMAIN Body[r]
  /\ MaxPosts \in Nat /\ MaxFailures \in Nat

VARIABLES
  requests,   \* task_requests: the requests in the order of their ids
  tasks,      \* async_task_status: the requests in the order of its ids
  status,     \* the status of a row of async_task_status
  at,         \* where the handler of a request is
  answer,     \* what the client is told
  broker,     \* celery's queue
  run,        \* where the execution of a request by a caller of job_exec is
  rec,        \* recovery_exec: its place, its rows, recovery_request; the NEW rows and the late jobs
  published,  \* history: the requests an execution reported to RabbitMQ
  faults,     \* history: what an operation failed for: a request or a recovery
  failures    \* how many failures there were

vars == <<requests, tasks, status, at, answer, broker, run, rec, published, faults, failures>>

TASK_NEW == 0
TASK_RUNNING == 1
TASK_COMPLETE == 2
NoRow == -1

Celery == <<"celery">>
Web == <<"web">>
Callers == {Celery, Web} \cup (Recoveries \X {"new", "again"})
Ended == {"done", "silent", "raised", "lost"}

QueueOf(r) == Body[r].queue.text
ResponseOf(r) == IF "response" \in DOMAIN Body[r] THEN Body[r].response.text ELSE "none"
Async(r) == ResponseOf(r) # "sync"
Rule(r) == IF r \in Scans THEN api_request.scan ELSE api_request.submit
(* The id of a row is its place in the table. *)
OfQueue(rows, q) == {i \in DOMAIN rows : QueueOf(rows[i]) = q}
Least(ids) == CHOOSE i \in ids : \A j \in ids : i <= j
First(rows, ids) == IF ids = {} THEN NoRequest ELSE rows[Least(ids)]

(* get_async_task_status and get_request_id_by_queue: row[0]. *)
StatusRow(q) == First(tasks, OfQueue(tasks, q))
RequestRow(q) == First(requests, OfQueue(requests, q))

(* get_new_tasks, get_uncompleted_tasks: the ids of the rows with a status. *)
TasksWith(s) == {i \in DOMAIN tasks : status[tasks[i]] = s}

SetRow(r, s) == status' = IF r # NoRequest /\ status[r] # NoRow THEN [status EXCEPT ![r] = s] ELSE status

(* set_task_as_finished updates the status of the first request of the queue. *)
SetFinished(q) == SetRow(RequestRow(q), TASK_COMPLETE)

Init ==
  /\ requests = <<>> /\ tasks = <<>>
  /\ status = [r \in Requests |-> NoRow]
  /\ at = [r \in Requests |-> "client"]
  /\ answer = [r \in Requests |-> "none"]
  /\ broker = {}
  /\ run = [r \in Requests |-> [c \in Callers |-> "none"]]
  /\ rec = [k \in Recoveries |-> [pc |-> "idle", rows |-> {}, request |-> NoRequest, listed |-> {}, late |-> {}]]
  /\ published = {}
  /\ faults = {}
  /\ failures = 0

NoFault == UNCHANGED <<faults, failures>>

Failure == failures < MaxFailures /\ failures' = failures + 1

Fault(who) ==
  /\ Failure
  /\ faults' = faults \cup {who}

----------------------------------------------------------------------------
(* The handler of a request. *)

Goto(r, place) == at' = [at EXCEPT ![r] = place]

(* Mutant: every answer but success completes the row. *)
NotAccepted(what) == what \in {"failed", "refused"}

(* The answer is 200 and says "success": false. *)
NotSuccessful(what) == what = "failed"

(* after_request has something to do that is modelled only for a failed job: *)
(* else it writes respond_code.  Without a task_request_id it gives up.      *)
Respond(r, what) ==
  /\ answer' = [answer EXCEPT ![r] = what]
  /\ Goto(r, IF NotSuccessful(what) THEN "after" ELSE "answered")

(* init_request: insert_task_requests commits the request, *)
InsertRequest(r) ==
  /\ at[r] = "client"
  /\ Cardinality({s \in Requests : at[s] # "client"}) < MaxPosts
  /\ \/ requests' = Append(requests, r) /\ Goto(r, "stored") /\ NoFault /\ UNCHANGED answer
     \/ Fault(r) /\ Respond(r, "error") /\ UNCHANGED requests
  /\ UNCHANGED <<tasks, status, broker, run, rec, published>>

Allowed(r) == CheckWhiteBlacklist(Ip[r], Whitelist, Blacklist)

(* then its status, in a transaction of its own.  A failure is answered 500. *)
(* Only then the black list is looked at, or abort(403).                      *)
InsertStatus(r) ==
  /\ at[r] = "stored"
  /\ \/ /\ tasks' = Append(tasks, r)
        /\ status' = [status EXCEPT ![r] = TASK_NEW]
        /\ IF Allowed(r) THEN Goto(r, "check") /\ UNCHANGED answer
                         ELSE Respond(r, "refused")
        /\ NoFault
     \/ Fault(r) /\ Respond(r, "error") /\ UNCHANGED <<tasks, status>>
  /\ UNCHANGED <<requests, broker, run, rec, published>>

(* Mutant: the query sees the requests that have been given a status. *)
StatusesCount(q) == \E i \in OfQueue(requests, q) : status[requests[i]] \in {TASK_RUNNING, TASK_COMPLETE}

(* check_queue_exist counts the rows of the queue, its own is one of them. *)
QueueExists(q) == Cardinality(OfQueue(requests, q)) > 1

(* check_request, or abort(400).  A query that fails finds no queue; a     *)
(* connection that fails is not there to be closed, which is answered 500. *)
CheckRequest(r) ==
  /\ at[r] = "check"
  /\ \E exists \in BOOLEAN :
       /\ \/ NoFault /\ exists = QueueExists(QueueOf(r))
          \/ Fault(r) /\ ~exists
       /\ IF ~exists /\ CheckRequestItems(Rule(r), Body[r])
          THEN Goto(r, "send") /\ UNCHANGED answer
          ELSE Respond(r, "refused")
  /\ UNCHANGED <<requests, tasks, status, broker, run, rec, published>>

CheckRequestRaises(r) ==
  /\ at[r] = "check"
  /\ Fault(r)
  /\ Respond(r, "error")
  /\ UNCHANGED <<requests, tasks, status, broker, run, rec, published>>

(* handle_job: apply_async, which may fail before or after celery has the job. *)
Send(r) ==
  /\ at[r] = "send"
  /\ r \notin Scans
  /\ \/ /\ NoFault
        /\ broker' = broker \cup {r}
        /\ IF Async(r) THEN Respond(r, "accepted")
                        ELSE Goto(r, "wait") /\ UNCHANGED answer
     \/ /\ Fault(r)
        /\ broker' \in {broker, broker \cup {r}}
        /\ Respond(r, "failed")
  /\ UNCHANGED <<requests, tasks, status, run, rec, published>>

Call(r, c, how) == run' = [run EXCEPT ![r][c] = how]

(* machines_scan calls job_exec itself. *)
Scan(r) ==
  /\ at[r] = "send"
  /\ r \in Scans
  /\ Call(r, Web, "start")
  /\ Goto(r, "wait")
  /\ UNCHANGED <<requests, tasks, status, answer, broker, rec, published, faults, failures>>

Executor(r) == IF r \in Scans THEN Web ELSE Celery

(***************************************************************************)
(* What the handler waits for: job_exec's answer, which is of a job that   *)
(* went well or not; celery's None for a job that could not be started,    *)
(* which is answered as a success; an exception; or the timeout.           *)
(***************************************************************************)
GetAnswer(r) ==
  /\ at[r] = "wait"
  /\ \/ /\ run[r][Executor(r)] = "done"
        /\ \E a \in {"accepted", "failed"} : (Async(r) => a = "accepted") /\ Respond(r, a)
     \/ run[r][Executor(r)] = "raised" /\ Respond(r, IF r \in Scans THEN "failed" ELSE "accepted")
     \/ run[r][Executor(r)] # "raised" /\ Respond(r, IF r \in Scans /\ Async(r) THEN "accepted" ELSE "failed")
  /\ UNCHANGED <<requests, tasks, status, broker, run, rec, published, faults, failures>>

(* after_request: "success": false completes the first row of the queue. *)
AfterRequest(r) ==
  /\ at[r] = "after"
  /\ \/ NoFault /\ status' = [status EXCEPT ![StatusRow(QueueOf(r))] = TASK_COMPLETE]
     \/ Fault(r) /\ UNCHANGED status
  /\ Goto(r, "answered")
  /\ UNCHANGED <<requests, tasks, answer, broker, run, rec, published>>

----------------------------------------------------------------------------
(* The execution of request r for caller c. *)

(* async_job_exec: celery acknowledges the job before it runs it. *)
Fetch(r) ==
  /\ r \in broker
  /\ broker' = broker \ {r}
  /\ Call(r, Celery, "start")
  /\ UNCHANGED <<requests, tasks, status, at, answer, rec, published, faults, failures>>

(* Mutant: only the jobs of celery are marked. *)
MarksCelery(r, c) == run[r][c] = "start" /\ Async(r) /\ c = Celery

MarksRow(r, c) == run[r][c] = "start" /\ Async(r)

(* len(request_json["targets"]) does not raise. *)
Sized(r) == "targets" \in DOMAIN Body[r] /\ Body[r].targets.kind # "scalar"

(* job_exec: len(request_json["targets"]), then the row is RUNNING, unless   *)
(* it is a synchronous job's or an uncompleted one's; AnsibleHandler(...) and *)
(* start().                                                                   *)
JobExecute(r, c) ==
  /\ run[r][c] \in {"start", "start again"}
  /\ IF ~Sized(r)
     THEN Call(r, c, "raised") /\ NoFault /\ UNCHANGED status
     ELSE /\ Call(r, c, IF r \in Broken THEN "raised" ELSE "running")
          /\ IF MarksRow(r, c)
             THEN \/ NoFault /\ status' = [status EXCEPT ![StatusRow(QueueOf(r))] = TASK_RUNNING]
                  \/ Fault(r) /\ UNCHANGED status
             ELSE NoFault /\ UNCHANGED status
  /\ UNCHANGED <<requests, tasks, at, answer, broker, rec, published>>

(* The thread publishes its report and sets its row finished, of which a     *)
(* failure is logged; the report of a synchronous job is its answer.         *)
Report(r, c) ==
  /\ run[r][c] = "running"
  /\ Call(r, c, "done")
  /\ IF Async(r)
     THEN /\ published' = published \cup {r}
          /\ \/ NoFault /\ SetFinished(QueueOf(r))
             \/ Fault(r) /\ UNCHANGED status
     ELSE UNCHANGED <<status, published>> /\ NoFault
  /\ UNCHANGED <<requests, tasks, at, answer, broker, rec>>

EndInSilence(r, c) ==
  /\ run[r][c] = "running"
  /\ Failure
  /\ Call(r, c, "silent")
  /\ UNCHANGED <<requests, tasks, status, at, answer, broker, rec, published, faults>>

----------------------------------------------------------------------------
(* recovery_exec: first the NEW rows, then the RUNNING ones. *)

(* The row whose turn it is. *)
HeadRow(k) == tasks[Least(rec[k].rows)]
OtherRows(k) == rec[k].rows \ {Least(rec[k].rows)}

Proceed(k, place) == rec' = [rec EXCEPT ![k].pc = place]
RowDone(k, place) == rec' = [rec EXCEPT ![k].pc = place, ![k].rows = OtherRows(k)]

(* An exception anywhere ends the recovery. *)
Abort(k) == Proceed(k, "aborted")

AbortOnFault(k) ==
  /\ rec[k].pc \in {"idle", "new", "old"}
  /\ Fault(k)
  /\ Abort(k)
  /\ UNCHANGED <<requests, tasks, status, at, answer, broker, run, published>>

ListNew(k) ==
  /\ rec[k].pc = "idle"
  /\ rec' = [rec EXCEPT ![k].pc = "new", ![k].rows = TasksWith(TASK_NEW),
                        ![k].listed = {tasks[i] : i \in TasksWith(TASK_NEW)}]
  /\ UNCHANGED <<requests, tasks, status, at, answer, broker, run, published, faults, failures>>

(* Mutant: the job of a row is started and not waited for. *)
RecoverNewUnjoined(k) ==
  /\ rec[k].pc = "new" /\ rec[k].rows # {}
  /\ LET r == HeadRow(k)
     IN IF ResponseOf(r) # "none"
        THEN /\ SetFinished(QueueOf(r))
             /\ rec' = [rec EXCEPT ![k].rows = OtherRows(k), ![k].request = r]
             /\ UNCHANGED run
        ELSE /\ Call(r, <<k, "new">>, "start")
             /\ rec' = [rec EXCEPT ![k].rows = OtherRows(k), ![k].request = r]
             /\ UNCHANGED status
  /\ UNCHANGED <<requests, tasks, at, answer, broker, published, faults, failures>>

(* A request with any "response" is taken for a synchronous one. *)
RecoverNew(k) ==
  /\ rec[k].pc = "new" /\ rec[k].rows # {}
  /\ LET r == HeadRow(k)
     IN IF ResponseOf(r) # "none"
        THEN /\ SetFinished(QueueOf(r))
             /\ rec' = [rec EXCEPT ![k].rows = OtherRows(k), ![k].request = r]
             /\ UNCHANGED run
        ELSE /\ Call(r, <<k, "new">>, "start")
             /\ rec' = [rec EXCEPT ![k].pc = "join new", ![k].request = r]
             /\ UNCHANGED status
  /\ UNCHANGED <<requests, tasks, at, answer, broker, published, faults, failures>>

ListUncompleted(k) ==
  /\ rec[k].pc = "new" /\ rec[k].rows = {}
  /\ rec' = [rec EXCEPT ![k].pc = "old", ![k].rows = TasksWith(TASK_RUNNING)]
  /\ UNCHANGED <<requests, tasks, status, at, answer, broker, run, published, faults, failures>>

(* refresh_request_data_... iterates over the targets and asks each for its  *)
(* "host"; none is ever taken out, since the valid results name no target.   *)
NoTargets(r) == Body[r].targets \in {List(<<>>), Dict({})}
TargetsRaise(r) ==
  \/ ~Sized(r)
  \/ /\ ~NoTargets(r)
     /\ Body[r].targets.kind = "list" =>
          \E item \in Range(Body[r].targets.items) : item.kind = "dict" => "host" \notin item.keys

(* recovery_request.get("response") is asked of the last NEW row's request. *)
LastResponds(k) == rec[k].request # NoRequest /\ ResponseOf(rec[k].request) # "none"

RecoverUncompleted(k) ==
  /\ rec[k].pc = "old" /\ rec[k].rows # {}
  /\ LET r == HeadRow(k)
     IN \/ TargetsRaise(r) /\ Abort(k) /\ NoFault /\ UNCHANGED <<status, run, published>>
        \/ /\ ~TargetsRaise(r) /\ NoTargets(r)
           /\ published' = published \cup {r}
           /\ \/ NoFault /\ SetFinished(QueueOf(r)) /\ RowDone(k, "old")
              \/ Fault(k) /\ UNCHANGED status /\ Abort(k)
           /\ UNCHANGED run
        \/ /\ ~TargetsRaise(r) /\ ~NoTargets(r)
           /\ LastResponds(k)
           /\ SetFinished(QueueOf(rec[k].request))
           /\ RowDone(k, "old")
           /\ NoFault /\ UNCHANGED <<run, published>>
        \/ /\ ~TargetsRaise(r) /\ ~NoTargets(r)
           /\ ~LastResponds(k)
           /\ Call(r, <<k, "again">>, "start again")
           /\ Proceed(k, "join old")
           /\ NoFault /\ UNCHANGED <<status, published>>
  /\ UNCHANGED <<requests, tasks, at, answer, broker>>

(* Mutant: join() without a timeout. *)
JoinForever(k, place, caller, next) ==
  /\ rec[k].pc = place
  /\ LET state == run[HeadRow(k)][caller]
     IN \/ state = "raised" /\ Abort(k)
        \/ state \in Ended \ {"raised"} /\ RowDone(k, next)
  /\ UNCHANGED <<requests, tasks, status, at, answer, broker, run, published, faults, failures>>

(* job_exec returns: the thread ended, or join timed out and it goes on. *)
Join(k, place, caller, next) ==
  /\ rec[k].pc = place
  /\ LET r == HeadRow(k)
         state == run[r][caller]
     IN \/ state = "raised" /\ Abort(k)
        \/ state \in Ended \ {"raised"} /\ RowDone(k, next)
        \/ /\ state \in {"running"}
           /\ rec' = [rec EXCEPT ![k].pc = next, ![k].rows = OtherRows(k), ![k].late = @ \cup {r}]
  /\ UNCHANGED <<requests, tasks, status, at, answer, broker, run, published, faults, failures>>

JoinNew(k) == Join(k, "join new", <<k, "new">>, "new")
JoinUncompleted(k) == Join(k, "join old", <<k, "again">>, "old")

RecoveryDone(k) ==
  /\ rec[k].pc = "old" /\ rec[k].rows = {}
  /\ Proceed(k, "done")
  /\ UNCHANGED <<requests, tasks, status, at, answer, broker, run, published, faults, failures>>

----------------------------------------------------------------------------
(* A process dies with its threads, and is started again. *)

Crash(callers) ==
  /\ Failure
  /\ run' = [r \in Requests |-> [c \in Callers |->
               IF c \in callers /\ run[r][c] \notin Ended \cup {"none"} THEN "lost" ELSE run[r][c]]]
  /\ UNCHANGED <<requests, tasks, status, broker, published, faults>>

CeleryDies == Crash({Celery}) /\ UNCHANGED <<at, answer, rec>>

WebDies ==
  /\ Crash(Callers \ {Celery})
  /\ at' = [r \in Requests |-> IF at[r] = "client" THEN "client" ELSE "answered"]
  /\ answer' = [r \in Requests |-> IF at[r] \in {"client", "answered"} THEN answer[r] ELSE "none"]
  /\ rec' = [k \in Recoveries |-> IF rec[k].pc \in {"idle", "done", "aborted"} THEN rec[k]
                                  ELSE [rec[k] EXCEPT !.pc = "aborted"]]

HandlerStep(r) ==
  \/ InsertRequest(r) \/ InsertStatus(r) \/ CheckRequest(r) \/ CheckRequestRaises(r)
  \/ Send(r) \/ Scan(r) \/ GetAnswer(r) \/ AfterRequest(r)

ThreadStep(r, c) == Report(r, c) \/ EndInSilence(r, c)

RecoveryStep(k) ==
  \/ RecoverNew(k) \/ ListUncompleted(k) \/ RecoverUncompleted(k)
  \/ JoinNew(k) \/ JoinUncompleted(k) \/ RecoveryDone(k)

Next ==
  \/ \E r \in Requests : HandlerStep(r) \/ Fetch(r)
  \/ \E r \in Requests, c \in Callers : JobExecute(r, c) \/ ThreadStep(r, c)
  \/ \E k \in Recoveries : ListNew(k) \/ RecoveryStep(k) \/ AbortOnFault(k)
  \/ CeleryDies \/ WebDies

Spec == Init /\ [][Next]_vars

(* The thread of a recovery runs on, in job_exec too; nothing is assumed of *)
(* the threads it starts.                                                   *)
Fairness ==
  \A k \in Recoveries :
    WF_vars(RecoveryStep(k) \/ \E r \in Requests, loop \in {"new", "again"} : JobExecute(r, <<k, loop>>))

FairSpec == Spec /\ Fairness

----------------------------------------------------------------------------
(* The properties. *)

Admitted(r) ==
  \/ at[r] \in {"send", "wait"} \/ answer[r] \in {"accepted", "failed"}
  \/ r \in broker \/ run[r][Celery] # "none" \/ run[r][Web] # "none"

(* Of the requests for one queue, however their handlers interleave, at most *)
(* one is let through, unless the query of check_queue_exist failed.         *)
OneAdmitted ==
  \A r, s \in Requests :
    r # s /\ QueueOf(r) = QueueOf(s) /\ Admitted(r) /\ Admitted(s) => {r, s} \cap faults # {}

(* A row is COMPLETE only when a job of its queue was reported, its client   *)
(* was told of the failure, or a recovery took it for a synchronous one.     *)
CompleteIsExplained ==
  \A r \in Requests : status[r] = TASK_COMPLETE =>
    \E s \in Requests :
      /\ QueueOf(s) = QueueOf(r)
      /\ \/ s \in published
         \/ answer[s] = "failed"
         \/ ResponseOf(s) # "none" /\ \E k \in Recoveries : s \in rec[k].listed

(* A recovery that has been through the NEW rows leaves none of them NEW     *)
(* that is the row of its queue, unless marking it failed: the next recovery *)
(* does not start it again.                                                  *)
RecoveryStartsNew ==
  \A k \in Recoveries : rec[k].pc \in {"old", "join old", "done"} =>
    \A r \in rec[k].listed : status[r] = TASK_NEW => r \in faults \/ RequestRow(QueueOf(r)) # r
                                                   \/ StatusRow(QueueOf(r)) # r

Live == {"start", "start again", "running"}

(* One recovery has two threads of a job at once only if it stopped waiting  *)
(* for the first: a job that outlives job_timeout is listed as uncompleted.  *)
SecondThreadNeedsTimeout ==
  \A k \in Recoveries, r \in Requests :
    run[r][<<k, "new">>] \in Live /\ run[r][<<k, "again">>] \in Live => r \in rec[k].late

(* Whatever the threads do, a recovery comes to an end. *)
RecoveryEnds == \A k \in Recoveries : rec[k].pc # "idle" ~> rec[k].pc \in {"done", "aborted"}
=============================================================================
