------------------------------- MODULE Reports -------------------------------
(***************************************************************************)
(* What the CallbackModule of a job (callback_plugins/result_rabbitMQ.py)  *)
(* makes of the events of its play: the results, the steps it publishes    *)
(* for "async_playbook", and in the end the report.  Ansible is external:  *)
(* it runs the tasks in order on every host that has not failed, the hosts *)
(* answer a task in any order, and what a callback raises is a warning.    *)
(*                                                                         *)
(* How the results are kept (rows or a list) and retried is the part of    *)
(* JobExec; here they are the sequence they are read back as, of a job     *)
(* that is reported when its play ends.                                    *)
(***************************************************************************)
EXTENDS ResultMerge

CONSTANTS
  Jobs,       \* [response, playbook_script, node_id, is_not_db, facts, ip]: ip is of each
              \* host of the inventory, an alias or an ip, the ip of its target
  MaxTasks,   \* bound: the tasks of the play
  MaxOutages  \* bound: how often no node of RabbitMQ can be reached

ASSUME ReportsAssumption ==
  /\ \A job \in Jobs : job.response \in {"sync", "async", "async_playbook"}
  /\ MaxTasks \in Nat /\ MaxOutages \in Nat

VARIABLES
  job,          \* the request
  play,         \* external: "start", "running" or "ended"
  task, due, active,   \* external: the task, the hosts to answer for it, those that go on
  clock,        \* time.time() - self.time_stamp
  data,         \* the results
  errors, failed_msg,
  banner,       \* self._last_task_banner
  sent,         \* the steps that were published
  outages,
  report,
  expected,     \* history: of an ip its first failure, or else its last result
  ended_at,     \* history: when the last task of an ip ended
  lost          \* history: the tasks whose first steps were lost

results == <<clock, data, errors, failed_msg>>
steps == <<banner, sent, outages, lost>>
history == <<expected, ended_at>>
vars == <<job, play, task, due, active, results, steps, report, history>>

NoReport == [made |-> FALSE, success |-> FALSE, data |-> <<>>]
NoTask == -2
Whole == -1     \* a step of the whole play: its banner, the recap
GatherFacts == 0
Text(h) == <<h, task>>
Hosts == DOMAIN job.ip

Init ==
  /\ job \in Jobs
  /\ play = "start" /\ task = (IF job.facts THEN GatherFacts - 1 ELSE GatherFacts)
  /\ due = {} /\ active = Hosts
  /\ clock = 0 /\ data = <<>> /\ errors = 0 /\ failed_msg = <<>>
  /\ banner = NoTask /\ sent = <<>> /\ outages = 0 /\ lost = {}
  /\ report = NoReport
  /\ expected = <<>> /\ ended_at = <<>>

----------------------------------------------------------------------------
(* The steps. *)

(* init_connection_channel: the nodes in a random order, until one connects. *)
Connect(reachable) ==
  IF reachable THEN UNCHANGED outages ELSE outages < MaxOutages /\ outages' = outages + 1

SentOf(t) == {i \in DOMAIN sent : sent[i].task = t}

Lose(t) == lost' = IF SentOf(t) = {} THEN lost \cup {t} ELSE lost

(* send_playbook_result, send_message_to_rabbitmq: each step connects, for   *)
(* self.rabbitmq is never set; a text has no update to add taskNodeId with.  *)
Send(step) ==
  IF job.node_id
  THEN Lose(step.task) /\ UNCHANGED <<sent, outages>>
  ELSE \E reachable \in BOOLEAN :
         /\ Connect(reachable)
         /\ IF reachable
            THEN sent' = Append(sent, step) /\ UNCHANGED lost
            ELSE Lose(step.task) /\ UNCHANGED sent

(* Mutant: the task of a banner is not remembered. *)
PrintForgotten == UNCHANGED banner

(* _print_task_banner, called when this is not the task of the last one. *)
PrintTaskBanner == banner' = task

(* The formatted answer of a host: the banner once a task, then its line; of *)
(* a loop the line is left out, and an empty text is not sent.               *)
SendStep(h, body) ==
  IF job.response # "async_playbook" THEN UNCHANGED steps
  ELSE /\ PrintTaskBanner
       /\ IF banner = task /\ ~body THEN UNCHANGED <<sent, outages, lost>>
          ELSE Send([task |-> task, host |-> h, banner |-> banner # task, body |-> body])

(* The formatter of a failure has no return, and that of an answer returns   *)
(* nothing for an include: the banner is remembered, and nothing is sent.    *)
LoseStep ==
  IF job.response # "async_playbook" THEN UNCHANGED steps
  ELSE PrintTaskBanner /\ Lose(task) /\ UNCHANGED <<sent, outages>>

SendWhole(whole_banner) ==
  /\ UNCHANGED banner
  /\ Send([task |-> Whole, host |-> "", banner |-> whole_banner, body |-> ~whole_banner])

----------------------------------------------------------------------------
(* The results. *)

(* modify_msg: the ip of the target instead of its alias. *)
HostOf(h) == job.ip[h]

(* filter_result, modify_result, insert_message_to_sqlite. *)
Insert(host, success, skipped, msg) ==
  LET result == [host |-> host, success |-> success, skipped |-> skipped, cost |-> clock + 1, msg |-> msg]
  IN
  /\ clock' = clock + 1
  /\ data' = Append(data, result)
  /\ ended_at' = [x \in DOMAIN ended_at \cup {host} |-> IF x = host THEN clock + 1 ELSE ended_at[x]]
  /\ expected' = [x \in DOMAIN expected \cup {host} |->
       IF x # host THEN expected[x]
       ELSE IF x \in DOMAIN expected /\ ~expected[x].success THEN expected[x] ELSE result]

NoResult == UNCHANGED <<clock, data, history>>

Answer(h) ==
  /\ play = "running" /\ h \in due
  /\ due' = due \ {h}
  /\ UNCHANGED <<job, play, task, report>>

(* v2_runner_on_ok: the facts are gathered. *)
FactsOk(h) ==
  /\ task = GatherFacts
  /\ Answer(h)
  /\ NoResult
  /\ UNCHANGED <<active, errors, failed_msg, steps>>

(* v2_runner_on_ok of a plain task, a loop or an include. *)
RunnerOk(h, kind) ==
  /\ task # GatherFacts
  /\ Answer(h)
  /\ Insert(HostOf(h), TRUE, IF kind = "loop" THEN "some" ELSE "no", Text(h))
  /\ IF kind = "include" THEN LoseStep ELSE SendStep(h, kind # "loop")
  /\ UNCHANGED <<active, errors, failed_msg>>

(* v2_runner_on_failed, with a message, without one, or of a loop whose      *)
(* first item has none.                                                      *)
RunnerFailed(h, kind) ==
  /\ Answer(h)
  /\ active' = active \ {h}
  /\ errors' = errors + 1
  /\ failed_msg' = CASE kind = "message" -> Text(h)
                     [] kind = "loop" -> <<>>
                     [] kind = "no message" -> failed_msg
  /\ Insert(HostOf(h), FALSE, IF kind = "loop" THEN "some" ELSE "no", Text(h))
  /\ LoseStep

(* v2_runner_on_failed with ignore_errors. *)
RunnerFailedIgnored(h) ==
  /\ task # GatherFacts
  /\ Answer(h)
  /\ NoResult
  /\ UNCHANGED <<active, errors, failed_msg, steps>>

(* v2_runner_on_unreachable: no step. *)
RunnerUnreachable(h) ==
  /\ Answer(h)
  /\ active' = active \ {h}
  /\ errors' = errors + 1
  /\ Insert(HostOf(h), FALSE, "no", Text(h))
  /\ UNCHANGED <<failed_msg, steps>>

(* v2_runner_on_skipped: no result. *)
RunnerSkipped(h, body) ==
  /\ task # GatherFacts
  /\ Answer(h)
  /\ NoResult
  /\ SendStep(h, body)
  /\ UNCHANGED <<active, errors, failed_msg>>

----------------------------------------------------------------------------
(* The play. *)

(* v2_playbook_on_play_start. *)
PlayStart ==
  /\ play = "start"
  /\ play' = "running"
  /\ IF job.response = "async_playbook" THEN SendWhole(TRUE) ELSE UNCHANGED steps
  /\ UNCHANGED <<job, task, due, active, results, report, history>>

(* v2_playbook_on_task_start: the next task, of the hosts that go on. *)
TaskStart ==
  /\ play = "running" /\ due = {} /\ active # {} /\ task < MaxTasks
  /\ task' = task + 1
  /\ due' = active
  /\ UNCHANGED <<job, play, active, results, steps, report, history>>

(* v2_playbook_on_no_hosts_matched: a result of no host. *)
NoHostsMatched ==
  /\ play = "running" /\ due = {} /\ active = Hosts
  /\ task = (IF job.facts THEN GatherFacts - 1 ELSE GatherFacts)
  /\ active' = {}
  /\ errors' = errors + 1
  /\ Insert("", FALSE, "no", Text(""))
  /\ UNCHANGED <<job, play, task, due, failed_msg, steps, report>>

(* The report of a job that does not wait. *)
IntegratedReport ==
  LET merged == instead_failed_message(intergrate_messages_by_host(data, job.playbook_script), failed_msg)
  IN [made |-> TRUE, success |-> check_result(merged), data |-> merged]

(* The answer of a job that waits: as they came. *)
SyncReport ==
  [made |-> TRUE, success |-> errors = 0 /\ (\A i \in DOMAIN data : data[i].success), data |-> data]

(* v2_playbook_on_stats: the report, and of a playbook with rows the recap. *)
PlaybookStats ==
  /\ play = "running" /\ due = {} /\ (active = {} \/ task = MaxTasks)
  /\ play' = "ended"
  /\ \/ /\ job.response = "sync"
        /\ report' = SyncReport
        /\ UNCHANGED steps
     \/ /\ job.response # "sync"
        /\ report' \in {IntegratedReport} \cup (IF outages < MaxOutages THEN {NoReport} ELSE {})
        /\ IF job.response = "async_playbook" /\ ~job.is_not_db THEN SendWhole(FALSE) ELSE UNCHANGED steps
  /\ UNCHANGED <<job, task, due, active, results, history>>

Ended == play = "ended" /\ UNCHANGED vars

Next ==
  \/ PlayStart \/ NoHostsMatched \/ TaskStart \/ PlaybookStats \/ Ended
  \/ \E h \in due :
       \/ FactsOk(h) \/ RunnerUnreachable(h) \/ RunnerFailedIgnored(h)
       \/ \E kind \in {"plain", "loop", "include"} : RunnerOk(h, kind)
       \/ \E kind \in {"message", "loop", "no message"} : RunnerFailed(h, kind)
       \/ \E body \in BOOLEAN : RunnerSkipped(h, body)

Spec == Init /\ [][Next]_vars

----------------------------------------------------------------------------
(* Properties. *)

(* A report says "success" exactly when nothing failed: check_result, which  *)
(* sees the merged results of a job that does not wait, and the counter of   *)
(* errors agree, also when two hosts of the inventory are one target.        *)
FailureReported == report.made => (report.success <=> errors = 0)

(* The report of a job that is not a playbook script has one result for each *)
(* target that has any: its first failure, or else its last result.  Its     *)
(* message is its own, but for the first: that one has the message of the    *)
(* last failure that had one, whichever host failed (_instead_failed_message). *)
ReportedResult ==
  report.made /\ job.response # "sync" /\ ~job.playbook_script =>
    LET at(i) == report.data[i].host IN
    /\ {at(i) : i \in DOMAIN report.data} = DOMAIN expected
    /\ Len(report.data) = Cardinality(DOMAIN expected)
    /\ \A i \in DOMAIN report.data :
         /\ report.data[i].success = expected[at(i)].success
         /\ report.data[i].msg = IF i = 1 /\ failed_msg # <<>> THEN failed_msg ELSE expected[at(i)].msg

TotalCost(host, merged) ==
  LET total[n \in 0..Len(merged)] ==
        IF n = 0 THEN 0 ELSE total[n - 1] + IF merged[n].host = host THEN merged[n].cost ELSE 0
  IN total[Len(merged)]

(* In the report of a playbook script no result is left out, and the costs   *)
(* of the tasks of a target add up to the time at which its last one ended.  *)
CostsAddUp ==
  report.made /\ job.response # "sync" /\ job.playbook_script =>
    /\ Len(report.data) = Len(data)
    /\ \A host \in DOMAIN ended_at : TotalCost(host, report.data) = ended_at[host]

(* The banner of a task is published with its first step and with no other,  *)
(* unless that step was lost: to a failure or an include, whose formatter    *)
(* returns nothing but remembers the banner, or to an outage.                *)
BannerUnlessLost ==
  \A i \in DOMAIN sent :
    sent[i].task # Whole =>
      (sent[i].banner <=> sent[i].task \notin lost /\ \A j \in SentOf(sent[i].task) : i <= j)
=============================================================================
