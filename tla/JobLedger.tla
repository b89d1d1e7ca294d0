----------------------------- MODULE JobLedger -----------------------------
(***************************************************************************)
(* What the worker promises the server about the asynchronous jobs.  A job *)
(* may be executed many times: by celery, by the recovery that found its   *)
(* row NEW while celery still held it, by a recovery that found it RUNNING.*)
(* Its row never is NEW again once it left NEW; it is RUNNING from the     *)
(* start of an execution that is not a recovery's, each of which starts    *)
(* once, and COMPLETE from an execution that itself published a report.  A *)
(* recovery executes what was RUNNING and leaves the row where it is.      *)
(***************************************************************************)
EXTENDS Naturals

CONSTANTS
  Jobs,
  Executions,
  Recoveries,   \* those of recovery=True
  JobOf

VARIABLES
  status,     \* async_task_status.status, by job
  started,    \* the executions that were called
  reported    \* those that published a message

ledgerVars == <<status, started, reported>>

TASK_NEW == 0
TASK_RUNNING == 1
TASK_COMPLETE == 2

Init ==
  /\ status = [j \in Jobs |-> TASK_NEW]
  /\ started = {}
  /\ reported = {}

(* The row is marked, or the tables fail. *)
Start(e) ==
  /\ e \in Executions \ (started \cup Recoveries)
  /\ started' = started \cup {e}
  /\ \/ status' = [status EXCEPT ![JobOf[e]] = TASK_RUNNING]
     \/ UNCHANGED status
  /\ UNCHANGED reported

Recover(e) ==
  /\ e \in Recoveries \ started
  /\ status[JobOf[e]] = TASK_RUNNING
  /\ started' = started \cup {e}
  /\ UNCHANGED <<status, reported>>

Report(e) ==
  /\ e \in started
  /\ reported' = reported \cup {e}
  /\ UNCHANGED <<status, started>>

Finish(e) ==
  /\ e \in reported
  /\ status' = [status EXCEPT ![JobOf[e]] = TASK_COMPLETE]
  /\ UNCHANGED <<started, reported>>

Next == \E e \in Executions : Start(e) \/ Recover(e) \/ Report(e) \/ Finish(e)

Spec == Init /\ [][Next]_ledgerVars
=============================================================================
