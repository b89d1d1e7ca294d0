--------------------------- MODULE JobExecProofs ---------------------------
(***************************************************************************)
(* Proofs about JobExec, for any number of threads, queues, hosts, tries   *)
(* and faults.  The first part is about what the tables say of the whole   *)
(* of the threads, and its inductive invariant is                          *)
(*                                                                         *)
(*   Inv == TypeOK /\ RunInv /\ ReportInv /\ FinishedImpliesReported        *)
(*            /\ CauseInv /\ StartInv                                       *)
(*                                                                         *)
(* The second is about what a job reports and answers.  A thread shares    *)
(* the tables only with the others (Locality), so its inductive invariant  *)
(* is one of each thread:                                                  *)
(*                                                                         *)
(*   JobInv == Inv /\ MarkedInv /\ \A t \in Threads : ThreadInv(t)          *)
(*                                                                         *)
(* ThreadInv has a part for the messages of a thread, its answer, its      *)
(* tries, its results and its row.                                         *)
(***************************************************************************)
EXTENDS JobExec, TLAPS

(* Where the thread is bounds its counters; only a synchronous thread signals. *)
RunInv ==
  \A t \in Threads :
    /\ caller[t] \in {"idle", "listed", "start", "raised"} => pc[t] = "none"
    /\ pc[t] \in {"none", "check"} => counter[t] = 0 /\ launched[t] = 0
    /\ pc[t] \in {"try", "launch", "sleep"} => counter[t] < MAX_TRY_TIMES /\ launched[t] <= counter[t]
    /\ pc[t] \in {"play", "stats", "store", "send", "finish", "signal", "unwind"} =>
         counter[t] < MAX_TRY_TIMES /\ launched[t] <= counter[t] + 1
    /\ pc[t] \in {"signal", "fail_signal"} => t \in SyncThreads

(* A thread about to write COMPLETE has published. *)
ReportInv == \A t \in Threads : pc[t] \in {"finish", "fail_store"} => mq[t] # <<>>

(* A thread past its report, without one, was hit by a fault. *)
CauseInv ==
  /\ \A t \in kill : "kill" \in faults[t]
  /\ \A t \in Threads :
       Async(t) /\ pc[t] \in {"unwind", "ended", "dead"} /\ mq[t] = <<>> => faults[t] # {}

(* Only recovery_exec lists rows. *)
StartInv == \A t \in Threads \ Recoveries : caller[t] # "listed"

Inv ==
  /\ TypeOK
  /\ RunInv
  /\ ReportInv /\ FinishedImpliesReported
  /\ CauseInv
  /\ StartInv

(* What a step may do to the history of messages and faults, and to the status. *)
Grows ==
  /\ \A t \in Threads : mq[t] # <<>> => mq'[t] # <<>>
  /\ \A t \in Threads : faults[t] # {} => faults'[t] # {}

CallerStepOK ==
  \A t \in Threads :
    \/ caller'[t] = caller[t]
    \/ t \in Recoveries /\ caller[t] = "idle" /\ caller'[t] = "listed" /\ status[QueueOf[t]] = TASK_RUNNING
    \/ t \notin Recoveries /\ caller[t] = "idle" /\ caller'[t] = "start"
    \/ caller[t] # "idle" /\ caller'[t] \notin {"idle", "listed"}

(* A step of thread t: of its caller, of ThreadsMonitor on it, or its own. *)
Step(t) == CallerStep(t) \/ MonitorStep(t) \/ ThreadStep(t)

(* It publishes for t at most, or writes its row: its caller marks it, or the *)
(* thread, which is about to finish, completes it.                            *)
Effect(t) ==
  \/ status' = status /\ mq' = mq
  \/ /\ status' = status /\ caller' = caller /\ pc[t] # "none"
     /\ \A u \in Threads \ {t} : mq'[u] = mq[u]
  \/ /\ mq' = mq
     /\ Marks(t) /\ caller[t] = "idle" /\ caller'[t] = "start" /\ SetStatus(t, TASK_RUNNING)
  \/ /\ mq' = mq /\ caller' = caller
     /\ pc[t] \in {"finish", "fail_store"} /\ SetStatus(t, TASK_COMPLETE)

StatusStep == \E t \in Threads : Effect(t)

----------------------------------------------------------------------------
(* What the helpers of the actions return. *)

(* insert_message_to_sqlite stores a row, or a message, of the tables' type. *)
LEMMA ResultType ==
  ASSUME TypeOK, NEW t \in Threads, NEW h \in Hosts \cup {"", "0.0.0.0"}, NEW ok \in BOOLEAN
  PROVE  Result(t, h, ok) \in Row /\ Summary(t, h, ok) \in Row
BY ThreadsAssumption DEF TypeOK, ControlTypeOK, ResultTypeOK, StatusTypeOK, Result, Summary, TableRow, Row

(* Publishing appends one message to the thread's. *)
LEMMA PublishType ==
  ASSUME TypeOK, NEW t \in Threads, NEW kind \in Reasons \cup {"final"},
         NEW msgRows \in SUBSET Row, Publish(t, kind, msgRows)
  PROVE  /\ mq' \in [Threads -> Seq(Message)]
         /\ mq'[t] # <<>>
         /\ \A u \in Threads : mq[u] # <<>> => mq'[u] # <<>>
         /\ \A u \in Threads : u # t => mq'[u] = mq[u]
<1> DEFINE m == [kind |-> kind, rows |-> msgRows]
<1>1. m \in Message
  BY DEF Message
<1> HIDE DEF m
<1>2. mq[t] \in Seq(Message) /\ mq \in [Threads -> Seq(Message)]
  BY DEF TypeOK, ControlTypeOK, ResultTypeOK, StatusTypeOK
<1>3. Append(mq[t], m) \in Seq(Message) /\ Append(mq[t], m) # <<>>
  BY <1>1, <1>2
<1>4. mq' = [mq EXCEPT ![t] = Append(mq[t], m)]
  BY DEF Publish, m
<1> QED
  BY <1>2, <1>3, <1>4

(* The two messages a thread publishes: its results, or why it failed. *)
LEMMA ReportFacts ==
  ASSUME TypeOK, NEW t \in Threads,
         Publish(t, "final", collected[t]) \/ Publish(t, reason[t], {})
  PROVE  /\ mq' \in [Threads -> Seq(Message)]
         /\ mq'[t] # <<>>
         /\ \A u \in Threads : mq[u] # <<>> => mq'[u] # <<>>
         /\ \A u \in Threads : u # t => mq'[u] = mq[u]
<1>1. collected[t] \in SUBSET Row /\ {} \in SUBSET Row /\ reason[t] \in Reasons
  BY DEF TypeOK, ControlTypeOK, ResultTypeOK
<1>2. CASE Publish(t, "final", collected[t])
  BY <1>1, <1>2, PublishType
<1>3. CASE Publish(t, reason[t], {})
  BY <1>1, <1>3, PublishType
<1> QED
  BY <1>2, <1>3

LEMMA GotoFacts ==
  ASSUME TypeOK, NEW t \in Threads, NEW label \in Labels, Goto(t, label)
  PROVE  /\ pc' \in [Threads -> Labels]
         /\ pc'[t] = label
         /\ \A u \in Threads : u # t => pc'[u] = pc[u]
BY DEF TypeOK, ControlTypeOK, ResultTypeOK, StatusTypeOK, Goto

LEMMA FailJobFacts ==
  ASSUME TypeOK, NEW t \in Threads, NEW msg \in Reasons, FailJob(t, msg)
  PROVE  /\ pc' \in [Threads -> Labels]
         /\ reason' \in [Threads -> Reasons]
         /\ pc'[t] = "fail"
         /\ \A u \in Threads : u # t => pc'[u] = pc[u]
<1>1. pc' = [pc EXCEPT ![t] = "fail"] /\ reason' = [reason EXCEPT ![t] = msg]
  BY DEF FailJob, Goto
<1>2. "fail" \in Labels
  BY DEF Labels
<1> QED
  BY <1>1, <1>2 DEF TypeOK, ControlTypeOK, ResultTypeOK, StatusTypeOK

(* A failed attempt is counted; the thread retries only while tries are left. *)
LEMMA AttemptFacts ==
  ASSUME TypeOK, NEW t \in Threads, counter[t] < MAX_TRY_TIMES, AttemptFails(t)
  PROVE  /\ pc' \in [Threads -> Labels]
         /\ reason' \in [Threads -> Reasons]
         /\ counter' \in [Threads -> 0..MAX_TRY_TIMES]
         /\ counter'[t] = counter[t] + 1
         /\ pc'[t] \in {"sleep", "fail"}
         /\ pc'[t] = "sleep" => counter'[t] < MAX_TRY_TIMES
         /\ \A u \in Threads : u # t => pc'[u] = pc[u] /\ counter'[u] = counter[u]
<1>1. /\ counter' = [counter EXCEPT ![t] = counter[t] + 1]
      /\ counter[t] \in 0..MAX_TRY_TIMES /\ counter[t] + 1 \in 0..MAX_TRY_TIMES
  BY BoundsAssumption DEF AttemptFails, TypeOK, ControlTypeOK, ResultTypeOK, StatusTypeOK
<1>2. /\ counter' \in [Threads -> 0..MAX_TRY_TIMES]
      /\ counter'[t] = counter[t] + 1
      /\ \A u \in Threads : u # t => counter'[u] = counter[u]
  BY <1>1 DEF TypeOK, ControlTypeOK, ResultTypeOK, StatusTypeOK
<1>3. CASE counter[t] + 1 >= MAX_TRY_TIMES
  <2>1. FailJob(t, "exceeded")
    BY <1>3 DEF AttemptFails
  <2> QED
    BY <1>2, <2>1, FailJobFacts DEF Reasons
<1>4. CASE ~(counter[t] + 1 >= MAX_TRY_TIMES)
  <2>1. Goto(t, "sleep") /\ UNCHANGED reason
    BY <1>4 DEF AttemptFails
  <2>2. "sleep" \in Labels
    BY DEF Labels
  <2> QED
    BY <1>1, <1>2, <1>4, <2>1, <2>2, GotoFacts, BoundsAssumption DEF TypeOK, ControlTypeOK, ResultTypeOK, StatusTypeOK
<1> QED
  BY <1>3, <1>4

(* A fault spends the budget and is remembered. *)
LEMMA FaultFacts ==
  ASSUME TypeOK, NEW t \in Threads, NEW kind \in FaultKinds, Fault(t, kind)
  PROVE  /\ faults' \in [Threads -> SUBSET FaultKinds] /\ budget' \in 0..MaxFaults
         /\ faults'[t] # {}
         /\ \A u \in Threads : faults[u] \subseteq faults'[u]
<1>1. budget' \in 0..MaxFaults
  BY BoundsAssumption DEF TypeOK, ControlTypeOK, ResultTypeOK, StatusTypeOK, Fault
<1>2. faults' = [faults EXCEPT ![t] = faults[t] \cup {kind}]
  BY DEF Fault
<1>3. faults \in [Threads -> SUBSET FaultKinds]
  BY DEF TypeOK, ControlTypeOK, ResultTypeOK, StatusTypeOK
<1> QED
  BY <1>1, <1>2, <1>3

LEMMA StatusFacts ==
  ASSUME TypeOK, NEW t \in Threads, NEW s \in Statuses, SetStatus(t, s)
  PROVE  /\ status' \in [Queues -> Statuses]
         /\ status'[QueueOf[t]] = s
         /\ \A q \in Queues : q # QueueOf[t] => status'[q] = status[q]
BY ThreadsAssumption DEF TypeOK, ControlTypeOK, ResultTypeOK, StatusTypeOK, SetStatus

(* A callback adds one row to the table or to the data, or loses it to a fault. *)
LEMMA StoreResultFacts ==
  ASSUME TypeOK, NEW t \in Threads, NEW h \in Hosts \cup {"", "0.0.0.0"}, NEW ok \in BOOLEAN,
         StoreResult(t, h, ok)
  PROVE  /\ rows' \subseteq Row
         /\ data' \in [Threads -> SUBSET Row]
         /\ faults' \in [Threads -> SUBSET FaultKinds] /\ budget' \in 0..MaxFaults
         /\ \A u \in Threads : faults[u] \subseteq faults'[u]
<1>1. rows \subseteq Row /\ data \in [Threads -> SUBSET Row]
      /\ faults \in [Threads -> SUBSET FaultKinds] /\ budget \in 0..MaxFaults
  BY DEF TypeOK, ResultTypeOK, StatusTypeOK
<1>2. Result(t, h, ok) \in Row
  BY ResultType
<1>3. CASE Stored(t) /\ rows' = rows \cup {Result(t, h, ok)} /\ UNCHANGED data /\ NoFault
  BY <1>1, <1>2, <1>3 DEF NoFault, faultVars
<1>4. CASE Stored(t) /\ Fault(t, "db") /\ UNCHANGED <<rows, data>>
  BY <1>1, <1>4, FaultFacts DEF FaultKinds
<1>5. CASE /\ ~Stored(t)
           /\ data' = [data EXCEPT ![t] = data[t] \cup {Result(t, h, ok)}]
           /\ UNCHANGED rows
           /\ NoFault
  BY <1>1, <1>2, <1>5 DEF NoFault, faultVars
<1> QED
  BY <1>3, <1>4, <1>5 DEF StoreResult

----------------------------------------------------------------------------
(* Each part of the invariant is kept by every step: one step of the proof per action. *)

(* Every step keeps the types; the bounds of the counters need RunInv. *)
LEMMA TypeStep ==
  ASSUME TypeOK, RunInv, Next
  PROVE  TypeOK'
<1> SUFFICES ASSUME NEW t \in Threads, CallerStep(t) \/ MonitorStep(t) \/ ThreadStep(t)
             PROVE  TypeOK'
  BY DEF Next
<1> USE ThreadsAssumption, BoundsAssumption DEF RunInv, StatusTypeOK, ResultTypeOK,
   CallerStates, TypeOK, ControlTypeOK, Labels, NoFault, callerVars, runVars, playVars,
   answerVars, tableVars, faultVars
<1>1. CASE CallerStep(t)
  <2>1. CASE ListUncompleted(t)
    BY <2>1 DEF ListUncompleted
  <2>2. CASE MarkRunning(t)
    BY <2>2, FaultFacts, StatusFacts DEF MarkRunning, Statuses, FaultKinds
  <2>3. CASE StartThread(t)
    BY <2>3, GotoFacts DEF StartThread
  <2>4. CASE ConstructorRaises(t)
    BY <2>4 DEF ConstructorRaises
  <2>5. CASE AppendToPool(t)
    BY <2>5 DEF AppendToPool
  <2>6. CASE CallerAnswered(t)
    BY <2>6 DEF CallerAnswered
  <2>7. CASE CallerTimesOut(t)
    BY <2>7 DEF CallerTimesOut
  <2> QED BY <1>1, <2>1, <2>2, <2>3, <2>4, <2>5, <2>6, <2>7 DEF CallerStep
<1>2. CASE MonitorStep(t)
  <2>1. CASE PopDeadThread(t)
    BY <2>1 DEF PopDeadThread
  <2>2. CASE TerminateThread(t)
    BY <2>2 DEF TerminateThread, FaultKinds
  <2> QED BY <1>2, <2>1, <2>2 DEF MonitorStep
<1>3. CASE RunStep(t)
  <2>1. CASE CheckTargets(t)
    BY <2>1, GotoFacts, FailJobFacts DEF CheckTargets, Reasons
  <2>2. CASE FirstTry(t)
    BY <2>2, GotoFacts DEF FirstTry
  <2>3. CASE CleanupResults(t)
    <3>1. rows' \subseteq Row
      BY <2>3 DEF CleanupResults
    <3>2. StatusTypeOK'
      BY <2>3, FaultFacts DEF CleanupResults, FaultKinds
    <3>3. ControlTypeOK'
      BY <2>3, GotoFacts, AttemptFacts DEF CleanupResults
    <3> QED
      BY <3>1, <3>2, <3>3, <2>3 DEF CleanupResults
  <2>4. CASE TaskExec(t)
    <3>1. Targets(t) \in SUBSET Hosts
      BY DEF Targets
    <3>2. launched' \in [Threads -> 0..MAX_TRY_TIMES]
      BY <2>4 DEF TaskExec
    <3>3. ResultTypeOK'
      <4> HIDE DEF ControlTypeOK, StatusTypeOK, RunInv
      <4>1. data' \in [Threads -> SUBSET Row]
        BY <2>4 DEF TaskExec
      <4>2. pending' \in [Threads -> SUBSET Hosts]
        BY <2>4, <3>1 DEF TaskExec
      <4> QED
        BY <2>4, <4>1, <4>2 DEF TaskExec
    <3>4. CASE Goto(t, "play") /\ UNCHANGED <<counter, reason>>
      BY <2>4, <3>2, <3>3, <3>4, GotoFacts DEF TaskExec
    <3>5. CASE FailJob(t, "value_error") /\ UNCHANGED counter
      BY <2>4, <3>2, <3>3, <3>5, FailJobFacts DEF TaskExec, Reasons
    <3>6. CASE AttemptFails(t)
      BY <2>4, <3>2, <3>3, <3>6, AttemptFacts DEF TaskExec
    <3> QED
      BY <2>4, <3>4, <3>5, <3>6 DEF TaskExec
  <2>5. CASE StatsSync(t)
    BY <2>5, GotoFacts DEF StatsSync
  <2>6. CASE StatsCollect(t)
    <3>1. {r \in rows : r.queue = QueueOf[t] /\ ~r.valid} \in SUBSET Row /\ data[t] \in SUBSET Row
      OBVIOUS
    <3>2. ResultTypeOK'
      <4> HIDE DEF ControlTypeOK, StatusTypeOK, RunInv
      <4>1. collected' \in [Threads -> SUBSET Row]
        BY <2>6, <3>1 DEF StatsCollect
      <4> QED
        BY <2>6, <4>1 DEF StatsCollect
    <3>3. ControlTypeOK'
      BY <2>6, GotoFacts DEF StatsCollect
    <3>4. StatusTypeOK'
      BY <2>6, FaultFacts DEF StatsCollect, FaultKinds
    <3> QED
      BY <3>2, <3>3, <3>4
  <2>7. CASE StatsStore(t)
    <3>1. Summary(t, "0.0.0.0", \A r \in collected[t] : r.ok) \in Row
      BY ResultType
    <3>2. ResultTypeOK'
      BY <2>7, <3>1 DEF StatsStore
    <3>3. ControlTypeOK'
      BY <2>7, GotoFacts DEF StatsStore
    <3>4. StatusTypeOK'
      BY <2>7, FaultFacts DEF StatsStore, FaultKinds
    <3> QED
      BY <3>2, <3>3, <3>4
  <2>8. CASE StatsSend(t)
    <3>1. mq' \in [Threads -> Seq(Message)]
      <4> HIDE DEF ControlTypeOK, StatusTypeOK, RunInv
      <4>1. mq' = mq \/ Publish(t, "final", collected[t])
        BY <2>8 DEF StatsSend
      <4> QED BY <4>1, ReportFacts
    <3>2. ResultTypeOK'
      <4> HIDE DEF ControlTypeOK, StatusTypeOK, RunInv
      <4>1. UNCHANGED <<playVars, answerVars, tableVars>>
        BY <2>8 DEF StatsSend
      <4> QED BY <3>1, <4>1
    <3>3. ControlTypeOK'
      BY <2>8, GotoFacts DEF StatsSend
    <3>4. StatusTypeOK'
      BY <2>8, FaultFacts DEF StatsSend, FaultKinds
    <3> QED BY <3>2, <3>3, <3>4
  <2>9. CASE StatsFinish(t)
    <3>1. ResultTypeOK'
      <4> HIDE DEF ControlTypeOK, StatusTypeOK, RunInv
      <4>1. UNCHANGED <<playVars, answerVars, rows, mq>>
        BY <2>9 DEF StatsFinish
      <4> QED BY <4>1
    <3>2. ControlTypeOK'
      BY <2>9, GotoFacts DEF StatsFinish
    <3>3. CASE SetStatus(t, TASK_COMPLETE) /\ NoFault
      BY <2>9, <3>1, <3>2, <3>3, StatusFacts DEF StatsFinish, Statuses
    <3>4. CASE Fault(t, "db") /\ UNCHANGED status
      BY <2>9, <3>1, <3>2, <3>4, FaultFacts DEF StatsFinish, FaultKinds
    <3> QED BY <2>9, <3>3, <3>4 DEF StatsFinish
  <2>10. CASE Unwind(t)
    BY <2>10, GotoFacts DEF Unwind
  <2>11. CASE Sleep(t)
    BY <2>11, GotoFacts DEF Sleep
  <2>12. CASE FailSync(t)
    BY <2>12, GotoFacts DEF FailSync, Async
  <2>13. CASE FailSend(t)
    <3>1. ResultTypeOK'
      BY <2>13, ReportFacts DEF FailSend
    <3>2. ControlTypeOK'
      BY <2>13, GotoFacts DEF FailSend
    <3>3. StatusTypeOK'
      BY <2>13, FaultFacts DEF FailSend, FaultKinds
    <3> QED
      BY <3>1, <3>2, <3>3
  <2>14. CASE FailStore(t)
    <3>1. Summary(t, "", FALSE) \in Row
      BY ResultType
    <3>2. ResultTypeOK'
      BY <2>14, <3>1 DEF FailStore
    <3>3. ControlTypeOK'
      BY <2>14, GotoFacts DEF FailStore
    <3>4. CASE SetStatus(t, TASK_COMPLETE) /\ NoFault
      BY <2>14, <3>2, <3>3, <3>4, StatusFacts DEF FailStore, Statuses
    <3>5. CASE Fault(t, "db") /\ UNCHANGED tableVars
      BY <2>14, <3>2, <3>3, <3>5, FaultFacts DEF FailStore, FaultKinds
    <3> QED
      BY <2>14, <3>4, <3>5 DEF FailStore
  <2>15. CASE Signal(t)
    BY <2>15, GotoFacts DEF Signal
  <2> QED BY <1>3, <2>1, <2>2, <2>3, <2>4, <2>5, <2>6, <2>7, <2>8, <2>9, <2>10, <2>11,
     <2>12, <2>13, <2>14, <2>15 DEF RunStep
<1>4. CASE PlaybookStep(t)
  <2>1. CASE PlaybookRaises(t)
    BY <2>1, AttemptFacts DEF PlaybookRaises
  <2>2. CASE NoHostsMatched(t)
    <3>1. ResultTypeOK' /\ StatusTypeOK'
      BY <2>2, StoreResultFacts DEF NoHostsMatched
    <3>2. ControlTypeOK'
      BY <2>2, GotoFacts DEF NoHostsMatched
    <3> QED
      BY <3>1, <3>2
  <2>3. CASE PlaybookEnds(t)
    BY <2>3, GotoFacts DEF PlaybookEnds
  <2>4. ASSUME NEW h \in Hosts, HostResult(t, h) PROVE TypeOK'
    <3>1. PICK ok \in BOOLEAN : StoreResult(t, h, ok)
      BY <2>4 DEF HostResult
    <3> HIDE DEF TypeOK, RunInv
    <3>2. /\ rows' \subseteq Row /\ data' \in [Threads -> SUBSET Row]
          /\ faults' \in [Threads -> SUBSET FaultKinds] /\ budget' \in 0..MaxFaults
      BY <3>1, StoreResultFacts
    <3>3. ControlTypeOK'
      BY <2>4 DEF HostResult, TypeOK
    <3> HIDE DEF ControlTypeOK
    <3>4. pending' \in [Threads -> SUBSET Hosts]
      BY <2>4 DEF HostResult, TypeOK
    <3> QED
      BY <2>4, <3>2, <3>3, <3>4 DEF HostResult, TypeOK
  <2>5. ASSUME NEW h \in Hosts, HostSkipped(t, h) PROVE TypeOK'
    BY <2>5 DEF HostSkipped
  <2> QED BY <1>4, <2>1, <2>2, <2>3, <2>4, <2>5 DEF PlaybookStep
<1>5. CASE KillStep(t)
  <2>1. CASE KilledInTry(t)
    BY <2>1, ReportFacts, FailJobFacts DEF KilledInTry, Killed, Reasons
  <2>2. CASE KilledOutsideTry(t)
    <3>1. ControlTypeOK'
      BY <2>2, GotoFacts DEF KilledOutsideTry, Killed
    <3>2. mq' \in [Threads -> Seq(Message)]
      BY <2>2, ReportFacts DEF KilledOutsideTry
    <3>3. /\ data' \in [Threads -> SUBSET Row]
          /\ answer' \in [Threads -> {"none", "success", "failure"}]
      <4> HIDE DEF ControlTypeOK, StatusTypeOK, RunInv
      <4> QED
        BY <2>2 DEF KilledOutsideTry
    <3> QED
      BY <2>2, <3>1, <3>2, <3>3 DEF KilledOutsideTry, Killed
  <2>3. CASE KillSwallowedByCheck(t)
    BY <2>3, FailJobFacts DEF KillSwallowedByCheck, Killed, Reasons
  <2>4. CASE KillSwallowedBySend(t)
    BY <2>4, ReportFacts, GotoFacts DEF KillSwallowedBySend, Killed
  <2>5. ASSUME NEW h \in Hosts, KillSwallowedByCallback(t, h) PROVE TypeOK'
    <3>1. Result(t, h, TRUE) \in Row
      BY ResultType
    <3>2. rows' \subseteq Row /\ data' \in [Threads -> SUBSET Row]
      <4> HIDE DEF ControlTypeOK, StatusTypeOK, RunInv
      <4>1. rows' = rows \/ rows' = rows \cup {Result(t, h, TRUE)}
        BY <2>5 DEF KillSwallowedByCallback
      <4>2. data' = data \/ data' = [data EXCEPT ![t] = @ \cup {Result(t, h, TRUE)}]
        BY <2>5 DEF KillSwallowedByCallback
      <4> HIDE DEF Result
      <4>3. rows' \subseteq Row
        BY <3>1, <4>1
      <4>4. data \in [Threads -> SUBSET Row] /\ data[t] \cup {Result(t, h, TRUE)} \in SUBSET Row
        BY <3>1
      <4>5. data' \in [Threads -> SUBSET Row]
        BY <4>2, <4>4
      <4> QED
        BY <4>3, <4>5
    <3> QED
      BY <2>5, <3>2 DEF KillSwallowedByCallback, Killed
  <2> QED BY <1>5, <2>1, <2>2, <2>3, <2>4, <2>5 DEF KillStep
<1> QED BY <1>1, <1>2, <1>3, <1>4, <1>5 DEF ThreadStep

(* Every step keeps RunInv. *)
LEMMA RunStepInv ==
  ASSUME TypeOK, RunInv, Next
  PROVE  RunInv'
<1> SUFFICES ASSUME NEW t \in Threads, CallerStep(t) \/ MonitorStep(t) \/ ThreadStep(t)
             PROVE  RunInv'
  BY DEF Next
<1> USE BoundsAssumption DEF RunInv, Async, Stored, TypeOK, ControlTypeOK, Labels, NoFault,
   callerVars, runVars, playVars, answerVars, tableVars, faultVars
<1>1. CASE CallerStep(t)
  <2>1. CASE ListUncompleted(t)
    BY <2>1 DEF ListUncompleted
  <2>2. CASE MarkRunning(t)
    BY <2>2, FaultFacts, StatusFacts DEF MarkRunning, Statuses, FaultKinds
  <2>3. CASE StartThread(t)
    BY <2>3, GotoFacts DEF StartThread
  <2>4. CASE ConstructorRaises(t)
    BY <2>4 DEF ConstructorRaises
  <2>5. CASE AppendToPool(t)
    BY <2>5 DEF AppendToPool
  <2>6. CASE CallerAnswered(t)
    BY <2>6 DEF CallerAnswered
  <2>7. CASE CallerTimesOut(t)
    BY <2>7 DEF CallerTimesOut
  <2> QED BY <1>1, <2>1, <2>2, <2>3, <2>4, <2>5, <2>6, <2>7 DEF CallerStep
<1>2. CASE MonitorStep(t)
  <2>1. CASE PopDeadThread(t)
    BY <2>1 DEF PopDeadThread
  <2>2. CASE TerminateThread(t)
    BY <2>2 DEF TerminateThread, FaultKinds
  <2> QED BY <1>2, <2>1, <2>2 DEF MonitorStep
<1>3. CASE RunStep(t)
  <2>1. CASE CheckTargets(t)
    BY <2>1, GotoFacts, FailJobFacts DEF CheckTargets, Reasons
  <2>2. CASE FirstTry(t)
    BY <2>2, GotoFacts DEF FirstTry
  <2>3. CASE CleanupResults(t)
    BY <2>3, GotoFacts, AttemptFacts, FaultFacts DEF CleanupResults, FaultKinds
  <2>4. CASE TaskExec(t)
    BY <2>4, GotoFacts, FailJobFacts, AttemptFacts DEF TaskExec, Targets, Reasons
  <2>5. CASE StatsSync(t)
    BY <2>5, GotoFacts DEF StatsSync
  <2>6. CASE StatsCollect(t)
    BY <2>6, GotoFacts, FaultFacts DEF StatsCollect, FaultKinds
  <2>7. CASE StatsStore(t)
    BY <2>7, ResultType, GotoFacts, FaultFacts DEF StatsStore, FaultKinds
  <2>8. CASE StatsSend(t)
    <3>1. /\ Goto(t, "finish") \/ Goto(t, "unwind")
          /\ pc[t] = "send" /\ UNCHANGED <<caller, counter, launched>>
      BY <2>8 DEF StatsSend
    <3> QED BY <3>1, GotoFacts
  <2>9. CASE StatsFinish(t)
    BY <2>9, GotoFacts, FaultFacts, StatusFacts DEF StatsFinish, FaultKinds, Statuses
  <2>10. CASE Unwind(t)
    BY <2>10, GotoFacts DEF Unwind
  <2>11. CASE Sleep(t)
    BY <2>11, GotoFacts DEF Sleep
  <2>12. CASE FailSync(t)
    BY <2>12, GotoFacts DEF FailSync, Async
  <2>13. CASE FailSend(t)
    <3>1. /\ Goto(t, "dead") \/ Goto(t, "fail_store") \/ Goto(t, "ended")
          /\ pc[t] = "fail" /\ UNCHANGED <<caller, counter, launched>>
      BY <2>13 DEF FailSend
    <3> QED BY <3>1, GotoFacts
  <2>14. CASE FailStore(t)
    <3>1. Goto(t, "ended") /\ pc[t] = "fail_store" /\ UNCHANGED <<caller, counter, launched>>
      BY <2>14 DEF FailStore
    <3> QED BY <3>1, GotoFacts
  <2>15. CASE Signal(t)
    BY <2>15, GotoFacts DEF Signal
  <2> QED BY <1>3, <2>1, <2>2, <2>3, <2>4, <2>5, <2>6, <2>7, <2>8, <2>9, <2>10, <2>11,
     <2>12, <2>13, <2>14, <2>15 DEF RunStep
<1>4. CASE PlaybookStep(t)
  <2>1. CASE PlaybookRaises(t)
    BY <2>1, AttemptFacts DEF PlaybookRaises
  <2>2. CASE NoHostsMatched(t)
    BY <2>2, GotoFacts, StoreResultFacts DEF NoHostsMatched
  <2>3. CASE PlaybookEnds(t)
    BY <2>3, GotoFacts DEF PlaybookEnds
  <2>4. ASSUME NEW h \in Hosts, HostResult(t, h) PROVE RunInv'
    BY <2>4, StoreResultFacts DEF HostResult
  <2>5. ASSUME NEW h \in Hosts, HostSkipped(t, h) PROVE RunInv'
    BY <2>5 DEF HostSkipped
  <2> QED BY <1>4, <2>1, <2>2, <2>3, <2>4, <2>5 DEF PlaybookStep
<1>5. CASE KillStep(t)
  <2>1. CASE KilledInTry(t)
    BY <2>1, ReportFacts, FailJobFacts DEF KilledInTry, Killed, Reasons
  <2>2. CASE KilledOutsideTry(t)
    BY <2>2, ReportFacts, GotoFacts DEF KilledOutsideTry, Killed
  <2>3. CASE KillSwallowedByCheck(t)
    BY <2>3, FailJobFacts DEF KillSwallowedByCheck, Killed, Reasons
  <2>4. CASE KillSwallowedBySend(t)
    BY <2>4, ReportFacts, GotoFacts DEF KillSwallowedBySend, Killed
  <2>5. ASSUME NEW h \in Hosts, KillSwallowedByCallback(t, h) PROVE RunInv'
    BY <2>5, ResultType DEF KillSwallowedByCallback, Killed
  <2> QED BY <1>5, <2>1, <2>2, <2>3, <2>4, <2>5 DEF KillStep
<1> QED BY <1>1, <1>2, <1>3, <1>4, <1>5 DEF ThreadStep

(* Messages and faults are never taken back; only a thread's own caller, at its   *)
(* first step, marks its row, and only a thread about to finish completes its row. *)
LEMMA DeltaStep ==
  ASSUME TypeOK, RunInv, NEW t \in Threads, Step(t)
  PROVE  Grows /\ CallerStepOK /\ Effect(t)
<1> USE ThreadsAssumption DEF Grows, CallerStepOK, Effect, ResultTypeOK,
   StatusTypeOK, TypeOK, ControlTypeOK, Labels, NoFault, callerVars, runVars, playVars,
   answerVars, tableVars, faultVars
<1>1. CASE CallerStep(t)
  <2>1. CASE ListUncompleted(t)
    BY <2>1 DEF ListUncompleted
  <2>2. CASE MarkRunning(t)
    <3>1. Grows /\ CallerStepOK
      BY <2>2, FaultFacts DEF MarkRunning, FaultKinds
    <3>2. CASE Marks(t) /\ SetStatus(t, TASK_RUNNING)
      BY <2>2, <3>1, <3>2 DEF MarkRunning, Marks
    <3>3. CASE UNCHANGED status
      BY <2>2, <3>1, <3>3 DEF MarkRunning
    <3> QED
      BY <2>2, <3>2, <3>3 DEF MarkRunning
  <2>3. CASE StartThread(t)
    BY <2>3, GotoFacts DEF StartThread
  <2>4. CASE ConstructorRaises(t)
    BY <2>4 DEF ConstructorRaises
  <2>5. CASE AppendToPool(t)
    BY <2>5 DEF AppendToPool
  <2>6. CASE CallerAnswered(t)
    BY <2>6 DEF CallerAnswered
  <2>7. CASE CallerTimesOut(t)
    BY <2>7 DEF CallerTimesOut
  <2> QED BY <1>1, <2>1, <2>2, <2>3, <2>4, <2>5, <2>6, <2>7 DEF CallerStep
<1>2. CASE MonitorStep(t)
  <2>1. CASE PopDeadThread(t)
    BY <2>1 DEF PopDeadThread
  <2>2. CASE TerminateThread(t)
    BY <2>2 DEF TerminateThread, FaultKinds
  <2> QED BY <1>2, <2>1, <2>2 DEF MonitorStep
<1>3. CASE RunStep(t)
  <2>1. CASE CheckTargets(t)
    BY <2>1, GotoFacts, FailJobFacts DEF CheckTargets, Reasons
  <2>2. CASE FirstTry(t)
    BY <2>2, GotoFacts DEF FirstTry
  <2>3. CASE CleanupResults(t)
    BY <2>3, GotoFacts, AttemptFacts, FaultFacts DEF CleanupResults, FaultKinds
  <2>4. CASE TaskExec(t)
    BY <2>4, GotoFacts, FailJobFacts, AttemptFacts DEF TaskExec, Targets, Reasons
  <2>5. CASE StatsSync(t)
    BY <2>5, GotoFacts DEF StatsSync
  <2>6. CASE StatsCollect(t)
    BY <2>6, GotoFacts, FaultFacts DEF StatsCollect, FaultKinds
  <2>7. CASE StatsStore(t)
    BY <2>7, ResultType, GotoFacts, FaultFacts DEF StatsStore, FaultKinds
  <2>8. CASE StatsSend(t)
    <3>1. /\ Publish(t, "final", collected[t]) \/ mq' = mq
          /\ Fault(t, "broker") \/ faults' = faults
          /\ UNCHANGED <<caller, status>> /\ pc[t] # "none"
      BY <2>8 DEF StatsSend
    <3>2. \A u \in Threads : (mq[u] # <<>> => mq'[u] # <<>>) /\ (u # t => mq'[u] = mq[u])
      BY <3>1, ReportFacts
    <3>3. \A u \in Threads : faults[u] # {} => faults'[u] # {}
      BY <3>1, FaultFacts DEF FaultKinds
    <3> QED BY <3>1, <3>2, <3>3
  <2>9. CASE StatsFinish(t)
    BY <2>9, GotoFacts, FaultFacts, StatusFacts DEF StatsFinish, FaultKinds, Statuses
  <2>10. CASE Unwind(t)
    BY <2>10, GotoFacts DEF Unwind
  <2>11. CASE Sleep(t)
    BY <2>11, GotoFacts DEF Sleep
  <2>12. CASE FailSync(t)
    BY <2>12, GotoFacts DEF FailSync, Async
  <2>13. CASE FailSend(t)
    <3>1. /\ Publish(t, reason[t], {}) \/ mq' = mq
          /\ Fault(t, "broker") \/ faults' = faults
          /\ UNCHANGED <<caller, status>> /\ pc[t] # "none"
      BY <2>13 DEF FailSend
    <3>2. \A u \in Threads : (mq[u] # <<>> => mq'[u] # <<>>) /\ (u # t => mq'[u] = mq[u])
      BY <3>1, ReportFacts
    <3>3. \A u \in Threads : faults[u] # {} => faults'[u] # {}
      BY <3>1, FaultFacts DEF FaultKinds
    <3> QED BY <3>1, <3>2, <3>3
  <2>14. CASE FailStore(t)
    BY <2>14, ResultType, GotoFacts, FaultFacts, StatusFacts DEF FailStore, FaultKinds,
       Statuses
  <2>15. CASE Signal(t)
    BY <2>15, GotoFacts DEF Signal
  <2> QED BY <1>3, <2>1, <2>2, <2>3, <2>4, <2>5, <2>6, <2>7, <2>8, <2>9, <2>10, <2>11,
     <2>12, <2>13, <2>14, <2>15 DEF RunStep
<1>4. CASE PlaybookStep(t)
  <2>1. CASE PlaybookRaises(t)
    BY <2>1, AttemptFacts DEF PlaybookRaises
  <2>2. CASE NoHostsMatched(t)
    BY <2>2, GotoFacts, StoreResultFacts DEF NoHostsMatched
  <2>3. CASE PlaybookEnds(t)
    BY <2>3, GotoFacts DEF PlaybookEnds
  <2>4. ASSUME NEW h \in Hosts, HostResult(t, h) PROVE Grows /\ CallerStepOK /\ Effect(t)
    <3>1. PICK ok \in BOOLEAN : StoreResult(t, h, ok)
      BY <2>4 DEF HostResult
    <3>2. \A u \in Threads : faults[u] \subseteq faults'[u]
      <4> HIDE DEF TypeOK
      <4> QED
        BY <3>1, StoreResultFacts
    <3> QED
      BY <2>4, <3>2 DEF HostResult
  <2>5. ASSUME NEW h \in Hosts, HostSkipped(t, h) PROVE Grows /\ CallerStepOK /\ Effect(t)
    BY <2>5 DEF HostSkipped
  <2> QED BY <1>4, <2>1, <2>2, <2>3, <2>4, <2>5 DEF PlaybookStep
<1>5. CASE KillStep(t)
  <2>1. CASE KilledInTry(t)
    BY <2>1, ReportFacts, FailJobFacts DEF KilledInTry, Killed, Reasons
  <2>2. CASE KilledOutsideTry(t)
    BY <2>2, ReportFacts, GotoFacts DEF KilledOutsideTry, Killed
  <2>3. CASE KillSwallowedByCheck(t)
    BY <2>3, FailJobFacts DEF KillSwallowedByCheck, Killed, Reasons
  <2>4. CASE KillSwallowedBySend(t)
    BY <2>4, ReportFacts, GotoFacts DEF KillSwallowedBySend, Killed
  <2>5. ASSUME NEW h \in Hosts, KillSwallowedByCallback(t, h) PROVE Grows /\ CallerStepOK /\ Effect(t)
    BY <2>5, ResultType DEF KillSwallowedByCallback, Killed
  <2> QED BY <1>5, <2>1, <2>2, <2>3, <2>4, <2>5 DEF KillStep
<1> QED BY <1>1, <1>2, <1>3, <1>4, <1>5 DEF Step, ThreadStep

(* Every step keeps ReportInv: a thread gets to finish or fail_store by publishing. *)
LEMMA ReportStep ==
  ASSUME TypeOK, RunInv, ReportInv, Grows, Next
  PROVE  ReportInv'
<1> SUFFICES ASSUME NEW t \in Threads, CallerStep(t) \/ MonitorStep(t) \/ ThreadStep(t)
             PROVE  ReportInv'
  BY DEF Next
<1> USE DEF ReportInv, RunInv, Grows, Stored, TypeOK, ControlTypeOK, Labels, NoFault,
   callerVars, runVars, playVars, answerVars, tableVars, faultVars
<1>1. CASE CallerStep(t)
  <2>1. CASE ListUncompleted(t)
    BY <2>1 DEF ListUncompleted
  <2>2. CASE MarkRunning(t)
    BY <2>2, FaultFacts, StatusFacts DEF MarkRunning, Statuses, FaultKinds
  <2>3. CASE StartThread(t)
    BY <2>3, GotoFacts DEF StartThread
  <2>4. CASE ConstructorRaises(t)
    BY <2>4 DEF ConstructorRaises
  <2>5. CASE AppendToPool(t)
    BY <2>5 DEF AppendToPool
  <2>6. CASE CallerAnswered(t)
    BY <2>6 DEF CallerAnswered
  <2>7. CASE CallerTimesOut(t)
    BY <2>7 DEF CallerTimesOut
  <2> QED BY <1>1, <2>1, <2>2, <2>3, <2>4, <2>5, <2>6, <2>7 DEF CallerStep
<1>2. CASE MonitorStep(t)
  <2>1. CASE PopDeadThread(t)
    BY <2>1 DEF PopDeadThread
  <2>2. CASE TerminateThread(t)
    BY <2>2 DEF TerminateThread, FaultKinds
  <2> QED BY <1>2, <2>1, <2>2 DEF MonitorStep
<1>3. CASE RunStep(t)
  <2>1. CASE CheckTargets(t)
    BY <2>1, GotoFacts, FailJobFacts DEF CheckTargets, Reasons
  <2>2. CASE FirstTry(t)
    BY <2>2, GotoFacts DEF FirstTry
  <2>3. CASE CleanupResults(t)
    BY <2>3, GotoFacts, AttemptFacts, FaultFacts DEF CleanupResults, FaultKinds
  <2>4. CASE TaskExec(t)
    BY <2>4, GotoFacts, FailJobFacts, AttemptFacts DEF TaskExec, Targets, Reasons
  <2>5. CASE StatsSync(t)
    BY <2>5, GotoFacts DEF StatsSync
  <2>6. CASE StatsCollect(t)
    BY <2>6, GotoFacts, FaultFacts DEF StatsCollect, FaultKinds
  <2>7. CASE StatsStore(t)
    BY <2>7, ResultType, GotoFacts, FaultFacts DEF StatsStore, FaultKinds
  <2>8. CASE StatsSend(t)
    <3>1. \A u \in Threads : u # t => pc'[u] = pc[u]
      BY <2>8, GotoFacts DEF StatsSend
    <3>2. pc'[t] \in {"finish", "fail_store"} => mq'[t] # <<>>
      <4>1. CASE Publish(t, "final", collected[t])
        BY <4>1, ReportFacts
      <4>2. CASE Goto(t, "unwind")
        BY <4>2, GotoFacts
      <4> QED
        BY <2>8, <4>1, <4>2 DEF StatsSend
    <3> QED
      BY <3>1, <3>2
  <2>9. CASE StatsFinish(t)
    BY <2>9, GotoFacts, FaultFacts, StatusFacts DEF StatsFinish, FaultKinds, Statuses
  <2>10. CASE Unwind(t)
    BY <2>10, GotoFacts DEF Unwind
  <2>11. CASE Sleep(t)
    BY <2>11, GotoFacts DEF Sleep
  <2>12. CASE FailSync(t)
    BY <2>12, GotoFacts DEF FailSync, Async
  <2>13. CASE FailSend(t)
    BY <2>13, ReportFacts, GotoFacts, FaultFacts DEF FailSend, FaultKinds
  <2>14. CASE FailStore(t)
    BY <2>14, ResultType, GotoFacts, FaultFacts, StatusFacts DEF FailStore, FaultKinds,
       Statuses
  <2>15. CASE Signal(t)
    BY <2>15, GotoFacts DEF Signal
  <2> QED BY <1>3, <2>1, <2>2, <2>3, <2>4, <2>5, <2>6, <2>7, <2>8, <2>9, <2>10, <2>11,
     <2>12, <2>13, <2>14, <2>15 DEF RunStep
<1>4. CASE PlaybookStep(t)
  <2>1. CASE PlaybookRaises(t)
    BY <2>1, AttemptFacts DEF PlaybookRaises
  <2>2. CASE NoHostsMatched(t)
    BY <2>2, GotoFacts, StoreResultFacts DEF NoHostsMatched
  <2>3. CASE PlaybookEnds(t)
    BY <2>3, GotoFacts DEF PlaybookEnds
  <2>4. ASSUME NEW h \in Hosts, HostResult(t, h) PROVE ReportInv'
    BY <2>4, StoreResultFacts DEF HostResult
  <2>5. ASSUME NEW h \in Hosts, HostSkipped(t, h) PROVE ReportInv'
    BY <2>5 DEF HostSkipped
  <2> QED BY <1>4, <2>1, <2>2, <2>3, <2>4, <2>5 DEF PlaybookStep
<1>5. CASE KillStep(t)
  <2>1. CASE KilledInTry(t)
    BY <2>1, ReportFacts, FailJobFacts DEF KilledInTry, Killed, Reasons
  <2>2. CASE KilledOutsideTry(t)
    BY <2>2, ReportFacts, GotoFacts DEF KilledOutsideTry, Killed
  <2>3. CASE KillSwallowedByCheck(t)
    BY <2>3, FailJobFacts DEF KillSwallowedByCheck, Killed, Reasons
  <2>4. CASE KillSwallowedBySend(t)
    BY <2>4, ReportFacts, GotoFacts DEF KillSwallowedBySend, Killed
  <2>5. ASSUME NEW h \in Hosts, KillSwallowedByCallback(t, h) PROVE ReportInv'
    BY <2>5, ResultType DEF KillSwallowedByCallback, Killed
  <2> QED BY <1>5, <2>1, <2>2, <2>3, <2>4, <2>5 DEF KillStep
<1> QED BY <1>1, <1>2, <1>3, <1>4, <1>5 DEF ThreadStep

(* Every step keeps CauseInv: a thread ends through a report, a fault or a kill. *)
LEMMA CauseStep ==
  ASSUME TypeOK, RunInv, ReportInv, CauseInv, Grows, Next
  PROVE  CauseInv'
<1> SUFFICES ASSUME NEW t \in Threads, CallerStep(t) \/ MonitorStep(t) \/ ThreadStep(t)
             PROVE  CauseInv'
  BY DEF Next
<1> USE ThreadsAssumption DEF CauseInv, ReportInv, RunInv, Grows, Async, Stored,
   StatusTypeOK, TypeOK, ControlTypeOK, Labels, NoFault, callerVars, runVars, playVars,
   answerVars, tableVars, faultVars
<1>1. CASE CallerStep(t)
  <2>1. CASE ListUncompleted(t)
    BY <2>1 DEF ListUncompleted
  <2>2. CASE MarkRunning(t)
    BY <2>2, FaultFacts, StatusFacts DEF MarkRunning, Statuses, FaultKinds
  <2>3. CASE StartThread(t)
    BY <2>3, GotoFacts DEF StartThread
  <2>4. CASE ConstructorRaises(t)
    BY <2>4 DEF ConstructorRaises
  <2>5. CASE AppendToPool(t)
    BY <2>5 DEF AppendToPool
  <2>6. CASE CallerAnswered(t)
    BY <2>6 DEF CallerAnswered
  <2>7. CASE CallerTimesOut(t)
    BY <2>7 DEF CallerTimesOut
  <2> QED BY <1>1, <2>1, <2>2, <2>3, <2>4, <2>5, <2>6, <2>7 DEF CallerStep
<1>2. CASE MonitorStep(t)
  <2>1. CASE PopDeadThread(t)
    BY <2>1 DEF PopDeadThread
  <2>2. CASE TerminateThread(t)
    BY <2>2 DEF TerminateThread, FaultKinds
  <2> QED BY <1>2, <2>1, <2>2 DEF MonitorStep
<1>3. CASE RunStep(t)
  <2>1. CASE CheckTargets(t)
    BY <2>1, GotoFacts, FailJobFacts DEF CheckTargets, Reasons
  <2>2. CASE FirstTry(t)
    BY <2>2, GotoFacts DEF FirstTry
  <2>3. CASE CleanupResults(t)
    BY <2>3, GotoFacts, AttemptFacts, FaultFacts DEF CleanupResults, FaultKinds
  <2>4. CASE TaskExec(t)
    BY <2>4, GotoFacts, FailJobFacts, AttemptFacts DEF TaskExec, Targets, Reasons
  <2>5. CASE StatsSync(t)
    BY <2>5, GotoFacts DEF StatsSync
  <2>6. CASE StatsCollect(t)
    <3>1. kill' = kill /\ \A u \in Threads : u # t => pc'[u] = pc[u]
      BY <2>6, GotoFacts DEF StatsCollect
    <3>2. faults \in [Threads -> SUBSET FaultKinds] /\ \A u \in Threads : faults[u] \subseteq faults'[u]
      BY <2>6, FaultFacts DEF StatsCollect, FaultKinds
    <3>3. pc'[t] \in {"unwind", "ended", "dead"} => mq'[t] # <<>> \/ faults'[t] # {}
      <4>1. CASE Fault(t, "db")
        BY <4>1, FaultFacts DEF FaultKinds
      <4>2. CASE Goto(t, "store") \/ Goto(t, "send")
        BY <4>2, GotoFacts
      <4> QED
        BY <2>6, <4>1, <4>2 DEF StatsCollect
    <3> QED
      BY <3>1, <3>2, <3>3
  <2>7. CASE StatsStore(t)
    <3>1. kill' = kill /\ \A u \in Threads : u # t => pc'[u] = pc[u]
      BY <2>7, GotoFacts DEF StatsStore
    <3>2. faults \in [Threads -> SUBSET FaultKinds] /\ \A u \in Threads : faults[u] \subseteq faults'[u]
      BY <2>7, FaultFacts DEF StatsStore, FaultKinds
    <3>3. pc'[t] \in {"unwind", "ended", "dead"} => mq'[t] # <<>> \/ faults'[t] # {}
      <4>1. CASE Fault(t, "db")
        BY <4>1, FaultFacts DEF FaultKinds
      <4>2. CASE Goto(t, "store") \/ Goto(t, "send")
        BY <4>2, GotoFacts
      <4> QED
        BY <2>7, <4>1, <4>2 DEF StatsStore
    <3> QED
      BY <3>1, <3>2, <3>3
  <2>8. CASE StatsSend(t)
    <3>1. kill' = kill /\ \A u \in Threads : u # t => pc'[u] = pc[u]
      BY <2>8, GotoFacts DEF StatsSend
    <3>2. faults \in [Threads -> SUBSET FaultKinds] /\ \A u \in Threads : faults[u] \subseteq faults'[u]
      BY <2>8, FaultFacts DEF StatsSend, FaultKinds
    <3>3. pc'[t] \in {"unwind", "ended", "dead"} => mq'[t] # <<>> \/ faults'[t] # {}
      <4>1. CASE Publish(t, "final", collected[t]) \/ Publish(t, reason[t], {})
        BY <4>1, ReportFacts
      <4>2. CASE Fault(t, "broker")
        BY <4>2, FaultFacts DEF FaultKinds
      <4> QED
        BY <2>8, <4>1, <4>2 DEF StatsSend
    <3> QED
      BY <3>1, <3>2, <3>3
  <2>9. CASE StatsFinish(t)
    <3>1. kill' = kill /\ \A u \in Threads : u # t => pc'[u] = pc[u]
      BY <2>9, GotoFacts DEF StatsFinish
    <3>2. faults \in [Threads -> SUBSET FaultKinds] /\ \A u \in Threads : faults[u] \subseteq faults'[u]
      BY <2>9, FaultFacts DEF StatsFinish, FaultKinds
    <3>3. pc'[t] \in {"unwind", "ended", "dead"} => mq'[t] # <<>> \/ faults'[t] # {}
      <4>1. mq[t] # <<>> /\ mq' = mq
        BY <2>9 DEF StatsFinish
      <4> QED
        BY <4>1
    <3> QED
      BY <3>1, <3>2, <3>3
  <2>10. CASE Unwind(t)
    BY <2>10, GotoFacts DEF Unwind
  <2>11. CASE Sleep(t)
    BY <2>11, GotoFacts DEF Sleep
  <2>12. CASE FailSync(t)
    BY <2>12, GotoFacts DEF FailSync, Async
  <2>13. CASE FailSend(t)
    <3>1. kill' = kill /\ \A u \in Threads : u # t => pc'[u] = pc[u]
      BY <2>13, GotoFacts DEF FailSend
    <3>2. faults \in [Threads -> SUBSET FaultKinds] /\ \A u \in Threads : faults[u] \subseteq faults'[u]
      BY <2>13, FaultFacts DEF FailSend, FaultKinds
    <3>3. pc'[t] \in {"unwind", "ended", "dead"} => mq'[t] # <<>> \/ faults'[t] # {}
      <4>1. CASE Publish(t, "final", collected[t]) \/ Publish(t, reason[t], {})
        BY <4>1, ReportFacts
      <4>2. CASE Fault(t, "broker")
        BY <4>2, FaultFacts DEF FaultKinds
      <4> QED
        BY <2>13, <4>1, <4>2 DEF FailSend
    <3> QED
      BY <3>1, <3>2, <3>3
  <2>14. CASE FailStore(t)
    <3>1. kill' = kill /\ \A u \in Threads : u # t => pc'[u] = pc[u]
      BY <2>14, GotoFacts DEF FailStore
    <3>2. faults \in [Threads -> SUBSET FaultKinds] /\ \A u \in Threads : faults[u] \subseteq faults'[u]
      BY <2>14, FaultFacts DEF FailStore, FaultKinds
    <3>3. pc'[t] \in {"unwind", "ended", "dead"} => mq'[t] # <<>> \/ faults'[t] # {}
      <4>1. mq[t] # <<>> /\ mq' = mq
        BY <2>14 DEF FailStore
      <4> QED
        BY <4>1
    <3> QED
      BY <3>1, <3>2, <3>3
  <2>15. CASE Signal(t)
    BY <2>15, GotoFacts DEF Signal
  <2> QED BY <1>3, <2>1, <2>2, <2>3, <2>4, <2>5, <2>6, <2>7, <2>8, <2>9, <2>10, <2>11,
     <2>12, <2>13, <2>14, <2>15 DEF RunStep
<1>4. CASE PlaybookStep(t)
  <2>1. CASE PlaybookRaises(t)
    BY <2>1, AttemptFacts DEF PlaybookRaises
  <2>2. CASE NoHostsMatched(t)
    BY <2>2, GotoFacts, StoreResultFacts DEF NoHostsMatched
  <2>3. CASE PlaybookEnds(t)
    BY <2>3, GotoFacts DEF PlaybookEnds
  <2>4. ASSUME NEW h \in Hosts, HostResult(t, h) PROVE CauseInv'
    <3>1. PICK ok \in BOOLEAN : StoreResult(t, h, ok)
      BY <2>4 DEF HostResult
    <3>2. \A u \in Threads : faults[u] \subseteq faults'[u]
      <4> HIDE DEF TypeOK
      <4> QED
        BY <3>1, StoreResultFacts
    <3>3. kill' = kill /\ pc' = pc /\ mq' = mq
      BY <2>4 DEF HostResult
    <3> QED
      BY <3>2, <3>3
  <2>5. ASSUME NEW h \in Hosts, HostSkipped(t, h) PROVE CauseInv'
    BY <2>5 DEF HostSkipped
  <2> QED BY <1>4, <2>1, <2>2, <2>3, <2>4, <2>5 DEF PlaybookStep
<1>5. CASE KillStep(t)
  <2>1. CASE KilledInTry(t)
    BY <2>1, ReportFacts, FailJobFacts DEF KilledInTry, Killed, Reasons
  <2>2. CASE KilledOutsideTry(t)
    <3>1. Goto(t, "dead") /\ "kill" \in faults[t] /\ kill' = kill \ {t} /\ faults' = faults
      BY <2>2 DEF KilledOutsideTry, Killed
    <3>2. mq' = mq \/ Publish(t, reason[t], {})
      BY <2>2 DEF KilledOutsideTry
    <3>3. \A u \in Threads : u # t => mq'[u] = mq[u] /\ pc'[u] = pc[u]
      BY <3>1, <3>2, ReportFacts, GotoFacts
    <3> QED BY <3>1, <3>3
  <2>3. CASE KillSwallowedByCheck(t)
    BY <2>3, FailJobFacts DEF KillSwallowedByCheck, Killed, Reasons
  <2>4. CASE KillSwallowedBySend(t)
    <3>1. "kill" \in faults[t] /\ kill' = kill \ {t} /\ faults' = faults
      BY <2>4 DEF KillSwallowedBySend, Killed
    <3>2. mq' = mq \/ Publish(t, reason[t], {}) \/ Publish(t, "final", collected[t])
      BY <2>4 DEF KillSwallowedBySend
    <3>3. pc' = pc \/ Goto(t, "unwind") \/ Goto(t, "dead")
      BY <2>4 DEF KillSwallowedBySend
    <3>4. \A u \in Threads : u # t => mq'[u] = mq[u]
      BY <3>2, ReportFacts
    <3>5. \A u \in Threads : u # t => pc'[u] = pc[u]
      BY <3>3, GotoFacts
    <3> QED BY <3>1, <3>4, <3>5
  <2>5. ASSUME NEW h \in Hosts, KillSwallowedByCallback(t, h) PROVE CauseInv'
    BY <2>5, ResultType DEF KillSwallowedByCallback, Killed
  <2> QED BY <1>5, <2>1, <2>2, <2>3, <2>4, <2>5 DEF KillStep
<1> QED BY <1>1, <1>2, <1>3, <1>4, <1>5 DEF ThreadStep

(* What StatusStep says of one row. *)
LEMMA RowStep ==
  ASSUME TypeOK, StatusStep, NEW q \in Queues
  PROVE  \/ status'[q] = status[q]
         \/ /\ status'[q] = TASK_RUNNING
            /\ \E t \in Threads : QueueOf[t] = q /\ Marks(t) /\ caller[t] = "idle" /\ caller'[t] = "start"
         \/ /\ status'[q] = TASK_COMPLETE /\ mq' = mq
            /\ \E t \in Threads : QueueOf[t] = q /\ pc[t] \in {"finish", "fail_store"}
<1>1. PICK t \in Threads : Effect(t)
  BY DEF StatusStep
<1>2. CASE status' = status
  BY <1>2
<1>3. CASE Marks(t) /\ caller[t] = "idle" /\ caller'[t] = "start" /\ SetStatus(t, TASK_RUNNING)
  BY <1>3, StatusFacts DEF Statuses
<1>4. CASE mq' = mq /\ pc[t] \in {"finish", "fail_store"} /\ SetStatus(t, TASK_COMPLETE)
  BY <1>4, StatusFacts DEF Statuses
<1> QED
  BY <1>1, <1>2, <1>3, <1>4 DEF Effect

(* Every step keeps FinishedImpliesReported: a row is completed after a report only. *)
LEMMA FinishedStep ==
  ASSUME TypeOK, ReportInv, FinishedImpliesReported, Grows, StatusStep
  PROVE  FinishedImpliesReported'
<1> SUFFICES ASSUME NEW q \in Queues, status'[q] = TASK_COMPLETE
             PROVE  \E t \in Threads : QueueOf[t] = q /\ mq'[t] # <<>>
  BY DEF FinishedImpliesReported, Reported
<1>1. CASE status'[q] = status[q]
  BY <1>1 DEF FinishedImpliesReported, Reported, Grows
<1>2. CASE \E t \in Threads : QueueOf[t] = q /\ pc[t] \in {"finish", "fail_store"}
  BY <1>2 DEF ReportInv, Grows
<1> QED
  BY <1>1, <1>2, RowStep DEF TASK_RUNNING, TASK_COMPLETE

----------------------------------------------------------------------------
(* The initial states satisfy the invariant. *)
LEMMA InitInv ==
  ASSUME Init
  PROVE  Inv
<1>1. TypeOK
  BY ThreadsAssumption, BoundsAssumption
  DEF Init, TypeOK, ControlTypeOK, ResultTypeOK, StatusTypeOK, CallerStates, Labels, Reasons,
      Statuses, FaultKinds
<1>2. RunInv
  BY DEF Init, RunInv
<1>3. ReportInv /\ CauseInv
  BY DEF Init, ReportInv, CauseInv
<1>4. FinishedImpliesReported
  BY DEF Init, FinishedImpliesReported, TASK_NEW, TASK_COMPLETE
<1>5. StartInv
  BY DEF Init, StartInv
<1> QED
  BY <1>1, <1>2, <1>3, <1>4, <1>5 DEF Inv

(* What the steps keep together. *)
LEMMA NextInv ==
  ASSUME Inv, Next
  PROVE  Inv' /\ Grows /\ CallerStepOK /\ StatusStep
<1>1. Grows /\ CallerStepOK /\ StatusStep
  <2>1. PICK t \in Threads : Step(t)
    BY DEF Next, Step
  <2> QED
    BY <2>1, DeltaStep DEF Inv, StatusStep
<1>2. TypeOK' /\ RunInv'
  BY TypeStep, RunStepInv DEF Inv
<1>3. ReportInv' /\ FinishedImpliesReported'
  BY <1>1, ReportStep, FinishedStep DEF Inv
<1>4. CauseInv' /\ StartInv'
  BY <1>1, CauseStep DEF Inv, StartInv, CallerStepOK
<1> QED
  BY <1>1, <1>2, <1>3, <1>4 DEF Inv

LEMMA StutterInv ==
  ASSUME Inv, UNCHANGED vars
  PROVE  Inv'
<1> USE DEF vars, callerVars, runVars, playVars, answerVars, tableVars, faultVars
<1>1. TypeOK'
  BY DEF Inv, TypeOK, ControlTypeOK, ResultTypeOK, StatusTypeOK
<1>2. RunInv' /\ StartInv'
  BY DEF Inv, RunInv, StartInv
<1>3. ReportInv' /\ CauseInv' /\ FinishedImpliesReported'
  BY DEF Inv, ReportInv, CauseInv, FinishedImpliesReported, Reported
<1> QED
  BY <1>1, <1>2, <1>3 DEF Inv

(* Inv is an invariant of every run of the worker. *)
THEOREM Invariance == Spec => []Inv
<1>1. Init => Inv
  BY InitInv
<1>2. Inv /\ [Next]_vars => Inv'
  BY NextInv, StutterInv
<1> QED
  BY <1>1, <1>2, PTL DEF Spec

(* The variables of job_exec, its threads, the tables and the broker keep their types: *)
(* in particular the loop of run never counts past MAX_TRY_TIMES.                      *)
THEOREM TypeCorrect == Spec => []TypeOK
<1>1. Inv => TypeOK
  BY DEF Inv
<1> QED
  BY <1>1, Invariance, PTL

(* A job the tables call COMPLETE was reported to the server, whatever fails or is killed. *)
THEOREM FinishedReported == Spec => []FinishedImpliesReported
<1>1. Inv => FinishedImpliesReported
  BY DEF Inv
<1> QED
  BY <1>1, Invariance, PTL

(* A thread that ends without a message was hit by a fault or a termination. *)
THEOREM SilenceExplained == Spec => []SilenceHasACause
<1>1. Inv => SilenceHasACause
  BY DEF Inv, CauseInv, SilenceHasACause, Done
<1> QED
  BY <1>1, Invariance, PTL
----------------------------------------------------------------------------
(* What a step leaves the other threads. *)

(* Nothing of thread u changes. *)
Same(u) ==
  /\ caller'[u] = caller[u] /\ pc'[u] = pc[u]
  /\ counter'[u] = counter[u] /\ launched'[u] = launched[u] /\ reason'[u] = reason[u]
  /\ pending'[u] = pending[u] /\ data'[u] = data[u] /\ collected'[u] = collected[u]
  /\ answer'[u] = answer[u] /\ (u \in signal' <=> u \in signal)
  /\ mq'[u] = mq[u] /\ faults'[u] = faults[u] /\ (u \in kill' <=> u \in kill)

----------------------------------------------------------------------------
(* Threads share the tables only: a step of t changes nothing of another. *)
LEMMA Locality ==
  ASSUME TypeOK, NEW t \in Threads, Step(t), NEW u \in Threads, u # t
  PROVE  Same(u)
<1> USE DEF Same, TypeOK, ControlTypeOK, ResultTypeOK, StatusTypeOK, NoFault, Goto, Fault,
   callerVars, runVars, playVars, answerVars, tableVars, faultVars
<1>1. CASE CallerStep(t)
  BY <1>1 DEF CallerStep, ListUncompleted, MarkRunning, StartThread, ConstructorRaises,
     AppendToPool, CallerAnswered, CallerTimesOut
<1>2. CASE MonitorStep(t)
  BY <1>2 DEF MonitorStep, PopDeadThread, TerminateThread
<1>3. CASE RunStep(t)
  <2>1. CASE CheckTargets(t) \/ FirstTry(t) \/ CleanupResults(t)
    BY <2>1 DEF CheckTargets, FirstTry, CleanupResults, FailJob, AttemptFails
  <2>2. CASE TaskExec(t)
    BY <2>2 DEF TaskExec, FailJob, AttemptFails
  <2>5. CASE StatsSync(t) \/ StatsCollect(t) \/ StatsStore(t)
    BY <2>5 DEF StatsSync, StatsCollect, StatsStore
  <2>3. CASE StatsSend(t) \/ StatsFinish(t) \/ Unwind(t) \/ Sleep(t)
    BY <2>3 DEF StatsSend, StatsFinish, Unwind, Sleep, Publish
  <2>4. CASE FailSync(t) \/ FailSend(t) \/ FailStore(t) \/ Signal(t)
    BY <2>4 DEF FailSync, FailSend, FailStore, Signal, Publish
  <2> QED BY <1>3, <2>1, <2>2, <2>3, <2>4, <2>5 DEF RunStep
<1>4. CASE PlaybookStep(t)
  <2>1. CASE PlaybookRaises(t) \/ PlaybookEnds(t)
    BY <2>1 DEF PlaybookRaises, PlaybookEnds, FailJob, AttemptFails
  <2>2. CASE NoHostsMatched(t)
    BY <2>2 DEF NoHostsMatched, StoreResult
  <2>3. CASE \E h \in Hosts : HostResult(t, h)
    BY <2>3 DEF HostResult, StoreResult
  <2>4. CASE \E h \in Hosts : HostSkipped(t, h)
    BY <2>4 DEF HostSkipped
  <2> QED BY <1>4, <2>1, <2>2, <2>3, <2>4 DEF PlaybookStep
<1>5. CASE KillStep(t)
  BY <1>5 DEF KillStep, KilledInTry, KilledOutsideTry, KillSwallowedByCheck,
     KillSwallowedBySend, KillSwallowedByCallback, Killed, FailJob, Publish
<1> QED BY <1>1, <1>2, <1>3, <1>4, <1>5 DEF Step, ThreadStep

(* A fault is remembered. *)
LEMMA FaultsGrow ==
  ASSUME TypeOK, NEW t \in Threads, Step(t)
  PROVE  faults[t] \subseteq faults'[t]
<1> USE DEF TypeOK, StatusTypeOK, NoFault, Fault, faultVars
<1>1. CASE CallerStep(t)
  BY <1>1 DEF CallerStep, ListUncompleted, MarkRunning, StartThread, ConstructorRaises,
     AppendToPool, CallerAnswered, CallerTimesOut
<1>2. CASE MonitorStep(t)
  BY <1>2 DEF MonitorStep, PopDeadThread, TerminateThread
<1>3. CASE RunStep(t)
  BY <1>3 DEF RunStep, CheckTargets, FirstTry, CleanupResults, TaskExec, StatsSync,
     StatsCollect, StatsStore, StatsSend, StatsFinish, Unwind, Sleep, FailSync,
     FailSend, FailStore, Signal
<1>4. CASE PlaybookStep(t)
  BY <1>4 DEF PlaybookStep, PlaybookRaises, NoHostsMatched, PlaybookEnds, HostResult,
     HostSkipped, StoreResult
<1>5. CASE KillStep(t)
  BY <1>5 DEF KillStep, KilledInTry, KilledOutsideTry, KillSwallowedByCheck,
     KillSwallowedBySend, KillSwallowedByCallback, Killed
<1> QED BY <1>1, <1>2, <1>3, <1>4, <1>5 DEF Step, ThreadStep

----------------------------------------------------------------------------
(* The detailed worker implements the ledger. *)

LedgerStatus == [q \in AsyncQueues |-> status[q]]
LedgerStarted == {t \in Executions : caller[t] # "idle"}
LedgerReported == {t \in Executions : mq[t] # <<>>}

(* The server does not see the threads of the synchronous queues. *)
LEMMA SyncMaps ==
  ASSUME Inv, NEW t \in Threads \ Executions, Effect(t),
         \A u \in Threads \ {t} : caller'[u] = caller[u] /\ mq'[u] = mq[u]
  PROVE  UNCHANGED Ledger!ledgerVars
<1>1. QueueOf[t] \notin AsyncQueues
  BY DEF Executions
<1>2. status \in [Queues -> Statuses]
  BY DEF Inv, TypeOK, StatusTypeOK
<1>3. \A q \in AsyncQueues : status'[q] = status[q]
  BY <1>1, <1>2 DEF Effect, SetStatus, AsyncQueues
<1>4. LedgerStatus' = LedgerStatus
  BY <1>3 DEF LedgerStatus
<1>5. LedgerStarted' = LedgerStarted /\ LedgerReported' = LedgerReported
  BY DEF LedgerStarted, LedgerReported, Executions
<1> QED
  BY <1>4, <1>5 DEF Ledger!ledgerVars, LedgerStatus, LedgerStarted, LedgerReported

(* The caller of an execution goes on, or calls it without marking the row. *)
LEMMA CallMaps ==
  ASSUME Inv, NEW t \in Executions, CallerStepOK, status' = status, mq' = mq,
         \A u \in Threads \ {t} : caller'[u] = caller[u]
  PROVE  [Ledger!Next]_(Ledger!ledgerVars)
<1>0. t \in Threads /\ QueueOf[t] \in AsyncQueues
  BY DEF Executions
<1>1. LedgerStatus' = LedgerStatus /\ LedgerReported' = LedgerReported
  BY DEF LedgerStatus, LedgerReported
<1>2. CASE (caller'[t] # "idle") <=> (caller[t] # "idle")
  <2>1. LedgerStarted' = LedgerStarted
    BY <1>2 DEF LedgerStarted, Executions
  <2> QED
    BY <1>1, <2>1 DEF Ledger!ledgerVars, LedgerStatus, LedgerStarted, LedgerReported
<1>3. CASE caller[t] = "idle" /\ caller'[t] # "idle"
  <2>1. t \notin LedgerStarted /\ LedgerStarted' = LedgerStarted \cup {t}
    BY <1>0, <1>3 DEF LedgerStarted, Executions
  <2>2. CASE t \in Recoveries /\ status[QueueOf[t]] = TASK_RUNNING
    <3>1. Ledger!Recover(t)
      BY <1>0, <1>1, <2>1, <2>2
      DEF Ledger!Recover, LedgerStatus, LedgerStarted, LedgerReported, Ledger!TASK_RUNNING, TASK_RUNNING
    <3> QED
      BY <3>1 DEF Ledger!Next
  <2>3. CASE t \notin Recoveries
    <3>1. Ledger!Start(t)
      BY <1>1, <2>1, <2>3 DEF Ledger!Start, LedgerStatus, LedgerStarted, LedgerReported
    <3> QED
      BY <3>1 DEF Ledger!Next
  <2> QED
    BY <1>0, <1>3, <2>2, <2>3 DEF CallerStepOK
<1> QED
  BY <1>0, <1>2, <1>3 DEF CallerStepOK

(* A thread that publishes was called. *)
LEMMA ReportMaps ==
  ASSUME Inv, NEW t \in Executions, Grows, status' = status, caller' = caller, pc[t] # "none",
         \A u \in Threads \ {t} : mq'[u] = mq[u]
  PROVE  [Ledger!Next]_(Ledger!ledgerVars)
<1>1. LedgerStatus' = LedgerStatus /\ LedgerStarted' = LedgerStarted
  BY DEF LedgerStatus, LedgerStarted
<1>2. t \in LedgerStarted
  BY DEF Inv, RunInv, LedgerStarted, Executions
<1>3. CASE mq'[t] # <<>>
  <2>1. LedgerReported' = LedgerReported \cup {t}
    BY <1>3 DEF LedgerReported, Executions
  <2>2. Ledger!Report(t)
    BY <1>1, <1>2, <2>1 DEF Ledger!Report, LedgerStatus, LedgerStarted, LedgerReported
  <2> QED
    BY <2>2 DEF Ledger!Next
<1>4. CASE mq'[t] = <<>>
  <2>1. LedgerReported' = LedgerReported
    BY <1>4 DEF LedgerReported, Grows, Executions
  <2> QED
    BY <1>1, <2>1 DEF Ledger!ledgerVars, LedgerStatus, LedgerStarted, LedgerReported
<1> QED
  BY <1>3, <1>4

(* A row is marked when an execution is called, *)
LEMMA StartMaps ==
  ASSUME Inv, NEW t \in Executions, Marks(t), caller[t] = "idle", caller'[t] = "start", mq' = mq,
         SetStatus(t, TASK_RUNNING), \A u \in Threads \ {t} : caller'[u] = caller[u]
  PROVE  Ledger!Start(t)
<1>1. LedgerStatus' = [LedgerStatus EXCEPT ![QueueOf[t]] = TASK_RUNNING]
  BY DEF Inv, TypeOK, StatusTypeOK, SetStatus, LedgerStatus, AsyncQueues, Executions
<1>2. t \notin LedgerStarted /\ LedgerStarted' = LedgerStarted \cup {t}
  BY DEF LedgerStarted, Executions
<1>3. LedgerReported' = LedgerReported
  BY DEF LedgerReported
<1> QED
  BY <1>1, <1>2, <1>3
  DEF Ledger!Start, LedgerStatus, LedgerStarted, LedgerReported, Ledger!TASK_RUNNING, TASK_RUNNING, Marks

(* and completed by a thread that reported. *)
LEMMA FinishMaps ==
  ASSUME Inv, NEW t \in Executions, pc[t] \in {"finish", "fail_store"}, mq' = mq, caller' = caller,
         SetStatus(t, TASK_COMPLETE)
  PROVE  Ledger!Finish(t)
<1>1. LedgerStatus' = [LedgerStatus EXCEPT ![QueueOf[t]] = TASK_COMPLETE]
  BY DEF Inv, TypeOK, StatusTypeOK, SetStatus, LedgerStatus, AsyncQueues, Executions
<1>2. t \in LedgerReported
  BY DEF Inv, ReportInv, LedgerReported, Executions
<1>3. LedgerStarted' = LedgerStarted /\ LedgerReported' = LedgerReported
  BY DEF LedgerStarted, LedgerReported
<1> QED
  BY <1>1, <1>2, <1>3
  DEF Ledger!Finish, LedgerStatus, LedgerStarted, LedgerReported, Ledger!TASK_COMPLETE, TASK_COMPLETE

LEMMA LedgerStep ==
  ASSUME Inv, NEW t \in Threads, Step(t)
  PROVE  [Ledger!Next]_(Ledger!ledgerVars)
<1>1. Grows /\ CallerStepOK /\ Effect(t)
  BY DeltaStep DEF Inv
<1>2. \A u \in Threads \ {t} : caller'[u] = caller[u] /\ mq'[u] = mq[u]
  BY Locality DEF Inv, Same
<1>3. CASE t \notin Executions
  BY <1>1, <1>2, <1>3, SyncMaps
<1>4. CASE t \in Executions
  <2>1. CASE status' = status /\ mq' = mq
    BY <1>1, <1>2, <1>4, <2>1, CallMaps
  <2>2. CASE status' = status /\ caller' = caller /\ pc[t] # "none"
    BY <1>1, <1>2, <1>4, <2>2, ReportMaps
  <2>3. CASE Marks(t) /\ caller[t] = "idle" /\ caller'[t] = "start" /\ mq' = mq
             /\ SetStatus(t, TASK_RUNNING)
    BY <1>2, <1>4, <2>3, StartMaps DEF Ledger!Next
  <2>4. CASE pc[t] \in {"finish", "fail_store"} /\ mq' = mq /\ caller' = caller
             /\ SetStatus(t, TASK_COMPLETE)
    BY <1>4, <2>4, FinishMaps DEF Ledger!Next
  <2> QED
    BY <1>1, <2>1, <2>2, <2>3, <2>4 DEF Effect
<1> QED
  BY <1>3, <1>4

(* However many executions a job has, what the server sees is what JobLedger promises: *)
(* a row leaves NEW for good, is RUNNING from the start of an execution that is not a  *)
(* recovery's and COMPLETE from a thread that itself reported.                         *)
THEOREM LedgerImplemented == Spec => LedgerSpec
<1>1. Init => Ledger!Init
  <2> SUFFICES ASSUME Init PROVE Ledger!Init
    OBVIOUS
  <2>1. LedgerStatus = [q \in AsyncQueues |-> TASK_NEW]
    BY DEF Init, LedgerStatus, AsyncQueues
  <2>2. LedgerStarted = {} /\ LedgerReported = {}
    BY DEF Init, LedgerStarted, LedgerReported, Executions
  <2> QED
    BY <2>1, <2>2
    DEF Ledger!Init, LedgerStatus, LedgerStarted, LedgerReported, TASK_NEW, Ledger!TASK_NEW
<1>2. Inv /\ [Next]_vars => [Ledger!Next]_(Ledger!ledgerVars)
  <2> SUFFICES ASSUME Inv, [Next]_vars PROVE [Ledger!Next]_(Ledger!ledgerVars)
    OBVIOUS
  <2>1. CASE Next
    <3>1. PICK t \in Threads : Step(t)
      BY <2>1 DEF Next, Step
    <3> QED
      BY <3>1, LedgerStep
  <2>2. CASE UNCHANGED vars
    <3>1. status' = status /\ mq' = mq /\ caller' = caller
      BY <2>2 DEF vars, tableVars, callerVars
    <3> QED
      BY <3>1 DEF Ledger!ledgerVars
  <2> QED
    BY <2>1, <2>2
<1> QED
  BY <1>1, <1>2, Invariance, PTL DEF Spec, LedgerSpec, Ledger!Spec

----------------------------------------------------------------------------
(* What a job reports and answers. *)

(* What publishing the results, and a failure, does to the messages of the thread. *)
LEMMA FinalMessage ==
  ASSUME TypeOK, NEW t \in Threads, Publish(t, "final", collected[t])
  PROVE  /\ Len(mq[t]) \in Nat /\ Len(mq'[t]) = Len(mq[t]) + 1
         /\ mq'[t][Len(mq[t]) + 1].kind = "final" /\ mq'[t][Len(mq[t]) + 1].rows = collected[t]
         /\ \A i \in 1..Len(mq[t]) : mq'[t][i] = mq[t][i]
<1> DEFINE m == [kind |-> "final", rows |-> collected[t]]
<1>1. mq \in [Threads -> Seq(Message)] /\ mq' = [mq EXCEPT ![t] = Append(mq[t], m)]
  BY DEF TypeOK, ResultTypeOK, Publish
<1>2. m \in Message
  BY DEF TypeOK, ResultTypeOK, Message
<1> HIDE DEF m
<1>3. /\ mq[t] \in Seq(Message) /\ Len(mq[t]) \in Nat
      /\ Len(Append(mq[t], m)) = Len(mq[t]) + 1
      /\ Append(mq[t], m)[Len(mq[t]) + 1] = m
      /\ \A i \in 1..Len(mq[t]) : Append(mq[t], m)[i] = mq[t][i]
  BY <1>1, <1>2
<1>4. mq'[t] = Append(mq[t], m)
  BY <1>1
<1> QED
  BY <1>3, <1>4 DEF m

LEMMA FailureMessage ==
  ASSUME TypeOK, NEW t \in Threads, Publish(t, reason[t], {})
  PROVE  /\ Len(mq[t]) \in Nat /\ Len(mq'[t]) = Len(mq[t]) + 1
         /\ mq'[t][Len(mq[t]) + 1].kind = reason[t] /\ mq'[t][Len(mq[t]) + 1].rows = {}
         /\ \A i \in 1..Len(mq[t]) : mq'[t][i] = mq[t][i]
<1> DEFINE m == [kind |-> reason[t], rows |-> {}]
<1>1. mq \in [Threads -> Seq(Message)] /\ mq' = [mq EXCEPT ![t] = Append(mq[t], m)]
  BY DEF TypeOK, ResultTypeOK, Publish
<1>2. m \in Message
  BY DEF TypeOK, ControlTypeOK, Message
<1> HIDE DEF m
<1>3. /\ mq[t] \in Seq(Message) /\ Len(mq[t]) \in Nat
      /\ Len(Append(mq[t], m)) = Len(mq[t]) + 1
      /\ Append(mq[t], m)[Len(mq[t]) + 1] = m
      /\ \A i \in 1..Len(mq[t]) : Append(mq[t], m)[i] = mq[t][i]
  BY <1>1, <1>2
<1>4. mq'[t] = Append(mq[t], m)
  BY <1>1
<1> QED
  BY <1>3, <1>4 DEF m

(* The first message of a thread that has its results. *)
LEMMA FirstMessage ==
  ASSUME TypeOK, NEW t \in Threads, Publish(t, "final", collected[t]), Len(mq[t]) = 0
  PROVE  Len(mq'[t]) = 1 /\ mq'[t][1].kind = "final" /\ mq'[t][1].rows = collected[t]
<1>1. /\ Len(mq[t]) \in Nat /\ Len(mq'[t]) = Len(mq[t]) + 1
      /\ mq'[t][Len(mq[t]) + 1].kind = "final" /\ mq'[t][Len(mq[t]) + 1].rows = collected[t]
  BY FinalMessage
<1> QED
  BY <1>1

----------------------------------------------------------------------------
(* The messages of a thread: none before its report, one final or one failure then, *)
(* two only when it was terminated after its final report.                          *)
Unreported == {"none", "check", "try", "launch", "play", "stats", "store", "send", "sleep", "signal"}

MessagesOf(t) ==
  /\ Len(mq[t]) <= 2
  /\ pc[t] \in Unreported => Len(mq[t]) = 0
  /\ pc[t] \in {"finish", "unwind"} => Len(mq[t]) <= 1
  /\ pc[t] \in {"finish", "unwind"} /\ Len(mq[t]) = 1 => mq[t][1].kind = "final"
  /\ pc[t] \in {"fail", "fail_signal"} => Len(mq[t]) <= 1
  /\ pc[t] \in {"fail", "fail_signal"} /\ Len(mq[t]) = 1 =>
       "kill" \in faults[t] /\ mq[t][1].kind = "final"
  /\ Len(mq[t]) = 2 => "kill" \in faults[t] /\ mq[t][1].kind = "final" /\ mq[t][2].kind # "final"

KillCaused == \A t \in kill : "kill" \in faults[t]

(* The message of handle_job_exception is the only one or follows the final result. *)
LEMMA FailureKeepsMessages ==
  ASSUME TypeOK, NEW t \in Threads, MessagesOf(t), pc[t] = "fail", Publish(t, reason[t], {}),
         faults[t] \subseteq faults'[t], pc'[t] \in {"fail_store", "ended", "dead"}
  PROVE  MessagesOf(t)'
<1>1. reason[t] # "final"
  BY DEF TypeOK, ControlTypeOK, Reasons
<1>2. /\ Len(mq[t]) \in Nat /\ Len(mq'[t]) = Len(mq[t]) + 1
      /\ mq'[t][Len(mq[t]) + 1].kind = reason[t]
      /\ \A i \in 1..Len(mq[t]) : mq'[t][i] = mq[t][i]
  BY FailureMessage
<1>3. CASE Len(mq[t]) = 0
  BY <1>2, <1>3 DEF MessagesOf, Unreported
<1>4. CASE Len(mq[t]) = 1
  <2>1. Len(mq'[t]) = 2 /\ mq'[t][1] = mq[t][1] /\ mq'[t][2].kind = reason[t]
    BY <1>2, <1>4
  <2> QED
    BY <1>1, <1>4, <2>1 DEF MessagesOf, Unreported
<1>5. Len(mq[t]) \in Nat /\ Len(mq[t]) <= 1
  BY <1>2 DEF MessagesOf
<1>6. \A n \in Nat : n <= 1 => n = 0 \/ n = 1
  OBVIOUS
<1> QED
  BY <1>3, <1>4, <1>5, <1>6

(* Every step of a thread keeps its messages in order. *)
LEMMA MessagesStep ==
  ASSUME TypeOK, RunInv, KillCaused, NEW t \in Threads, MessagesOf(t), Step(t)
  PROVE  MessagesOf(t)'
<1>a. faults[t] \subseteq faults'[t]
  BY FaultsGrow
<1>b. pc \in [Threads -> Labels]
  BY DEF TypeOK, ControlTypeOK
<1> USE <1>a, <1>b DEF MessagesOf, Unreported, NoFault, Goto, FailJob,
   callerVars, runVars, playVars, answerVars, tableVars, faultVars
<1>1. CASE CallerStep(t)
  <2>1. CASE ListUncompleted(t)
    BY <2>1 DEF ListUncompleted
  <2>2. CASE MarkRunning(t)
    BY <2>2 DEF MarkRunning
  <2>3. CASE StartThread(t)
    BY <2>3 DEF StartThread, RunInv
  <2>4. CASE ConstructorRaises(t)
    BY <2>4 DEF ConstructorRaises
  <2>5. CASE AppendToPool(t)
    BY <2>5 DEF AppendToPool
  <2>6. CASE CallerAnswered(t)
    BY <2>6 DEF CallerAnswered
  <2>7. CASE CallerTimesOut(t)
    BY <2>7 DEF CallerTimesOut
  <2> QED BY <1>1, <2>1, <2>2, <2>3, <2>4, <2>5, <2>6, <2>7 DEF CallerStep
<1>2. CASE MonitorStep(t)
  <2>1. CASE PopDeadThread(t)
    BY <2>1 DEF PopDeadThread
  <2>2. CASE TerminateThread(t)
    BY <2>2 DEF TerminateThread
  <2> QED BY <1>2, <2>1, <2>2 DEF MonitorStep
<1>3. CASE RunStep(t)
  <2>1. CASE CheckTargets(t)
    BY <2>1 DEF CheckTargets
  <2>2. CASE FirstTry(t)
    BY <2>2 DEF FirstTry
  <2>3. CASE CleanupResults(t)
    BY <2>3 DEF CleanupResults, AttemptFails
  <2>4. CASE TaskExec(t)
    BY <2>4 DEF TaskExec, AttemptFails
  <2>5. CASE StatsSync(t)
    BY <2>5 DEF StatsSync
  <2>6. CASE StatsCollect(t)
    BY <2>6 DEF StatsCollect
  <2>7. CASE StatsStore(t)
    BY <2>7 DEF StatsStore
  <2>8. CASE StatsSend(t)
    <3>1. Len(mq[t]) = 0 /\ pc'[t] \in {"finish", "unwind"}
      BY <2>8 DEF StatsSend
    <3>2. CASE Publish(t, "final", collected[t])
      BY <3>1, <3>2, FirstMessage
    <3>3. CASE UNCHANGED mq
      BY <3>1, <3>3
    <3> QED
      BY <2>8, <3>2, <3>3 DEF StatsSend
  <2>9. CASE StatsFinish(t)
    BY <2>9 DEF StatsFinish
  <2>10. CASE Unwind(t)
    BY <2>10 DEF Unwind
  <2>11. CASE Sleep(t)
    BY <2>11 DEF Sleep
  <2>12. CASE FailSync(t)
    BY <2>12 DEF FailSync
  <2>13. CASE FailSend(t)
    <3>1. pc[t] = "fail" /\ pc'[t] \in {"fail_store", "ended", "dead"}
      BY <2>13 DEF FailSend
    <3>2. CASE Publish(t, reason[t], {})
      BY <3>1, <3>2, FailureKeepsMessages
    <3>3. CASE UNCHANGED mq
      BY <3>1, <3>3
    <3> QED
      BY <2>13, <3>2, <3>3 DEF FailSend
  <2>14. CASE FailStore(t)
    BY <2>14 DEF FailStore
  <2>15. CASE Signal(t)
    BY <2>15 DEF Signal
  <2> QED BY <1>3, <2>1, <2>2, <2>3, <2>4, <2>5, <2>6, <2>7, <2>8, <2>9, <2>10, <2>11, <2>12,
     <2>13, <2>14, <2>15 DEF RunStep
<1>4. CASE PlaybookStep(t)
  <2>1. CASE PlaybookRaises(t)
    BY <2>1 DEF PlaybookRaises, AttemptFails
  <2>2. CASE NoHostsMatched(t)
    BY <2>2 DEF NoHostsMatched
  <2>3. CASE PlaybookEnds(t)
    BY <2>3 DEF PlaybookEnds
  <2>4. ASSUME NEW h \in Hosts, HostResult(t, h) PROVE MessagesOf(t)'
    BY <2>4 DEF HostResult
  <2>5. ASSUME NEW h \in Hosts, HostSkipped(t, h) PROVE MessagesOf(t)'
    BY <2>5 DEF HostSkipped
  <2> QED BY <1>4, <2>1, <2>2, <2>3, <2>4, <2>5 DEF PlaybookStep
<1>5. CASE KillStep(t)
  <2>1. CASE KilledInTry(t)
    <3>1. "kill" \in faults'[t] /\ pc'[t] = "fail"
      BY <2>1 DEF KilledInTry, Killed, KillCaused
    <3>2. CASE pc[t] = "send" /\ Publish(t, "final", collected[t])
      BY <3>1, <3>2, FirstMessage
    <3>3. CASE UNCHANGED mq
      BY <2>1, <3>1, <3>3 DEF KilledInTry
    <3> QED
      BY <2>1, <3>2, <3>3 DEF KilledInTry
  <2>2. CASE KilledOutsideTry(t)
    <3>1. pc'[t] = "dead"
      BY <2>2 DEF KilledOutsideTry
    <3>2. CASE pc[t] = "fail" /\ Publish(t, reason[t], {})
      BY <3>1, <3>2, FailureKeepsMessages
    <3>3. CASE UNCHANGED mq
      BY <3>1, <3>3
    <3> QED
      BY <2>2, <3>2, <3>3 DEF KilledOutsideTry
  <2>3. CASE KillSwallowedByCheck(t)
    BY <2>3 DEF KillSwallowedByCheck, Killed
  <2>4. CASE KillSwallowedBySend(t)
    <3>1. CASE UNCHANGED <<pc, mq>>
      BY <3>1
    <3>2. CASE pc'[t] \in {"unwind", "dead"} /\ (pc[t] = "send" <=> pc'[t] = "unwind") /\ UNCHANGED mq
      BY <3>2
    <3>3. CASE pc[t] = "send" /\ pc'[t] = "unwind" /\ Publish(t, "final", collected[t])
      <4>1. Len(mq'[t]) = 1 /\ mq'[t][1].kind = "final"
        BY <3>3, FirstMessage
      <4> QED
        BY <3>3, <4>1
    <3>4. CASE pc[t] = "fail" /\ pc'[t] = "dead" /\ Publish(t, reason[t], {})
      BY <3>4, FailureKeepsMessages
    <3> QED
      BY <2>4, <3>1, <3>2, <3>3, <3>4 DEF KillSwallowedBySend
  <2>5. ASSUME NEW h \in Hosts, KillSwallowedByCallback(t, h) PROVE MessagesOf(t)'
    BY <2>5 DEF KillSwallowedByCallback, Killed
  <2> QED BY <1>5, <2>1, <2>2, <2>3, <2>4, <2>5 DEF KillStep
<1> QED BY <1>1, <1>2, <1>3, <1>4, <1>5 DEF Step, ThreadStep

----------------------------------------------------------------------------
(* A synchronous thread: its signal is set once its answer is complete, and after *)
(* that it writes to the answer only when it is terminated.                       *)
DataOf(t) ==
  /\ pc[t] \in {"play", "stats"} => \A r \in data[t] : r.attempt = counter[t]
  /\ pc[t] = "play" => pending[t] \subseteq Targets(t)

AnswerOf(t) == t \in SyncThreads =>
  /\ pc[t] \notin {"store", "send", "finish", "fail_store"}
  /\ caller[t] = "answered" => t \in signal
  /\ "kill" \notin faults[t] =>
       /\ t \in signal => pc[t] \in {"unwind", "ended"}
       /\ pc[t] \in {"signal", "unwind", "fail_signal", "ended"} =>
            /\ answer[t] # "none"
            /\ answer[t] = "success" => \A r \in data[t] : r.ok /\ r.attempt = counter[t]

(* The data a thread collects are of the attempt that runs. *)
LEMMA DataStep ==
  ASSUME TypeOK, NEW t \in Threads, DataOf(t), Step(t)
  PROVE  DataOf(t)'
<1>a. /\ pc \in [Threads -> Labels] /\ data \in [Threads -> SUBSET Row]
      /\ pending \in [Threads -> SUBSET Hosts]
  BY DEF TypeOK, ControlTypeOK, ResultTypeOK
<1> USE <1>a DEF DataOf, NoFault, Goto, FailJob, Targets,
   callerVars, runVars, playVars, answerVars, tableVars, faultVars
<1>1. CASE CallerStep(t)
  <2>1. CASE ListUncompleted(t)
    BY <2>1 DEF ListUncompleted
  <2>2. CASE MarkRunning(t)
    BY <2>2 DEF MarkRunning
  <2>3. CASE StartThread(t)
    BY <2>3 DEF StartThread
  <2>4. CASE ConstructorRaises(t)
    BY <2>4 DEF ConstructorRaises
  <2>5. CASE AppendToPool(t)
    BY <2>5 DEF AppendToPool
  <2>6. CASE CallerAnswered(t)
    BY <2>6 DEF CallerAnswered
  <2>7. CASE CallerTimesOut(t)
    BY <2>7 DEF CallerTimesOut
  <2> QED BY <1>1, <2>1, <2>2, <2>3, <2>4, <2>5, <2>6, <2>7 DEF CallerStep
<1>2. CASE MonitorStep(t)
  <2>1. CASE PopDeadThread(t)
    BY <2>1 DEF PopDeadThread
  <2>2. CASE TerminateThread(t)
    BY <2>2 DEF TerminateThread
  <2> QED BY <1>2, <2>1, <2>2 DEF MonitorStep
<1>3. CASE RunStep(t)
  <2>1. CASE CheckTargets(t)
    BY <2>1 DEF CheckTargets
  <2>2. CASE FirstTry(t)
    BY <2>2 DEF FirstTry
  <2>3. CASE CleanupResults(t)
    BY <2>3 DEF CleanupResults, AttemptFails
  <2>4. CASE TaskExec(t)
    BY <2>4 DEF TaskExec, AttemptFails
  <2>5. CASE StatsSync(t)
    BY <2>5 DEF StatsSync
  <2>6. CASE StatsCollect(t)
    BY <2>6 DEF StatsCollect
  <2>7. CASE StatsStore(t)
    BY <2>7 DEF StatsStore
  <2>8. CASE StatsSend(t)
    BY <2>8 DEF StatsSend
  <2>9. CASE StatsFinish(t)
    BY <2>9 DEF StatsFinish
  <2>10. CASE Unwind(t)
    BY <2>10 DEF Unwind
  <2>11. CASE Sleep(t)
    BY <2>11 DEF Sleep
  <2>12. CASE FailSync(t)
    BY <2>12 DEF FailSync
  <2>13. CASE FailSend(t)
    BY <2>13 DEF FailSend
  <2>14. CASE FailStore(t)
    BY <2>14 DEF FailStore
  <2>15. CASE Signal(t)
    BY <2>15 DEF Signal
  <2> QED BY <1>3, <2>1, <2>2, <2>3, <2>4, <2>5, <2>6, <2>7, <2>8, <2>9, <2>10, <2>11, <2>12,
     <2>13, <2>14, <2>15 DEF RunStep
<1>4. CASE PlaybookStep(t)
  <2>1. CASE PlaybookRaises(t)
    BY <2>1 DEF PlaybookRaises, AttemptFails
  <2>2. CASE NoHostsMatched(t)
    <3>1. \A r \in data[t] : r.attempt = counter[t]
      BY <2>2 DEF NoHostsMatched
    <3>2. Result(t, "", FALSE).attempt = counter[t]
      BY DEF Result, TableRow
    <3>3. data'[t] = data[t] \/ data'[t] = data[t] \cup {Result(t, "", FALSE)}
      BY <2>2 DEF NoHostsMatched, StoreResult
    <3>4. counter' = counter /\ pc'[t] = "stats"
      BY <2>2 DEF NoHostsMatched
    <3> QED
      BY <3>1, <3>2, <3>3, <3>4
  <2>3. CASE PlaybookEnds(t)
    BY <2>3 DEF PlaybookEnds
  <2>4. ASSUME NEW h \in Hosts, HostResult(t, h) PROVE DataOf(t)'
    BY <2>4 DEF HostResult, StoreResult, Result, TableRow
  <2>5. ASSUME NEW h \in Hosts, HostSkipped(t, h) PROVE DataOf(t)'
    BY <2>5 DEF HostSkipped
  <2> QED BY <1>4, <2>1, <2>2, <2>3, <2>4, <2>5 DEF PlaybookStep
<1>5. CASE KillStep(t)
  <2>1. CASE KilledInTry(t)
    BY <2>1 DEF KilledInTry, Killed
  <2>2. CASE KilledOutsideTry(t)
    BY <2>2 DEF KilledOutsideTry, Killed
  <2>3. CASE KillSwallowedByCheck(t)
    BY <2>3 DEF KillSwallowedByCheck, Killed
  <2>4. CASE KillSwallowedBySend(t)
    BY <2>4 DEF KillSwallowedBySend, Killed
  <2>5. ASSUME NEW h \in Hosts, KillSwallowedByCallback(t, h) PROVE DataOf(t)'
    BY <2>5 DEF KillSwallowedByCallback, Killed, Result, TableRow
  <2> QED BY <1>5, <2>1, <2>2, <2>3, <2>4, <2>5 DEF KillStep
<1> QED BY <1>1, <1>2, <1>3, <1>4, <1>5 DEF Step, ThreadStep

(* Every step of a synchronous thread keeps its answer true. *)
LEMMA AnswerStep ==
  ASSUME TypeOK, RunInv, KillCaused, NEW t \in Threads, DataOf(t), AnswerOf(t), Step(t)
  PROVE  AnswerOf(t)'
<1>a. /\ pc \in [Threads -> Labels] /\ data \in [Threads -> SUBSET Row]
      /\ answer \in [Threads -> {"none", "success", "failure"}]
      /\ caller \in [Threads -> CallerStates]
  BY DEF TypeOK, ControlTypeOK, ResultTypeOK
<1>b. faults[t] \subseteq faults'[t]
  BY FaultsGrow
<1> USE <1>a, <1>b DEF AnswerOf, NoFault, Goto, FailJob, Async, Stored,
   callerVars, runVars, playVars, answerVars, tableVars, faultVars
<1>1. CASE CallerStep(t)
  <2>1. CASE ListUncompleted(t)
    BY <2>1 DEF ListUncompleted
  <2>2. CASE MarkRunning(t)
    BY <2>2 DEF MarkRunning
  <2>3. CASE StartThread(t)
    BY <2>3 DEF StartThread, RunInv
  <2>4. CASE ConstructorRaises(t)
    BY <2>4 DEF ConstructorRaises
  <2>5. CASE AppendToPool(t)
    BY <2>5 DEF AppendToPool
  <2>6. CASE CallerAnswered(t)
    BY <2>6 DEF CallerAnswered
  <2>7. CASE CallerTimesOut(t)
    BY <2>7 DEF CallerTimesOut
  <2> QED BY <1>1, <2>1, <2>2, <2>3, <2>4, <2>5, <2>6, <2>7 DEF CallerStep
<1>2. CASE MonitorStep(t)
  <2>1. CASE PopDeadThread(t)
    BY <2>1 DEF PopDeadThread
  <2>2. CASE TerminateThread(t)
    BY <2>2 DEF TerminateThread
  <2> QED BY <1>2, <2>1, <2>2 DEF MonitorStep
<1>3. CASE RunStep(t)
  <2>1. CASE CheckTargets(t)
    BY <2>1 DEF CheckTargets
  <2>2. CASE FirstTry(t)
    BY <2>2 DEF FirstTry
  <2>3. CASE CleanupResults(t)
    BY <2>3 DEF CleanupResults, AttemptFails
  <2>4. CASE TaskExec(t)
    BY <2>4 DEF TaskExec, AttemptFails
  <2>5. CASE StatsSync(t)
    BY <2>5 DEF StatsSync, DataOf
  <2>6. CASE StatsCollect(t)
    BY <2>6 DEF StatsCollect
  <2>7. CASE StatsStore(t)
    BY <2>7 DEF StatsStore
  <2>8. CASE StatsSend(t)
    BY <2>8 DEF StatsSend
  <2>9. CASE StatsFinish(t)
    BY <2>9 DEF StatsFinish
  <2>10. CASE Unwind(t)
    BY <2>10 DEF Unwind
  <2>11. CASE Sleep(t)
    BY <2>11 DEF Sleep
  <2>12. CASE FailSync(t)
    BY <2>12 DEF FailSync
  <2>13. CASE FailSend(t)
    BY <2>13 DEF FailSend
  <2>14. CASE FailStore(t)
    BY <2>14 DEF FailStore
  <2>15. CASE Signal(t)
    BY <2>15 DEF Signal
  <2> QED BY <1>3, <2>1, <2>2, <2>3, <2>4, <2>5, <2>6, <2>7, <2>8, <2>9, <2>10, <2>11, <2>12,
     <2>13, <2>14, <2>15 DEF RunStep
<1>4. CASE PlaybookStep(t)
  <2>1. CASE PlaybookRaises(t)
    BY <2>1 DEF PlaybookRaises, AttemptFails
  <2>2. CASE NoHostsMatched(t)
    BY <2>2 DEF NoHostsMatched
  <2>3. CASE PlaybookEnds(t)
    BY <2>3 DEF PlaybookEnds
  <2>4. ASSUME NEW h \in Hosts, HostResult(t, h) PROVE AnswerOf(t)'
    BY <2>4 DEF HostResult
  <2>5. ASSUME NEW h \in Hosts, HostSkipped(t, h) PROVE AnswerOf(t)'
    BY <2>5 DEF HostSkipped
  <2> QED BY <1>4, <2>1, <2>2, <2>3, <2>4, <2>5 DEF PlaybookStep
<1>5. CASE KillStep(t)
  <2>1. CASE KilledInTry(t)
    BY <2>1 DEF KilledInTry, Killed, KillCaused
  <2>2. CASE KilledOutsideTry(t)
    BY <2>2 DEF KilledOutsideTry, Killed, KillCaused
  <2>3. CASE KillSwallowedByCheck(t)
    BY <2>3 DEF KillSwallowedByCheck, Killed, KillCaused
  <2>4. CASE KillSwallowedBySend(t)
    BY <2>4 DEF KillSwallowedBySend, Killed, KillCaused
  <2>5. ASSUME NEW h \in Hosts, KillSwallowedByCallback(t, h) PROVE AnswerOf(t)'
    BY <2>5 DEF KillSwallowedByCallback, Killed, KillCaused
  <2> QED BY <1>5, <2>1, <2>2, <2>3, <2>4, <2>5 DEF KillStep
<1> QED BY <1>1, <1>2, <1>3, <1>4, <1>5 DEF Step, ThreadStep

----------------------------------------------------------------------------
(* The tries of a thread: each counted attempt launched the playbook, unless the tables failed. *)
Failing == {"fail", "fail_store", "fail_signal", "ended", "dead"}

Tried(t) == launched[t] = MAX_TRY_TIMES \/ "db" \in faults[t]

TriesOf(t) ==
  /\ pc[t] \in {"none", "check", "try", "launch", "sleep"} =>
       launched[t] = counter[t] \/ "db" \in faults[t]
  /\ pc[t] = "play" => launched[t] = counter[t] + 1 \/ "db" \in faults[t]
  /\ reason[t] = "exceeded" => pc[t] \in Failing /\ Tried(t)

ExceededOf(t) ==
  \A i \in DOMAIN mq[t] : mq[t][i].kind = "exceeded" => pc[t] \in Failing /\ Tried(t)

(* Every step of a thread keeps TriesOf. *)
LEMMA TriesStep ==
  ASSUME TypeOK, RunInv, UseDB, NEW t \in Threads, TriesOf(t), Step(t)
  PROVE  TriesOf(t)'
<1>a. /\ pc \in [Threads -> Labels] /\ reason \in [Threads -> Reasons]
      /\ counter \in [Threads -> 0..MAX_TRY_TIMES] /\ launched \in [Threads -> 0..MAX_TRY_TIMES]
      /\ MAX_TRY_TIMES \in Nat
  BY BoundsAssumption DEF TypeOK, ControlTypeOK
<1>b. faults[t] \subseteq faults'[t]
  BY FaultsGrow
<1> USE UseDB, <1>a, <1>b DEF TriesOf, Tried, Failing, NoFault, Goto, FailJob,
   callerVars, runVars, playVars, answerVars, tableVars, faultVars
<1>1. CASE CallerStep(t)
  <2>1. CASE ListUncompleted(t)
    BY <2>1 DEF ListUncompleted
  <2>2. CASE MarkRunning(t)
    BY <2>2 DEF MarkRunning
  <2>3. CASE StartThread(t)
    BY <2>3 DEF StartThread, RunInv
  <2>4. CASE ConstructorRaises(t)
    BY <2>4 DEF ConstructorRaises
  <2>5. CASE AppendToPool(t)
    BY <2>5 DEF AppendToPool
  <2>6. CASE CallerAnswered(t)
    BY <2>6 DEF CallerAnswered
  <2>7. CASE CallerTimesOut(t)
    BY <2>7 DEF CallerTimesOut
  <2> QED BY <1>1, <2>1, <2>2, <2>3, <2>4, <2>5, <2>6, <2>7 DEF CallerStep
<1>2. CASE MonitorStep(t)
  <2>1. CASE PopDeadThread(t)
    BY <2>1 DEF PopDeadThread
  <2>2. CASE TerminateThread(t)
    BY <2>2 DEF TerminateThread
  <2> QED BY <1>2, <2>1, <2>2 DEF MonitorStep
<1>3. CASE RunStep(t)
  <2>1. CASE CheckTargets(t)
    BY <2>1 DEF CheckTargets
  <2>2. CASE FirstTry(t)
    BY <2>2 DEF FirstTry
  <2>3. CASE CleanupResults(t)
    <3>1. launched' = launched /\ reason[t] # "exceeded"
      BY <2>3 DEF CleanupResults
    <3>2. CASE Fault(t, "db") /\ AttemptFails(t)
      <4>1. "db" \in faults'[t]
        BY <3>2 DEF Fault, TypeOK, StatusTypeOK
      <4>2. pc'[t] = "fail" \/ (pc'[t] = "sleep" /\ reason'[t] # "exceeded")
        BY <3>1, <3>2 DEF AttemptFails
      <4> QED
        BY <4>1, <4>2
    <3>3. CASE Goto(t, "launch") /\ NoFault /\ UNCHANGED <<counter, reason>>
      BY <2>3, <3>1, <3>3 DEF CleanupResults
    <3> QED
      BY <2>3, <3>2, <3>3 DEF CleanupResults
  <2>4. CASE TaskExec(t)
    BY <2>4 DEF TaskExec, AttemptFails, RunInv
  <2>5. CASE StatsSync(t)
    BY <2>5 DEF StatsSync
  <2>6. CASE StatsCollect(t)
    BY <2>6 DEF StatsCollect
  <2>7. CASE StatsStore(t)
    BY <2>7 DEF StatsStore
  <2>8. CASE StatsSend(t)
    BY <2>8 DEF StatsSend
  <2>9. CASE StatsFinish(t)
    BY <2>9 DEF StatsFinish
  <2>10. CASE Unwind(t)
    BY <2>10 DEF Unwind
  <2>11. CASE Sleep(t)
    BY <2>11 DEF Sleep
  <2>12. CASE FailSync(t)
    BY <2>12 DEF FailSync
  <2>13. CASE FailSend(t)
    BY <2>13 DEF FailSend
  <2>14. CASE FailStore(t)
    BY <2>14 DEF FailStore
  <2>15. CASE Signal(t)
    BY <2>15 DEF Signal
  <2> QED BY <1>3, <2>1, <2>2, <2>3, <2>4, <2>5, <2>6, <2>7, <2>8, <2>9, <2>10, <2>11, <2>12,
     <2>13, <2>14, <2>15 DEF RunStep
<1>4. CASE PlaybookStep(t)
  <2>1. CASE PlaybookRaises(t)
    BY <2>1 DEF PlaybookRaises, AttemptFails, RunInv
  <2>2. CASE NoHostsMatched(t)
    BY <2>2 DEF NoHostsMatched
  <2>3. CASE PlaybookEnds(t)
    BY <2>3 DEF PlaybookEnds
  <2>4. ASSUME NEW h \in Hosts, HostResult(t, h) PROVE TriesOf(t)'
    BY <2>4 DEF HostResult
  <2>5. ASSUME NEW h \in Hosts, HostSkipped(t, h) PROVE TriesOf(t)'
    BY <2>5 DEF HostSkipped
  <2> QED BY <1>4, <2>1, <2>2, <2>3, <2>4, <2>5 DEF PlaybookStep
<1>5. CASE KillStep(t)
  <2>1. CASE KilledInTry(t)
    BY <2>1 DEF KilledInTry, Killed
  <2>2. CASE KilledOutsideTry(t)
    BY <2>2 DEF KilledOutsideTry, Killed
  <2>3. CASE KillSwallowedByCheck(t)
    BY <2>3 DEF KillSwallowedByCheck, Killed
  <2>4. CASE KillSwallowedBySend(t)
    BY <2>4 DEF KillSwallowedBySend, Killed
  <2>5. ASSUME NEW h \in Hosts, KillSwallowedByCallback(t, h) PROVE TriesOf(t)'
    BY <2>5 DEF KillSwallowedByCallback, Killed
  <2> QED BY <1>5, <2>1, <2>2, <2>3, <2>4, <2>5 DEF KillStep
<1> QED BY <1>1, <1>2, <1>3, <1>4, <1>5 DEF Step, ThreadStep

(* A thread that gives up does not try again. *)
LEMMA FailingStays ==
  ASSUME TypeOK, RunInv, NEW t \in Threads, pc[t] \in Failing, Step(t)
  PROVE  pc'[t] \in Failing /\ launched'[t] = launched[t]
<1>a. pc \in [Threads -> Labels]
  BY DEF TypeOK, ControlTypeOK
<1> USE <1>a DEF Failing, Goto, FailJob, callerVars, runVars
<1>1. CASE CallerStep(t)
  BY <1>1 DEF CallerStep, ListUncompleted, MarkRunning, StartThread, ConstructorRaises,
     AppendToPool, CallerAnswered, CallerTimesOut, RunInv
<1>2. CASE MonitorStep(t)
  BY <1>2 DEF MonitorStep, PopDeadThread, TerminateThread
<1>3. CASE RunStep(t)
  BY <1>3 DEF RunStep, CheckTargets, FirstTry, CleanupResults, TaskExec, StatsSync,
     StatsCollect, StatsStore, StatsSend, StatsFinish, Unwind, Sleep, FailSync,
     FailSend, FailStore, Signal
<1>4. CASE PlaybookStep(t)
  BY <1>4 DEF PlaybookStep, PlaybookRaises, NoHostsMatched, PlaybookEnds, HostResult,
     HostSkipped
<1>5. CASE KillStep(t)
  BY <1>5 DEF KillStep, KilledInTry, KilledOutsideTry, KillSwallowedByCheck,
     KillSwallowedBySend, KillSwallowedByCallback, Killed
<1> QED BY <1>1, <1>2, <1>3, <1>4, <1>5 DEF Step, ThreadStep

(* A step publishes the results of a thread that sends them, or the reason of a failure. *)
LEMMA NewMessages ==
  ASSUME TypeOK, NEW t \in Threads, Step(t), NEW i \in DOMAIN mq'[t]
  PROVE  \/ i \in DOMAIN mq[t] /\ mq'[t][i] = mq[t][i]
         \/ pc[t] = "send" /\ mq'[t][i].kind = "final" /\ mq'[t][i].rows = collected[t]
         \/ pc[t] = "fail" /\ mq'[t][i].kind = reason[t] /\ mq'[t][i].rows = {}
<1> DEFINE Goal == \/ i \in DOMAIN mq[t] /\ mq'[t][i] = mq[t][i]
                   \/ pc[t] = "send" /\ mq'[t][i].kind = "final" /\ mq'[t][i].rows = collected[t]
                   \/ pc[t] = "fail" /\ mq'[t][i].kind = reason[t] /\ mq'[t][i].rows = {}
<1>a. CASE mq' = mq
  BY <1>a
<1>b. CASE pc[t] = "send" /\ Publish(t, "final", collected[t])
  <2>1. /\ Len(mq[t]) \in Nat /\ Len(mq'[t]) = Len(mq[t]) + 1
        /\ mq'[t][Len(mq[t]) + 1].kind = "final" /\ mq'[t][Len(mq[t]) + 1].rows = collected[t]
        /\ \A k \in 1..Len(mq[t]) : mq'[t][k] = mq[t][k]
    BY <1>b, FinalMessage
  <2>2. mq' \in [Threads -> Seq(Message)] /\ mq \in [Threads -> Seq(Message)]
    BY <1>b, ReportFacts DEF TypeOK, ResultTypeOK
  <2> QED
    BY <1>b, <2>1, <2>2
<1>c. CASE pc[t] = "fail" /\ Publish(t, reason[t], {})
  <2>1. /\ Len(mq[t]) \in Nat /\ Len(mq'[t]) = Len(mq[t]) + 1
        /\ mq'[t][Len(mq[t]) + 1].kind = reason[t] /\ mq'[t][Len(mq[t]) + 1].rows = {}
        /\ \A k \in 1..Len(mq[t]) : mq'[t][k] = mq[t][k]
    BY <1>c, FailureMessage
  <2>2. mq' \in [Threads -> Seq(Message)] /\ mq \in [Threads -> Seq(Message)]
    BY <1>c, ReportFacts DEF TypeOK, ResultTypeOK
  <2> QED
    BY <1>c, <2>1, <2>2
<1>d. \/ mq' = mq
      \/ pc[t] = "send" /\ Publish(t, "final", collected[t])
      \/ pc[t] = "fail" /\ Publish(t, reason[t], {})
  <2> DEFINE M == \/ mq' = mq
                  \/ pc[t] = "send" /\ Publish(t, "final", collected[t])
                  \/ pc[t] = "fail" /\ Publish(t, reason[t], {})
  <2>1. CallerStep(t) => M
    BY DEF CallerStep, ListUncompleted, MarkRunning, StartThread, ConstructorRaises, AppendToPool,
       CallerAnswered, CallerTimesOut
  <2>2. MonitorStep(t) => M
    BY DEF MonitorStep, PopDeadThread, TerminateThread
  <2>3. RunStep(t) => M
    BY DEF RunStep, CheckTargets, FirstTry, CleanupResults, TaskExec, StatsSync, StatsCollect,
       StatsStore, StatsSend, StatsFinish, Unwind, Sleep, FailSync, FailSend, FailStore, Signal
  <2>4. PlaybookStep(t) => M
    BY DEF PlaybookStep, PlaybookRaises, NoHostsMatched, PlaybookEnds, HostResult, HostSkipped
  <2>5. KillStep(t) => M
    BY DEF KillStep, KilledInTry, KilledOutsideTry, KillSwallowedByCheck, KillSwallowedBySend,
       KillSwallowedByCallback
  <2> QED
    BY <2>1, <2>2, <2>3, <2>4, <2>5 DEF Step, ThreadStep
<1> QED
  BY <1>a, <1>b, <1>c, <1>d

LEMMA ExceededStep ==
  ASSUME TypeOK, RunInv, NEW t \in Threads, TriesOf(t), ExceededOf(t), Step(t)
  PROVE  ExceededOf(t)'
<1>1. faults[t] \subseteq faults'[t]
  BY FaultsGrow
<1>2. pc[t] \in Failing /\ Tried(t) => pc'[t] \in Failing /\ Tried(t)'
  BY <1>1, FailingStays DEF Tried
<1> SUFFICES ASSUME NEW i \in DOMAIN mq'[t], mq'[t][i].kind = "exceeded"
             PROVE  pc[t] \in Failing /\ Tried(t)
  BY <1>2 DEF ExceededOf
<1> QED
  BY NewMessages DEF ExceededOf, TriesOf

----------------------------------------------------------------------------
(* The results of an attempt: what a failed one stored is deleted before the next. *)
OwnResults(t) == {r \in rows : r.thread = t /\ ~r.valid /\ ~Missed(t, r)}

RowsOf(t) ==
  /\ pc[t] \in {"none", "check", "launch"} => OwnResults(t) = {}
  /\ pc[t] = "try" /\ counter[t] = 0 => OwnResults(t) = {}
  /\ pc[t] = "sleep" => counter[t] > 0
  /\ pc[t] \in {"try", "sleep", "play"} =>
       \A r \in OwnResults(t) : r.queue = QueueOf[t] /\ r.target \in Targets(t)
  /\ pc[t] \in {"play", "stats"} => \A r \in OwnResults(t) : r.attempt = counter[t]

(* A step stores rows of its own thread only. *)
LEMMA NewRows ==
  ASSUME NEW t \in Threads, Step(t), NEW r \in rows' \ rows
  PROVE  r.thread = t
<1> USE DEF callerVars, runVars, playVars, answerVars, tableVars, faultVars
<1>1. CASE CallerStep(t)
  <2>1. CASE ListUncompleted(t)
    BY <2>1 DEF ListUncompleted
  <2>2. CASE MarkRunning(t)
    BY <2>2 DEF MarkRunning
  <2>3. CASE StartThread(t)
    BY <2>3 DEF StartThread
  <2>4. CASE ConstructorRaises(t)
    BY <2>4 DEF ConstructorRaises
  <2>5. CASE AppendToPool(t)
    BY <2>5 DEF AppendToPool
  <2>6. CASE CallerAnswered(t)
    BY <2>6 DEF CallerAnswered
  <2>7. CASE CallerTimesOut(t)
    BY <2>7 DEF CallerTimesOut
  <2> QED BY <1>1, <2>1, <2>2, <2>3, <2>4, <2>5, <2>6, <2>7 DEF CallerStep
<1>2. CASE MonitorStep(t)
  <2>1. CASE PopDeadThread(t)
    BY <2>1 DEF PopDeadThread
  <2>2. CASE TerminateThread(t)
    BY <2>2 DEF TerminateThread
  <2> QED BY <1>2, <2>1, <2>2 DEF MonitorStep
<1>3. CASE RunStep(t)
  <2>1. CASE CheckTargets(t)
    BY <2>1 DEF CheckTargets
  <2>2. CASE FirstTry(t)
    BY <2>2 DEF FirstTry
  <2>3. CASE CleanupResults(t)
    BY <2>3 DEF CleanupResults
  <2>4. CASE TaskExec(t)
    BY <2>4 DEF TaskExec
  <2>5. CASE StatsSync(t)
    BY <2>5 DEF StatsSync
  <2>6. CASE StatsCollect(t)
    BY <2>6 DEF StatsCollect
  <2>7. CASE StatsStore(t)
    BY <2>7 DEF StatsStore, Summary, TableRow
  <2>8. CASE StatsSend(t)
    BY <2>8 DEF StatsSend
  <2>9. CASE StatsFinish(t)
    BY <2>9 DEF StatsFinish
  <2>10. CASE Unwind(t)
    BY <2>10 DEF Unwind
  <2>11. CASE Sleep(t)
    BY <2>11 DEF Sleep
  <2>12. CASE FailSync(t)
    BY <2>12 DEF FailSync
  <2>13. CASE FailSend(t)
    BY <2>13 DEF FailSend
  <2>14. CASE FailStore(t)
    <3>1. r = Summary(t, "", FALSE)
      BY <2>14 DEF FailStore
    <3> QED
      BY <3>1 DEF Summary, TableRow
  <2>15. CASE Signal(t)
    BY <2>15 DEF Signal
  <2> QED BY <1>3, <2>1, <2>2, <2>3, <2>4, <2>5, <2>6, <2>7, <2>8, <2>9, <2>10, <2>11, <2>12,
     <2>13, <2>14, <2>15 DEF RunStep
<1>4. CASE PlaybookStep(t)
  <2>1. CASE PlaybookRaises(t)
    BY <2>1 DEF PlaybookRaises
  <2>2. CASE NoHostsMatched(t)
    <3>1. r = Result(t, "", FALSE)
      BY <2>2 DEF NoHostsMatched, StoreResult
    <3> QED
      BY <3>1 DEF Result, TableRow
  <2>3. CASE PlaybookEnds(t)
    BY <2>3 DEF PlaybookEnds
  <2>4. ASSUME NEW h \in Hosts, HostResult(t, h) PROVE r.thread = t
    BY <2>4 DEF HostResult, StoreResult, Result, TableRow
  <2>5. ASSUME NEW h \in Hosts, HostSkipped(t, h) PROVE r.thread = t
    BY <2>5 DEF HostSkipped
  <2> QED BY <1>4, <2>1, <2>2, <2>3, <2>4, <2>5 DEF PlaybookStep
<1>5. CASE KillStep(t)
  <2>1. CASE KilledInTry(t)
    BY <2>1 DEF KilledInTry, Killed
  <2>2. CASE KilledOutsideTry(t)
    BY <2>2 DEF KilledOutsideTry, Killed
  <2>3. CASE KillSwallowedByCheck(t)
    BY <2>3 DEF KillSwallowedByCheck, Killed
  <2>4. CASE KillSwallowedBySend(t)
    BY <2>4 DEF KillSwallowedBySend, Killed
  <2>5. ASSUME NEW h \in Hosts, KillSwallowedByCallback(t, h) PROVE r.thread = t
    BY <2>5 DEF KillSwallowedByCallback, Killed, Result, TableRow
  <2> QED BY <1>5, <2>1, <2>2, <2>3, <2>4, <2>5 DEF KillStep
<1> QED BY <1>1, <1>2, <1>3, <1>4, <1>5 DEF Step, ThreadStep

(* The rows of a thread which the other threads leave it. *)
LEMMA RowsOfOthers ==
  ASSUME NEW t \in Threads, Step(t), NEW u \in Threads, u # t
  PROVE  OwnResults(u)' \subseteq OwnResults(u)
BY NewRows DEF OwnResults

(* cleanup_results deletes every result of a thread but the first host's it misses. *)
LEMMA CleanupFacts ==
  ASSUME NEW t \in Threads, Stored(t),
         \A r \in OwnResults(t) : r.queue = QueueOf[t] /\ r.target \in Targets(t)
  PROVE  OwnResults(t) \subseteq CleanupMatches(t)
<1> SUFFICES ASSUME NEW r \in OwnResults(t) PROVE r \in CleanupMatches(t)
  OBVIOUS
<1>1. PICK i \in DOMAIN IpList[t] : r.target = IpList[t][i]
  BY DEF Targets
<1>2. IpList[t] \in Seq(Hosts) /\ i \in 1..Len(IpList[t]) /\ Len(IpList[t]) \in Nat
  BY ThreadsAssumption
<1>3. i = 1 \/ i \in 2..Len(IpList[t])
  BY <1>2
<1> QED
  BY <1>1, <1>3 DEF OwnResults, CleanupMatches, Missed

(* A result of the running attempt, of a host it targets, keeps RowsOf. *)
LEMMA OneResult ==
  ASSUME NEW t \in Threads, NEW h \in Targets(t), NEW ok \in BOOLEAN, RowsOf(t), pc[t] = "play",
         rows' = rows \/ rows' = rows \cup {Result(t, h, ok)},
         pc' = pc, counter' = counter
  PROVE  RowsOf(t)'
<1>1. /\ Result(t, h, ok).queue = QueueOf[t] /\ Result(t, h, ok).target = h
      /\ Result(t, h, ok).attempt = counter[t]
  BY DEF Result, TableRow
<1> QED
  BY <1>1 DEF RowsOf, OwnResults, Targets

(* Every step of a thread keeps RowsOf. *)
LEMMA RowsStep ==
  ASSUME TypeOK, RunInv, NEW t \in Threads, Stored(t),
         DataOf(t), RowsOf(t), Step(t)
  PROVE  RowsOf(t)'
<1>a. /\ pc \in [Threads -> Labels] /\ counter \in [Threads -> 0..MAX_TRY_TIMES]
  BY DEF TypeOK, ControlTypeOK
<1> USE <1>a, Stored(t) DEF RowsOf, NoFault, Goto, FailJob, Targets, OwnResults,
   callerVars, runVars, playVars, answerVars, tableVars, faultVars
<1>1. CASE CallerStep(t)
  <2>1. CASE ListUncompleted(t)
    BY <2>1 DEF ListUncompleted
  <2>2. CASE MarkRunning(t)
    BY <2>2 DEF MarkRunning
  <2>3. CASE StartThread(t)
    BY <2>3 DEF StartThread, RunInv
  <2>4. CASE ConstructorRaises(t)
    BY <2>4 DEF ConstructorRaises
  <2>5. CASE AppendToPool(t)
    BY <2>5 DEF AppendToPool
  <2>6. CASE CallerAnswered(t)
    BY <2>6 DEF CallerAnswered
  <2>7. CASE CallerTimesOut(t)
    BY <2>7 DEF CallerTimesOut
  <2> QED BY <1>1, <2>1, <2>2, <2>3, <2>4, <2>5, <2>6, <2>7 DEF CallerStep
<1>2. CASE MonitorStep(t)
  <2>1. CASE PopDeadThread(t)
    BY <2>1 DEF PopDeadThread
  <2>2. CASE TerminateThread(t)
    BY <2>2 DEF TerminateThread
  <2> QED BY <1>2, <2>1, <2>2 DEF MonitorStep
<1>3. CASE RunStep(t)
  <2>1. CASE CheckTargets(t)
    BY <2>1 DEF CheckTargets, RunInv
  <2>2. CASE FirstTry(t)
    BY <2>2 DEF FirstTry
  <2>3. CASE CleanupResults(t)
    <3>1. CASE rows' = rows \ CleanupMatches(t) /\ Goto(t, "launch")
      <4>1. OwnResults(t) \subseteq CleanupMatches(t)
        BY <2>3, CleanupFacts DEF CleanupResults
      <4>2. OwnResults(t)' = {} /\ pc'[t] = "launch"
        BY <3>1, <4>1
      <4> QED
        BY <4>2
    <3>2. CASE AttemptFails(t) /\ UNCHANGED rows
      BY <2>3, <3>2 DEF CleanupResults, AttemptFails
    <3> QED
      BY <2>3, <3>1, <3>2 DEF CleanupResults
  <2>4. CASE TaskExec(t)
    BY <2>4 DEF TaskExec, AttemptFails
  <2>5. CASE StatsSync(t)
    BY <2>5 DEF StatsSync
  <2>6. CASE StatsCollect(t)
    BY <2>6 DEF StatsCollect
  <2>7. CASE StatsStore(t)
    BY <2>7 DEF StatsStore, Summary, TableRow
  <2>8. CASE StatsSend(t)
    BY <2>8 DEF StatsSend
  <2>9. CASE StatsFinish(t)
    BY <2>9 DEF StatsFinish
  <2>10. CASE Unwind(t)
    BY <2>10 DEF Unwind
  <2>11. CASE Sleep(t)
    BY <2>11 DEF Sleep
  <2>12. CASE FailSync(t)
    BY <2>12 DEF FailSync
  <2>13. CASE FailSend(t)
    BY <2>13 DEF FailSend
  <2>14. CASE FailStore(t)
    BY <2>14 DEF FailStore, Summary, TableRow
  <2>15. CASE Signal(t)
    BY <2>15 DEF Signal
  <2> QED BY <1>3, <2>1, <2>2, <2>3, <2>4, <2>5, <2>6, <2>7, <2>8, <2>9, <2>10, <2>11, <2>12,
     <2>13, <2>14, <2>15 DEF RunStep
<1>4. CASE PlaybookStep(t)
  <2>1. CASE PlaybookRaises(t)
    BY <2>1 DEF PlaybookRaises, AttemptFails
  <2>2. CASE NoHostsMatched(t)
    <3>1. pc'[t] = "stats" /\ counter' = counter /\ \A r \in OwnResults(t) : r.attempt = counter[t]
      BY <2>2 DEF NoHostsMatched
    <3>2. Result(t, "", FALSE).attempt = counter[t]
      BY DEF Result, TableRow
    <3>3. rows' = rows \/ rows' = rows \cup {Result(t, "", FALSE)}
      BY <2>2 DEF NoHostsMatched, StoreResult
    <3> QED
      BY <3>1, <3>2, <3>3
  <2>3. CASE PlaybookEnds(t)
    BY <2>3 DEF PlaybookEnds
  <2>4. ASSUME NEW h \in Hosts, HostResult(t, h) PROVE RowsOf(t)'
    <3>1. PICK ok \in BOOLEAN : StoreResult(t, h, ok)
      BY <2>4 DEF HostResult
    <3>2. rows' = rows \/ rows' = rows \cup {Result(t, h, ok)}
      BY <3>1 DEF StoreResult
    <3>3. pc[t] = "play" /\ pc' = pc /\ counter' = counter /\ h \in Targets(t)
      BY <2>4 DEF HostResult, DataOf
    <3> HIDE DEF RowsOf, OwnResults, Targets
    <3> QED
      BY <3>2, <3>3, OneResult
  <2>5. ASSUME NEW h \in Hosts, HostSkipped(t, h) PROVE RowsOf(t)'
    BY <2>5 DEF HostSkipped
  <2> QED BY <1>4, <2>1, <2>2, <2>3, <2>4, <2>5 DEF PlaybookStep
<1>5. CASE KillStep(t)
  <2>1. CASE KilledInTry(t)
    BY <2>1 DEF KilledInTry, Killed
  <2>2. CASE KilledOutsideTry(t)
    BY <2>2 DEF KilledOutsideTry, Killed
  <2>3. CASE KillSwallowedByCheck(t)
    BY <2>3 DEF KillSwallowedByCheck, Killed
  <2>4. CASE KillSwallowedBySend(t)
    BY <2>4 DEF KillSwallowedBySend, Killed
  <2>5. ASSUME NEW h \in Hosts, KillSwallowedByCallback(t, h) PROVE RowsOf(t)'
    <3>1. rows' = rows \/ rows' = rows \cup {Result(t, h, TRUE)}
      BY <2>5 DEF KillSwallowedByCallback
    <3>2. pc[t] = "play" /\ pc' = pc /\ counter' = counter /\ h \in Targets(t)
      BY <2>5 DEF KillSwallowedByCallback, DataOf
    <3> HIDE DEF RowsOf, OwnResults, Targets
    <3> QED
      BY <3>1, <3>2, OneResult
  <2> QED BY <1>5, <2>1, <2>2, <2>3, <2>4, <2>5 DEF KillStep
<1> QED BY <1>1, <1>2, <1>3, <1>4, <1>5 DEF Step, ThreadStep

(* What a thread collected for its report, and reported, is of the attempt it counted last. *)
CollectedOf(t) ==
  pc[t] \in {"store", "send"} => \A r \in collected[t] :
    r.thread = t => r.attempt = counter[t] \/ Missed(t, r)

ReportedOf(t) ==
  \A i \in DOMAIN mq[t] : \A r \in mq[t][i].rows :
    r.thread = t => r.attempt = counter[t] \/ Missed(t, r)

LEMMA CollectedStep ==
  ASSUME TypeOK, NEW t \in Threads, DataOf(t), Stored(t) => RowsOf(t), CollectedOf(t), Step(t)
  PROVE  CollectedOf(t)'
<1>a. pc \in [Threads -> Labels] /\ collected \in [Threads -> SUBSET Row]
  BY DEF TypeOK, ControlTypeOK, ResultTypeOK
<1> USE <1>a DEF CollectedOf, NoFault, Goto, FailJob,
   callerVars, runVars, playVars, answerVars, tableVars, faultVars
<1>1. CASE CallerStep(t)
  <2>1. CASE ListUncompleted(t)
    BY <2>1 DEF ListUncompleted
  <2>2. CASE MarkRunning(t)
    BY <2>2 DEF MarkRunning
  <2>3. CASE StartThread(t)
    BY <2>3 DEF StartThread
  <2>4. CASE ConstructorRaises(t)
    BY <2>4 DEF ConstructorRaises
  <2>5. CASE AppendToPool(t)
    BY <2>5 DEF AppendToPool
  <2>6. CASE CallerAnswered(t)
    BY <2>6 DEF CallerAnswered
  <2>7. CASE CallerTimesOut(t)
    BY <2>7 DEF CallerTimesOut
  <2> QED BY <1>1, <2>1, <2>2, <2>3, <2>4, <2>5, <2>6, <2>7 DEF CallerStep
<1>2. CASE MonitorStep(t)
  <2>1. CASE PopDeadThread(t)
    BY <2>1 DEF PopDeadThread
  <2>2. CASE TerminateThread(t)
    BY <2>2 DEF TerminateThread
  <2> QED BY <1>2, <2>1, <2>2 DEF MonitorStep
<1>3. CASE RunStep(t)
  <2>1. CASE CheckTargets(t)
    BY <2>1 DEF CheckTargets
  <2>2. CASE FirstTry(t)
    BY <2>2 DEF FirstTry
  <2>3. CASE CleanupResults(t)
    BY <2>3 DEF CleanupResults, AttemptFails
  <2>4. CASE TaskExec(t)
    BY <2>4 DEF TaskExec, AttemptFails
  <2>5. CASE StatsSync(t)
    BY <2>5 DEF StatsSync
  <2>6. CASE StatsCollect(t)
    <3>1. pc[t] = "stats" /\ counter' = counter
      BY <2>6 DEF StatsCollect
    <3>2. CASE Stored(t) /\ collected'[t] = {r \in rows : r.queue = QueueOf[t] /\ ~r.valid}
      BY <3>1, <3>2 DEF RowsOf, OwnResults
    <3>3. CASE collected'[t] = data[t]
      BY <3>1, <3>3 DEF DataOf
    <3>4. CASE pc'[t] = "unwind"
      BY <3>4
    <3> QED
      BY <2>6, <3>2, <3>3, <3>4 DEF StatsCollect
  <2>7. CASE StatsStore(t)
    BY <2>7 DEF StatsStore
  <2>8. CASE StatsSend(t)
    BY <2>8 DEF StatsSend
  <2>9. CASE StatsFinish(t)
    BY <2>9 DEF StatsFinish
  <2>10. CASE Unwind(t)
    BY <2>10 DEF Unwind
  <2>11. CASE Sleep(t)
    BY <2>11 DEF Sleep
  <2>12. CASE FailSync(t)
    BY <2>12 DEF FailSync
  <2>13. CASE FailSend(t)
    BY <2>13 DEF FailSend
  <2>14. CASE FailStore(t)
    BY <2>14 DEF FailStore
  <2>15. CASE Signal(t)
    BY <2>15 DEF Signal
  <2> QED BY <1>3, <2>1, <2>2, <2>3, <2>4, <2>5, <2>6, <2>7, <2>8, <2>9, <2>10, <2>11, <2>12,
     <2>13, <2>14, <2>15 DEF RunStep
<1>4. CASE PlaybookStep(t)
  <2>1. CASE PlaybookRaises(t)
    BY <2>1 DEF PlaybookRaises, AttemptFails
  <2>2. CASE NoHostsMatched(t)
    BY <2>2 DEF NoHostsMatched
  <2>3. CASE PlaybookEnds(t)
    BY <2>3 DEF PlaybookEnds
  <2>4. ASSUME NEW h \in Hosts, HostResult(t, h) PROVE CollectedOf(t)'
    BY <2>4 DEF HostResult
  <2>5. ASSUME NEW h \in Hosts, HostSkipped(t, h) PROVE CollectedOf(t)'
    BY <2>5 DEF HostSkipped
  <2> QED BY <1>4, <2>1, <2>2, <2>3, <2>4, <2>5 DEF PlaybookStep
<1>5. CASE KillStep(t)
  <2>1. CASE KilledInTry(t)
    BY <2>1 DEF KilledInTry, Killed
  <2>2. CASE KilledOutsideTry(t)
    BY <2>2 DEF KilledOutsideTry, Killed
  <2>3. CASE KillSwallowedByCheck(t)
    BY <2>3 DEF KillSwallowedByCheck, Killed
  <2>4. CASE KillSwallowedBySend(t)
    BY <2>4 DEF KillSwallowedBySend, Killed
  <2>5. ASSUME NEW h \in Hosts, KillSwallowedByCallback(t, h) PROVE CollectedOf(t)'
    BY <2>5 DEF KillSwallowedByCallback, Killed
  <2> QED BY <1>5, <2>1, <2>2, <2>3, <2>4, <2>5 DEF KillStep
<1> QED BY <1>1, <1>2, <1>3, <1>4, <1>5 DEF Step, ThreadStep

(* Attempts are counted while the thread tries only. *)
LEMMA CounterStays ==
  ASSUME NEW t \in Threads, pc[t] \notin {"try", "launch", "play"}, Step(t)
  PROVE  counter' = counter
<1> USE DEF callerVars, runVars
<1>1. CASE CallerStep(t)
  BY <1>1 DEF CallerStep, ListUncompleted, MarkRunning, StartThread, ConstructorRaises,
     AppendToPool, CallerAnswered, CallerTimesOut
<1>2. CASE MonitorStep(t)
  BY <1>2 DEF MonitorStep, PopDeadThread, TerminateThread
<1>3. CASE RunStep(t)
  BY <1>3 DEF RunStep, CheckTargets, FirstTry, CleanupResults, TaskExec, StatsSync,
     StatsCollect, StatsStore, StatsSend, StatsFinish, Unwind, Sleep, FailSync,
     FailSend, FailStore, Signal
<1>4. CASE PlaybookStep(t)
  BY <1>4 DEF PlaybookStep, PlaybookRaises, NoHostsMatched, PlaybookEnds, HostResult,
     HostSkipped
<1>5. CASE KillStep(t)
  BY <1>5 DEF KillStep, KilledInTry, KilledOutsideTry, KillSwallowedByCheck,
     KillSwallowedBySend, KillSwallowedByCallback, Killed
<1> QED BY <1>1, <1>2, <1>3, <1>4, <1>5 DEF Step, ThreadStep

LEMMA ReportedStep ==
  ASSUME TypeOK, NEW t \in Threads, MessagesOf(t), CollectedOf(t), ReportedOf(t), Step(t)
  PROVE  ReportedOf(t)'
<1> SUFFICES ASSUME NEW i \in DOMAIN mq'[t], NEW r \in mq'[t][i].rows, r.thread = t
             PROVE  r.attempt = counter'[t] \/ Missed(t, r)
  BY DEF ReportedOf, Missed, Stored, Async
<1>1. mq[t] \in Seq(Message)
  BY DEF TypeOK, ResultTypeOK
<1>2. CASE i \in DOMAIN mq[t] /\ mq'[t][i] = mq[t][i]
  <2>1. Len(mq[t]) # 0
    BY <1>1, <1>2
  <2>2. counter' = counter
    BY <2>1, CounterStays DEF MessagesOf, Unreported
  <2> QED
    BY <1>2, <2>2 DEF ReportedOf
<1>3. CASE pc[t] = "send" /\ mq'[t][i].rows = collected[t]
  BY <1>3, CounterStays DEF CollectedOf
<1>4. CASE mq'[t][i].rows = {}
  BY <1>4
<1> QED
  BY <1>2, <1>3, <1>4, NewMessages

----------------------------------------------------------------------------
(* A row is RUNNING because an execution marked it, which is not over or met a *)
(* fault or a termination: one that ends without completes the row.            *)
Over(t) == pc[t] \in {"unwind", "ended", "dead"}

MarkedInv ==
  \A q \in Queues : status[q] = TASK_RUNNING =>
    \E t \in Threads : /\ QueueOf[t] = q /\ Marks(t) /\ caller[t] # "idle"
                       /\ Over(t) => faults[t] # {}

FinishOf(t) == caller[t] \in {"append", "wait", "answered", "timeout"} => pc[t] # "none"

EndsWell(t) ==
  Marks(t) /\ ~Over(t) /\ Over(t)' /\ faults'[t] = {} => status'[QueueOf[t]] = TASK_COMPLETE

(* The thread itself: it ends a job without a fault only by completing its row. *)
LEMMA FinishStep ==
  ASSUME TypeOK, RunInv, KillCaused, NEW t \in Threads, FinishOf(t), Step(t)
  PROVE  FinishOf(t)' /\ EndsWell(t)
<1>a. /\ pc \in [Threads -> Labels] /\ caller \in [Threads -> CallerStates]
      /\ status \in [Queues -> Statuses] /\ QueueOf[t] \in Queues
      /\ faults \in [Threads -> SUBSET FaultKinds]
  BY ThreadsAssumption DEF TypeOK, ControlTypeOK, StatusTypeOK
<1>b. faults[t] \subseteq faults'[t]
  BY FaultsGrow
<1> USE <1>a, <1>b DEF FinishOf, EndsWell, Over, NoFault, Goto, FailJob, Marks, Stored, Async, SetStatus,
   callerVars, runVars, playVars, answerVars, tableVars, faultVars
<1>1. CASE CallerStep(t)
  <2>1. CASE ListUncompleted(t)
    BY <2>1 DEF ListUncompleted, RunInv
  <2>2. CASE MarkRunning(t)
    BY <2>2 DEF MarkRunning, RunInv
  <2>3. CASE StartThread(t)
    BY <2>3 DEF StartThread, RunInv
  <2>4. CASE ConstructorRaises(t)
    BY <2>4 DEF ConstructorRaises, RunInv
  <2>5. CASE AppendToPool(t)
    BY <2>5 DEF AppendToPool, RunInv
  <2>6. CASE CallerAnswered(t)
    BY <2>6 DEF CallerAnswered
  <2>7. CASE CallerTimesOut(t)
    BY <2>7 DEF CallerTimesOut
  <2> QED BY <1>1, <2>1, <2>2, <2>3, <2>4, <2>5, <2>6, <2>7 DEF CallerStep
<1>2. CASE MonitorStep(t)
  <2>1. CASE PopDeadThread(t)
    BY <2>1 DEF PopDeadThread
  <2>2. CASE TerminateThread(t)
    BY <2>2 DEF TerminateThread
  <2> QED BY <1>2, <2>1, <2>2 DEF MonitorStep
<1>3. CASE RunStep(t)
  <2>1. CASE CheckTargets(t)
    BY <2>1 DEF CheckTargets
  <2>2. CASE FirstTry(t)
    BY <2>2 DEF FirstTry
  <2>3. CASE CleanupResults(t)
    BY <2>3 DEF CleanupResults, AttemptFails
  <2>4. CASE TaskExec(t)
    BY <2>4 DEF TaskExec, AttemptFails
  <2>5. CASE StatsSync(t)
    BY <2>5 DEF StatsSync
  <2>6. CASE StatsCollect(t)
    BY <2>6 DEF StatsCollect, Fault
  <2>7. CASE StatsStore(t)
    BY <2>7 DEF StatsStore, Fault
  <2>8. CASE StatsSend(t)
    BY <2>8 DEF StatsSend, Fault
  <2>9. CASE StatsFinish(t)
    BY <2>9 DEF StatsFinish, Fault
  <2>10. CASE Unwind(t)
    BY <2>10 DEF Unwind
  <2>11. CASE Sleep(t)
    BY <2>11 DEF Sleep
  <2>12. CASE FailSync(t)
    BY <2>12 DEF FailSync
  <2>13. CASE FailSend(t)
    BY <2>13 DEF FailSend, Fault
  <2>14. CASE FailStore(t)
    BY <2>14 DEF FailStore, Fault
  <2>15. CASE Signal(t)
    BY <2>15 DEF Signal, RunInv
  <2> QED BY <1>3, <2>1, <2>2, <2>3, <2>4, <2>5, <2>6, <2>7, <2>8, <2>9, <2>10, <2>11, <2>12,
     <2>13, <2>14, <2>15 DEF RunStep
<1>4. CASE PlaybookStep(t)
  <2>1. CASE PlaybookRaises(t)
    BY <2>1 DEF PlaybookRaises, AttemptFails
  <2>2. CASE NoHostsMatched(t)
    BY <2>2 DEF NoHostsMatched
  <2>3. CASE PlaybookEnds(t)
    BY <2>3 DEF PlaybookEnds
  <2>4. ASSUME NEW h \in Hosts, HostResult(t, h) PROVE FinishOf(t)' /\ EndsWell(t)
    BY <2>4 DEF HostResult
  <2>5. ASSUME NEW h \in Hosts, HostSkipped(t, h) PROVE FinishOf(t)' /\ EndsWell(t)
    BY <2>5 DEF HostSkipped
  <2> QED BY <1>4, <2>1, <2>2, <2>3, <2>4, <2>5 DEF PlaybookStep
<1>5. CASE KillStep(t)
  <2>1. CASE KilledInTry(t)
    BY <2>1 DEF KilledInTry, Killed, KillCaused
  <2>2. CASE KilledOutsideTry(t)
    BY <2>2 DEF KilledOutsideTry, Killed, KillCaused
  <2>3. CASE KillSwallowedByCheck(t)
    BY <2>3 DEF KillSwallowedByCheck, Killed, KillCaused
  <2>4. CASE KillSwallowedBySend(t)
    BY <2>4 DEF KillSwallowedBySend, Killed, KillCaused
  <2>5. ASSUME NEW h \in Hosts, KillSwallowedByCallback(t, h) PROVE FinishOf(t)' /\ EndsWell(t)
    BY <2>5 DEF KillSwallowedByCallback, Killed, KillCaused
  <2> QED BY <1>5, <2>1, <2>2, <2>3, <2>4, <2>5 DEF KillStep
<1> QED BY <1>1, <1>2, <1>3, <1>4, <1>5 DEF Step, ThreadStep

(* Every step keeps MarkedInv. *)
LEMMA MarkedStep ==
  ASSUME TypeOK, RunInv, KillCaused, RunInv', MarkedInv,
         NEW s \in Threads, Step(s), FinishOf(s)
  PROVE  MarkedInv'
<1>1. CallerStepOK /\ StatusStep
  BY DeltaStep DEF StatusStep
<1>2. EndsWell(s) /\ faults[s] \subseteq faults'[s]
  BY FinishStep, FaultsGrow
<1> SUFFICES ASSUME NEW q \in Queues, status'[q] = TASK_RUNNING
             PROVE  \E t \in Threads : /\ QueueOf[t] = q /\ Marks(t) /\ caller'[t] # "idle"
                                       /\ Over(t)' => faults'[t] # {}
  BY DEF MarkedInv, Marks, Stored, Async
<1>3. CASE status'[q] = status[q]
  <2>1. PICK t \in Threads : /\ QueueOf[t] = q /\ Marks(t) /\ caller[t] # "idle"
                             /\ Over(t) => faults[t] # {}
    BY <1>3 DEF MarkedInv
  <2>2. caller'[t] # "idle"
    BY <1>1, <2>1 DEF CallerStepOK
  <2>3. CASE t = s
    BY <1>2, <2>1, <2>2, <2>3 DEF EndsWell, TASK_RUNNING, TASK_COMPLETE
  <2>4. CASE t # s
    BY <2>1, <2>2, <2>4, Locality DEF Same, Over
  <2> QED
    BY <2>3, <2>4
<1>4. ASSUME NEW t \in Threads, QueueOf[t] = q, Marks(t), caller[t] = "idle", caller'[t] = "start"
      PROVE  caller'[t] # "idle" /\ ~Over(t)'
  BY <1>4 DEF RunInv, Over
<1> QED
  BY <1>1, <1>3, <1>4, RowStep DEF TASK_RUNNING, TASK_COMPLETE

----------------------------------------------------------------------------
(* The invariant: the parts of a thread, and what the others leave it. *)
ThreadInv(t) ==
  /\ MessagesOf(t)
  /\ DataOf(t) /\ AnswerOf(t)
  /\ UseDB => TriesOf(t) /\ ExceededOf(t)
  /\ Stored(t) => RowsOf(t)
  /\ CollectedOf(t) /\ ReportedOf(t)
  /\ FinishOf(t)

JobInv == Inv /\ MarkedInv /\ \A t \in Threads : ThreadInv(t)

LEMMA OwnStep ==
  ASSUME Inv, NEW t \in Threads, ThreadInv(t), Step(t)
  PROVE  ThreadInv(t)'
<1>1. TypeOK /\ RunInv /\ KillCaused
  BY DEF Inv, CauseInv, KillCaused
<1>2. MessagesOf(t)' /\ DataOf(t)' /\ AnswerOf(t)' /\ FinishOf(t)'
  BY <1>1, MessagesStep, DataStep, AnswerStep, FinishStep DEF ThreadInv
<1>3. UseDB => TriesOf(t)' /\ ExceededOf(t)'
  BY <1>1, TriesStep, ExceededStep DEF ThreadInv
<1>4. Stored(t) => RowsOf(t)'
  BY <1>1, RowsStep DEF ThreadInv
<1>5. CollectedOf(t)' /\ ReportedOf(t)'
  BY <1>1, CollectedStep, ReportedStep DEF ThreadInv
<1> QED
  BY <1>2, <1>3, <1>4, <1>5 DEF ThreadInv, Stored, Async

LEMMA OthersStep ==
  ASSUME Inv, NEW t \in Threads, Step(t), NEW u \in Threads, u # t, ThreadInv(u)
  PROVE  ThreadInv(u)'
<1>1. Same(u)
  BY Locality DEF Inv
<1>2. MessagesOf(u)' /\ DataOf(u)' /\ AnswerOf(u)'
  BY <1>1 DEF ThreadInv, Same, MessagesOf, DataOf, AnswerOf, Targets
<1>3. UseDB => TriesOf(u)' /\ ExceededOf(u)'
  BY <1>1 DEF ThreadInv, Same, TriesOf, ExceededOf, Tried
<1>4. Stored(u) => RowsOf(u)'
  <2>1. OwnResults(u)' \subseteq OwnResults(u)
    BY RowsOfOthers
  <2> QED
    BY <1>1, <2>1 DEF ThreadInv, Same, RowsOf, Targets
<1>5. CollectedOf(u)' /\ ReportedOf(u)'
  BY <1>1 DEF ThreadInv, Same, CollectedOf, ReportedOf, Missed, Stored, Async
<1>6. FinishOf(u)'
  BY <1>1 DEF ThreadInv, Same, FinishOf
<1> QED
  BY <1>2, <1>3, <1>4, <1>5, <1>6 DEF ThreadInv, Stored, Async

LEMMA JobInit ==
  ASSUME Init
  PROVE  JobInv
<1>1. MarkedInv
  BY DEF Init, MarkedInv, TASK_NEW, TASK_RUNNING
<1>2. ASSUME NEW t \in Threads PROVE ThreadInv(t)
  <2>1. MessagesOf(t) /\ DataOf(t) /\ AnswerOf(t) /\ FinishOf(t)
    BY <1>2 DEF Init, MessagesOf, DataOf, AnswerOf, FinishOf
  <2>2. TriesOf(t) /\ ExceededOf(t)
    BY <1>2 DEF Init, TriesOf, ExceededOf
  <2>3. RowsOf(t) /\ CollectedOf(t) /\ ReportedOf(t)
    BY <1>2 DEF Init, RowsOf, OwnResults, CollectedOf, ReportedOf
  <2> QED
    BY <2>1, <2>2, <2>3 DEF ThreadInv
<1> QED
  BY <1>1, <1>2, InitInv DEF JobInv

LEMMA JobNext ==
  ASSUME JobInv, Next
  PROVE  JobInv'
<1>1. Inv'
  BY NextInv DEF JobInv
<1>3. PICK t \in Threads : Step(t)
  BY DEF Next, Step
<1>2. MarkedInv'
  <2>1. TypeOK /\ RunInv /\ KillCaused /\ RunInv' /\ FinishOf(t)
    BY <1>1 DEF JobInv, Inv, CauseInv, KillCaused, ThreadInv
  <2> QED
    BY <1>3, <2>1, MarkedStep DEF JobInv
<1>4. \A u \in Threads : ThreadInv(u)'
  BY <1>3, OwnStep, OthersStep DEF JobInv
<1> QED
  BY <1>1, <1>2, <1>4 DEF JobInv

LEMMA JobStutter ==
  ASSUME JobInv, UNCHANGED vars
  PROVE  JobInv'
<1> USE DEF vars, callerVars, runVars, playVars, answerVars, tableVars, faultVars
<1>1. Inv'
  BY StutterInv DEF JobInv
<1>2. MarkedInv'
  BY DEF JobInv, MarkedInv, Over, Marks, Stored, Async
<1>3. ASSUME NEW t \in Threads PROVE ThreadInv(t)'
  <2>0. ThreadInv(t)
    BY <1>3 DEF JobInv
  <2>1. MessagesOf(t)' /\ DataOf(t)' /\ AnswerOf(t)' /\ FinishOf(t)'
    BY <2>0 DEF ThreadInv, MessagesOf, DataOf, AnswerOf, FinishOf, Targets, Marks, Stored, Async
  <2>2. UseDB => TriesOf(t)' /\ ExceededOf(t)'
    BY <2>0 DEF ThreadInv, TriesOf, ExceededOf, Tried
  <2>3. Stored(t) => RowsOf(t)'
    BY <2>0 DEF ThreadInv, RowsOf, OwnResults, Targets, Missed, Stored, Async
  <2>4. CollectedOf(t)' /\ ReportedOf(t)'
    BY <2>0 DEF ThreadInv, CollectedOf, ReportedOf, Missed, Stored, Async
  <2> QED
    BY <2>1, <2>2, <2>3, <2>4 DEF ThreadInv, Stored, Async
<1> QED
  BY <1>1, <1>2, <1>3 DEF JobInv

(* JobInv is an invariant of every run of the worker. *)
THEOREM JobInvariance == Spec => []JobInv
<1>1. Init => JobInv
  BY JobInit
<1>2. JobInv /\ [Next]_vars => JobInv'
  BY JobNext, JobStutter
<1> QED
  BY <1>1, <1>2, PTL DEF Spec

(* A thread publishes one message; a second one follows a termination only, and is *)
(* a failure after the final result.                                               *)
THEOREM OneReport == Spec => []SecondReportNeedsKill
<1>1. JobInv => SecondReportNeedsKill
  BY DEF JobInv, ThreadInv, MessagesOf, SecondReportNeedsKill
<1> QED
  BY <1>1, JobInvariance, PTL

(* A row stays RUNNING only while its job runs, or because of a constructor that *)
(* raised, a fault or a termination.                                             *)
THEOREM RunningExplained == Spec => []RunningHasACause
<1>1. JobInv => RunningHasACause
  <2> SUFFICES ASSUME JobInv, NEW q \in Queues, status[q] = TASK_RUNNING
               PROVE  \E t \in Threads :
                        QueueOf[t] = q /\ (Active(t) \/ caller[t] = "raised" \/ faults[t] # {})
    BY DEF RunningHasACause
  <2>1. PICK t \in Threads : /\ QueueOf[t] = q /\ Marks(t) /\ caller[t] # "idle"
                             /\ Over(t) => faults[t] # {}
    BY DEF JobInv, MarkedInv
  <2>2. FinishOf(t) /\ caller[t] \in CallerStates /\ caller[t] # "listed"
    BY <2>1 DEF JobInv, Inv, TypeOK, ControlTypeOK, StartInv, ThreadInv, Marks
  <2>3. pc[t] \in Done => faults[t] # {}
    BY <2>1 DEF Over, Done
  <2> QED
    BY <2>1, <2>2, <2>3 DEF Active, FinishOf, CallerStates
<1> QED
  BY <1>1, JobInvariance, PTL

(* An answered synchronous caller has a complete answer, of one attempt. *)
THEOREM AnswersComplete == Spec => []AnswerComplete
<1>1. JobInv => AnswerComplete
  BY ThreadsAssumption DEF JobInv, ThreadInv, AnswerOf, AnswerComplete
<1> QED
  BY <1>1, JobInvariance, PTL

(* With the tables, a job given up was launched MAX_TRY_TIMES times, or they failed. *)
(* (Without them cleanup_results raises at every retry, which never launches.)       *)
THEOREM TriesExhausted ==
  ASSUME UseDB
  PROVE  Spec => []GivesUpAfterMaxTries
<1>1. JobInv => GivesUpAfterMaxTries
  BY UseDB DEF JobInv, ThreadInv, ExceededOf, Tried, GivesUpAfterMaxTries
<1> QED
  BY <1>1, JobInvariance, PTL

(* The final report of any job has no result of an attempt of its thread that raised, *)
(* but those of its first host which cleanup_results misses.                          *)
THEOREM LastAttempt == Spec => []LastAttemptReported
<1>1. JobInv => LastAttemptReported
  BY DEF JobInv, ThreadInv, ReportedOf, LastAttemptReported
<1> QED
  BY <1>1, JobInvariance, PTL

(* A step of an answered thread that was not terminated leaves its dictionary alone. *)
LEMMA AnsweredStays ==
  ASSUME KillCaused, NEW t \in Threads, pc[t] \in {"unwind", "ended"},
         "kill" \notin faults[t], Step(t)
  PROVE  answer'[t] = answer[t] /\ data'[t] = data[t]
<1> USE DEF KillCaused, callerVars, runVars, playVars, answerVars, tableVars, faultVars
<1>1. CASE CallerStep(t)
  BY <1>1 DEF CallerStep, ListUncompleted, MarkRunning, StartThread, ConstructorRaises,
     AppendToPool, CallerAnswered, CallerTimesOut
<1>2. CASE MonitorStep(t)
  BY <1>2 DEF MonitorStep, PopDeadThread, TerminateThread
<1>3. CASE RunStep(t)
  BY <1>3 DEF RunStep, CheckTargets, FirstTry, CleanupResults, TaskExec, StatsSync,
     StatsCollect, StatsStore, StatsSend, StatsFinish, Unwind, Sleep, FailSync,
     FailSend, FailStore, Signal
<1>4. CASE PlaybookStep(t)
  BY <1>4 DEF PlaybookStep, PlaybookRaises, NoHostsMatched, PlaybookEnds, HostResult,
     HostSkipped
<1>5. CASE KillStep(t)
  BY <1>5 DEF KillStep, KilledInTry, KilledOutsideTry, KillSwallowedByCheck,
     KillSwallowedBySend, KillSwallowedByCallback, Killed
<1> QED BY <1>1, <1>2, <1>3, <1>4, <1>5 DEF Step, ThreadStep

(* The dictionary a synchronous caller got is not written any more. *)
THEOREM AnswersFrozen == Spec => AnswerFrozen
<1> DEFINE A == \A t \in SyncThreads : caller[t] = "answered" /\ "kill" \notin faults[t] =>
                  answer'[t] = answer[t] /\ data'[t] = data[t]
<1>1. JobInv /\ [Next]_vars => [A]_vars
  <2> SUFFICES ASSUME JobInv, Next, NEW t \in SyncThreads,
                      caller[t] = "answered", "kill" \notin faults[t]
               PROVE  answer'[t] = answer[t] /\ data'[t] = data[t]
    OBVIOUS
  <2>1. PICK u \in Threads : Step(u)
    BY DEF Next, Step
  <2>2. t \in Threads
    BY ThreadsAssumption
  <2>3. CASE u = t
    <3>1. pc[t] \in {"unwind", "ended"} /\ KillCaused
      BY <2>2 DEF JobInv, ThreadInv, AnswerOf, Inv, CauseInv, KillCaused
    <3> QED
      BY <2>1, <2>2, <2>3, <3>1, AnsweredStays
  <2>4. CASE u # t
    BY <2>1, <2>2, <2>4, Locality DEF JobInv, Inv, Same
  <2> QED
    BY <2>3, <2>4
<1> QED
  BY <1>1, JobInvariance, PTL DEF Spec, AnswerFrozen
=============================================================================
