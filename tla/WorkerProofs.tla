---------------------------- MODULE WorkerProofs ----------------------------
(***************************************************************************)
(* Proofs about Worker, for any requests, bodies, lists, recoveries and    *)
(* bounds.  On the inductive invariant BaseInv, what the place of a        *)
(* request and the phase of a recovery say of the rows, rests one          *)
(* invariant for each property: OneAdmitted is its own, CompleteInv says   *)
(* of a COMPLETE row that its reason stays, SettledInv follows the rows a  *)
(* recovery listed, and ThreadInv the threads it started.                  *)
(***************************************************************************)
EXTENDS Worker, FiniteSetTheorems, WellFoundedInduction, TLAPS

Stored(r) == \E i \in DOMAIN requests : requests[i] = r
Tasked(r) == \E i \in DOMAIN tasks : tasks[i] = r

TypeOK ==
  /\ requests \in Seq(Requests) /\ tasks \in Seq(Requests)
  /\ status \in [Requests -> {NoRow, TASK_NEW, TASK_RUNNING, TASK_COMPLETE}]
  /\ at \in [Requests -> {"client", "stored", "check", "send", "wait", "after", "answered"}]
  /\ answer \in [Requests -> {"none", "accepted", "failed", "refused", "error"}]
  /\ broker \subseteq Requests
  /\ run \in [Requests -> [Callers -> {"none", "start", "start again", "running"} \cup Ended]]
  /\ rec \in [Recoveries -> [pc : {"idle", "new", "join new", "old", "join old", "done", "aborted"},
                             rows : SUBSET Nat, request : Requests \cup {NoRequest},
                             listed : SUBSET Requests, late : SUBSET Requests]]

(* A request that is past its insertion has its rows, and so has one that    *)
(* celery holds or a caller executes.                                        *)
HandlerOf(r) ==
  /\ at[r] = "client" => ~Stored(r)
  /\ at[r] = "stored" => Stored(r)
  /\ at[r] \in {"client", "stored"} => ~Tasked(r)
  /\ Tasked(r) => Stored(r)
  /\ status[r] # NoRow <=> Tasked(r)
  /\ at[r] \in {"check", "send", "wait", "after"} => Tasked(r)
  /\ answer[r] \in {"accepted", "failed"} => Tasked(r)
  /\ at[r] = "after" => answer[r] = "failed"
  /\ r \in broker => Tasked(r)
  /\ \A c \in Callers : run[r][c] # "none" => Tasked(r)

(* The rows a recovery is still to go through are rows of the table, of NEW  *)
(* requests those it listed, and the one it waits for is not synchronous.    *)
RowsOK(k) ==
  /\ rec[k].rows \subseteq DOMAIN tasks
  /\ rec[k].pc \in {"join new", "join old"} => rec[k].rows # {}
  /\ \A r \in rec[k].listed : Tasked(r)
  /\ rec[k].pc \in {"new", "join new"} => \A i \in rec[k].rows : tasks[i] \in rec[k].listed
  /\ rec[k].request # NoRequest => rec[k].request \in rec[k].listed
  /\ rec[k].pc = "idle" => rec[k].request = NoRequest /\ rec[k].listed = {}
  /\ rec[k].pc = "join new" => ResponseOf(HeadRow(k)) = "none"

BaseInv ==
  /\ TypeOK
  /\ \A r \in Requests : HandlerOf(r)
  /\ \A k \in Recoveries : RowsOK(k)

(* Why the row of a queue may be COMPLETE; the answer has been given. *)
Explains(s) ==
  \/ s \in published
  \/ answer[s] = "failed" /\ at[s] = "answered"
  \/ ResponseOf(s) # "none" /\ \E k \in Recoveries : s \in rec[k].listed

CompleteInv ==
  \A r \in Requests : status[r] = TASK_COMPLETE =>
    \E s \in Requests : QueueOf(s) = QueueOf(r) /\ Explains(s)

(* What RecoveryStartsNew says of a request the recovery has been through. *)
Settled(r) ==
  status[r] = TASK_NEW => r \in faults \/ RequestRow(QueueOf(r)) # r \/ StatusRow(QueueOf(r)) # r

(* Every listed request is settled or has its turn to come; the one whose    *)
(* turn it is has been settled once its thread runs.                         *)
SettledInv(k) ==
  /\ rec[k].pc \in {"new", "join new"} =>
       \A r \in rec[k].listed : Settled(r) \/ \E i \in rec[k].rows : tasks[i] = r
  /\ rec[k].pc = "join new" =>
       \/ run[HeadRow(k)][<<k, "new">>] \in {"start", "raised"}
       \/ run[HeadRow(k)][<<k, "new">>] \in {"running", "done", "silent"} /\ Settled(HeadRow(k))
  /\ rec[k].pc \in {"old", "join old", "done"} => \A r \in rec[k].listed : Settled(r)

(* A thread of the first loop that lives is the one that is waited for, or   *)
(* was given up; the second loop starts none while the first goes on.        *)
ThreadInv(k) ==
  \A r \in Requests :
    /\ run[r][<<k, "new">>] \in Live =>
         r \in rec[k].late \/ (rec[k].pc = "join new" /\ HeadRow(k) = r)
    /\ run[r][<<k, "again">>] # "none" => rec[k].pc \notin {"idle", "new", "join new"}

----------------------------------------------------------------------------
(* The rows of the tables. *)

LEMMA LeastFacts ==
  ASSUME NEW S \in SUBSET Nat, S # {}
  PROVE  Least(S) \in S /\ \A j \in S : Least(S) <= j
<1> DEFINE R == OpToRel(<, Nat)
<1>1. \A n, m \in Nat : m < n => <<m, n>> \in R
  BY DEF OpToRel
<1>2. IsWellFoundedOn(R, Nat)
  BY NatLessThanWellFounded
<1> HIDE DEF R
<1>3. PICK n \in S : \A m \in S : ~(<<m, n>> \in R)
  BY <1>2, WFMin
<1>4. ASSUME NEW m \in S PROVE n <= m
  <2>1. m \in Nat /\ n \in Nat
    OBVIOUS
  <2>2. ~(m < n)
    BY <1>1, <1>3, <2>1, Zenon
  <2> QED
    BY <2>1, <2>2
<1>5. \E i \in S : \A j \in S : i <= j
  BY <1>4
<1> QED
  BY <1>5, Zenon DEF Least

(* What the first row of a queue is, and that it stays so as rows are added. *)
LEMMA FirstFacts ==
  ASSUME NEW rows \in Seq(Requests), NEW q, OfQueue(rows, q) # {}
  PROVE  /\ First(rows, OfQueue(rows, q)) \in Requests
         /\ QueueOf(First(rows, OfQueue(rows, q))) = q
         /\ \E i \in DOMAIN rows : First(rows, OfQueue(rows, q)) = rows[i]
<1> DEFINE S == OfQueue(rows, q)
<1>1. S \subseteq DOMAIN rows /\ \A i \in S : QueueOf(rows[i]) = q
  BY DEF OfQueue
<1>2. S \in SUBSET Nat
  BY <1>1
<1> HIDE DEF S
<1>3. S # {}
  BY DEF S
<1>4. Least(S) \in S
  BY <1>2, <1>3, LeastFacts
<1>5. First(rows, S) = rows[Least(S)]
  BY <1>3 DEF First
<1>6. Least(S) \in DOMAIN rows /\ QueueOf(rows[Least(S)]) = q
  BY <1>1, <1>4
<1>7. rows[Least(S)] \in Requests
  BY <1>6
<1> QED
  BY <1>5, <1>6, <1>7 DEF S

LEMMA FirstStays ==
  ASSUME NEW rows \in Seq(Requests), NEW more \in Seq(Requests), NEW q,
         DOMAIN rows \subseteq DOMAIN more,
         \A i \in DOMAIN rows : more[i] = rows[i],
         \A i \in DOMAIN more \ DOMAIN rows : \A j \in DOMAIN rows : j < i,
         OfQueue(rows, q) # {}
  PROVE  First(more, OfQueue(more, q)) = First(rows, OfQueue(rows, q))
<1> DEFINE S == OfQueue(rows, q)
           T == OfQueue(more, q)
           a == Least(S)
           b == Least(T)
<1>1. /\ S \subseteq DOMAIN rows /\ T \subseteq DOMAIN more
      /\ \A i \in DOMAIN rows : i \in S <=> i \in T
  BY DEF OfQueue
<1>2. S \in SUBSET Nat /\ T \in SUBSET Nat
  BY <1>1
<1> HIDE DEF S, T
<1>3. S # {} /\ T # {}
  BY <1>1 DEF S
<1>4. a \in S /\ (\A j \in S : a <= j) /\ b \in T /\ \A j \in T : b <= j
  BY <1>2, <1>3, LeastFacts
<1>5. First(rows, S) = rows[a] /\ First(more, T) = more[b]
  BY <1>3 DEF First
<1> HIDE DEF a, b
<1>6. a \in T /\ a \in DOMAIN rows
  BY <1>1, <1>4
<1>7. b <= a /\ a \in Nat /\ b \in Nat
  BY <1>2, <1>4, <1>6
<1>8. b \in DOMAIN rows
  <2>1. ~(a < b)
    BY <1>7
  <2> QED
    BY <1>1, <1>4, <1>6, <2>1
<1>9. a <= b
  BY <1>1, <1>4, <1>8
<1>10. a = b
  BY <1>7, <1>9
<1> QED
  BY <1>5, <1>6, <1>10 DEF S, T

(* Two requests of a queue are two rows of it. *)
LEMMA TwoRows ==
  ASSUME NEW rows \in Seq(Requests), NEW i \in DOMAIN rows, NEW j \in DOMAIN rows, i # j,
         QueueOf(rows[i]) = QueueOf(rows[j])
  PROVE  Cardinality(OfQueue(rows, QueueOf(rows[j]))) > 1
<1> DEFINE S == OfQueue(rows, QueueOf(rows[j]))
<1>1. S \subseteq 1..Len(rows) /\ Len(rows) \in Nat /\ i \in S /\ j \in S
  BY DEF OfQueue
<1> HIDE DEF S
<1>2. IsFiniteSet(1..Len(rows))
  BY <1>1, FS_Interval
<1>3. IsFiniteSet(S)
  BY <1>1, <1>2, FS_Subset
<1>4. IsFiniteSet({i, j}) /\ Cardinality({i, j}) = 2
  <2> DEFINE A == {i}
  <2>1. IsFiniteSet(A) /\ Cardinality(A) = 1
    BY FS_Singleton
  <2>2. j \notin A /\ A \cup {j} = {i, j}
    OBVIOUS
  <2> HIDE DEF A
  <2>3. IsFiniteSet(A \cup {j}) /\ Cardinality(A \cup {j}) = Cardinality(A) + 1
    BY <2>1, <2>2, FS_AddElement
  <2>4. Cardinality(A \cup {j}) = 2
    BY <2>1, <2>3
  <2> QED
    BY <2>2, <2>3, <2>4, Zenon
<1>5. Cardinality({i, j}) <= Cardinality(S)
  BY <1>1, <1>3, FS_Subset
<1>6. Cardinality(S) \in Nat
  BY <1>3, FS_CardinalityType
<1> QED
  BY <1>4, <1>5, <1>6 DEF S

LEMMA AppendFacts ==
  ASSUME NEW rows \in Seq(Requests), NEW x \in Requests
  PROVE  /\ Append(rows, x) \in Seq(Requests)
         /\ DOMAIN rows \subseteq DOMAIN Append(rows, x)
         /\ \A i \in DOMAIN rows : Append(rows, x)[i] = rows[i]
         /\ \A i \in DOMAIN Append(rows, x) \ DOMAIN rows : \A j \in DOMAIN rows : j < i
         /\ \A r : (\E i \in DOMAIN Append(rows, x) : Append(rows, x)[i] = r)
                    <=> r = x \/ \E i \in DOMAIN rows : rows[i] = r
<1> DEFINE n == Len(rows)
           more == Append(rows, x)
<1>1. /\ n \in Nat /\ DOMAIN rows = 1..n /\ more \in Seq(Requests) /\ Len(more) = n + 1
      /\ \A i \in 1..n : more[i] = rows[i]
      /\ more[n + 1] = x
  OBVIOUS
<1>2. DOMAIN more = 1..(n + 1)
  BY <1>1
<1> HIDE DEF n, more
<1>3. n + 1 \in DOMAIN more /\ DOMAIN rows \subseteq DOMAIN more
  BY <1>1, <1>2
<1>4. \A i \in DOMAIN more : i = n + 1 \/ i \in DOMAIN rows
  BY <1>1, <1>2
<1>5. \A j \in DOMAIN rows : j < n + 1
  BY <1>1
<1>6. \A i \in DOMAIN more \ DOMAIN rows : \A j \in DOMAIN rows : j < i
  BY <1>4, <1>5
<1>7. \A r : (\E i \in DOMAIN more : more[i] = r) <=> r = x \/ \E i \in DOMAIN rows : rows[i] = r
  <2>1. \A i \in DOMAIN more : more[i] = x \/ (i \in DOMAIN rows /\ more[i] = rows[i])
    BY <1>1, <1>4
  <2>2. \A i \in DOMAIN rows : i \in DOMAIN more /\ more[i] = rows[i]
    BY <1>1, <1>3
  <2> QED
    BY <1>1, <1>3, <2>1, <2>2, Zenon
<1>8. \A i \in DOMAIN rows : more[i] = rows[i]
  BY <1>1
<1> QED
  BY <1>1, <1>3, <1>6, <1>7, <1>8 DEF more

(* Only InsertRequest and InsertStatus add a row, and none is removed. *)
LEMMA TablesStep ==
  ASSUME TypeOK, [Next]_vars
  PROVE  /\ requests' = requests \/ \E r \in Requests : InsertRequest(r) /\ requests' = Append(requests, r)
         /\ tasks' = tasks \/ \E r \in Requests : InsertStatus(r) /\ tasks' = Append(tasks, r)
<1> DEFINE Goal == /\ requests' = requests \/ \E r \in Requests : InsertRequest(r) /\ requests' = Append(requests, r)
                   /\ tasks' = tasks \/ \E r \in Requests : InsertStatus(r) /\ tasks' = Append(tasks, r)
<1>1. ASSUME NEW r \in Requests, InsertRequest(r) PROVE Goal
  <2>1. tasks' = tasks /\ (requests' = requests \/ requests' = Append(requests, r))
    BY <1>1 DEF InsertRequest
  <2> QED
    BY <1>1, <2>1
<1>2. ASSUME NEW r \in Requests, InsertStatus(r) PROVE Goal
  <2>1. requests' = requests /\ (tasks' = tasks \/ tasks' = Append(tasks, r))
    BY <1>2 DEF InsertStatus
  <2> QED
    BY <1>2, <2>1
<1>3. CASE requests' = requests /\ tasks' = tasks
  BY <1>3
<1>4. ASSUME NEW r \in Requests, CheckRequest(r) \/ CheckRequestRaises(r) \/ Send(r) \/ Scan(r) \/ GetAnswer(r)
                              \/ AfterRequest(r) \/ Fetch(r)
      PROVE Goal
  <2>1. requests' = requests /\ tasks' = tasks
    BY <1>4 DEF CheckRequest, CheckRequestRaises, Send, Scan, GetAnswer, AfterRequest, Fetch
  <2> QED
    BY <1>3, <2>1
<1>5. ASSUME NEW r \in Requests, NEW c \in Callers, JobExecute(r, c) \/ Report(r, c) \/ EndInSilence(r, c)
      PROVE Goal
  <2>1. requests' = requests /\ tasks' = tasks
    BY <1>5 DEF JobExecute, Report, EndInSilence
  <2> QED
    BY <1>3, <2>1
<1>6. ASSUME NEW k \in Recoveries, ListNew(k) \/ RecoverNew(k) \/ ListUncompleted(k) \/ RecoverUncompleted(k)
                                \/ JoinNew(k) \/ JoinUncompleted(k) \/ RecoveryDone(k) \/ AbortOnFault(k)
      PROVE Goal
  <2>1. requests' = requests /\ tasks' = tasks
    BY <1>6 DEF ListNew, RecoverNew, ListUncompleted, RecoverUncompleted, JoinNew,
       JoinUncompleted, Join,
             RecoveryDone, AbortOnFault
  <2> QED
    BY <1>3, <2>1
<1>7. ASSUME CeleryDies \/ WebDies \/ UNCHANGED vars PROVE Goal
  <2>1. requests' = requests /\ tasks' = tasks
    BY <1>7 DEF CeleryDies, WebDies, Crash, vars
  <2> QED
    BY <1>3, <2>1
<1> HIDE DEF Goal
<1>8. Goal
  BY <1>1, <1>2, <1>4, <1>5, <1>6, <1>7 DEF Next, HandlerStep, ThreadStep, RecoveryStep
<1> QED
  BY <1>8 DEF Goal

LEMMA RowsGrow ==
  ASSUME TypeOK, [Next]_vars
  PROVE  /\ requests' \in Seq(Requests) /\ tasks' \in Seq(Requests)
         /\ DOMAIN requests \subseteq DOMAIN requests' /\ DOMAIN tasks \subseteq DOMAIN tasks'
         /\ \A i \in DOMAIN requests : requests'[i] = requests[i]
         /\ \A i \in DOMAIN tasks : tasks'[i] = tasks[i]
         /\ \A i \in DOMAIN requests' \ DOMAIN requests : \A j \in DOMAIN requests : j < i
         /\ \A i \in DOMAIN tasks' \ DOMAIN tasks : \A j \in DOMAIN tasks : j < i
         /\ \A r : Stored(r) => Stored(r)'
         /\ \A r : Tasked(r) => Tasked(r)'
<1>1. requests \in Seq(Requests) /\ tasks \in Seq(Requests)
  BY DEF TypeOK
<1>2. /\ requests' = requests \/ \E r \in Requests : requests' = Append(requests, r)
      /\ tasks' = tasks \/ \E r \in Requests : tasks' = Append(tasks, r)
  BY TablesStep
<1>3. /\ requests' \in Seq(Requests) /\ DOMAIN requests \subseteq DOMAIN requests'
      /\ \A i \in DOMAIN requests : requests'[i] = requests[i]
      /\ \A i \in DOMAIN requests' \ DOMAIN requests : \A j \in DOMAIN requests : j < i
  <2>1. CASE requests' = requests
    BY <1>1, <2>1
  <2>2. ASSUME NEW r \in Requests, requests' = Append(requests, r) PROVE <1>3!:
    BY <1>1, <2>2, AppendFacts
  <2> QED
    BY <1>2, <2>1, <2>2
<1>4. /\ tasks' \in Seq(Requests) /\ DOMAIN tasks \subseteq DOMAIN tasks'
      /\ \A i \in DOMAIN tasks : tasks'[i] = tasks[i]
      /\ \A i \in DOMAIN tasks' \ DOMAIN tasks : \A j \in DOMAIN tasks : j < i
  <2>1. CASE tasks' = tasks
    BY <1>1, <2>1
  <2>2. ASSUME NEW r \in Requests, tasks' = Append(tasks, r) PROVE <1>4!:
    BY <1>1, <2>2, AppendFacts
  <2> QED
    BY <1>2, <2>1, <2>2
<1>5. (\A r : Stored(r) => Stored(r)') /\ \A r : Tasked(r) => Tasked(r)'
  BY <1>3, <1>4 DEF Stored, Tasked
<1> QED
  BY <1>3, <1>4, <1>5

(* The row whose turn it is, and the others. *)
LEMMA HeadFacts ==
  ASSUME TypeOK, NEW k \in Recoveries, RowsOK(k), rec[k].rows # {}
  PROVE  /\ Least(rec[k].rows) \in rec[k].rows /\ HeadRow(k) \in Requests /\ Tasked(HeadRow(k))
         /\ HeadRow(k) = tasks[Least(rec[k].rows)]
         /\ OtherRows(k) \subseteq rec[k].rows
         /\ \A i \in rec[k].rows : i = Least(rec[k].rows) \/ i \in OtherRows(k)
<1> DEFINE S == rec[k].rows
<1>1. S \in SUBSET Nat /\ S \subseteq DOMAIN tasks /\ S # {}
  BY DEF TypeOK, RowsOK
<1> HIDE DEF S
<1>2. Least(S) \in S
  BY <1>1, LeastFacts
<1>3. \A i \in DOMAIN tasks : tasks[i] \in Requests
  <2>1. tasks \in Seq(Requests)
    BY DEF TypeOK
  <2> QED
    BY <2>1
<1>4. Least(rec[k].rows) \in rec[k].rows /\ Least(rec[k].rows) \in DOMAIN tasks
  BY <1>1, <1>2 DEF S
<1>5. OtherRows(k) \subseteq rec[k].rows /\ \A i \in rec[k].rows : i = Least(rec[k].rows) \/ i \in OtherRows(k)
  BY DEF OtherRows
<1> QED
  BY <1>3, <1>4, <1>5 DEF HeadRow, Tasked

(* The places, rows and states stay what they are. *)
LEMMA TypeStep ==
  ASSUME BaseInv, [Next]_vars
  PROVE  TypeOK'
<1>0. TypeOK /\ requests' \in Seq(Requests) /\ tasks' \in Seq(Requests)
  BY RowsGrow DEF BaseInv
<1> DEFINE Phases == {"idle", "new", "join new", "old", "join old", "done", "aborted"}
           Statuses == {NoRow, TASK_NEW, TASK_RUNNING, TASK_COMPLETE}
           Runs == {"none", "start", "start again", "running"} \cup Ended
           RunType == run' \in [Requests -> [Callers -> Runs]]
           StatusType == status' \in [Requests -> Statuses]
           RecType == rec' \in [Recoveries -> [pc : Phases, rows : SUBSET Nat, request : Requests \cup {NoRequest},
                                              listed : SUBSET Requests, late : SUBSET Requests]]
<1>t. /\ run \in [Requests -> [Callers -> Runs]] /\ status \in [Requests -> Statuses]
      /\ rec \in [Recoveries -> [pc : Phases, rows : SUBSET Nat, request : Requests \cup {NoRequest},
                                 listed : SUBSET Requests, late : SUBSET Requests]]
  BY <1>0 DEF TypeOK
<1>v. TASK_NEW \in Statuses /\ TASK_RUNNING \in Statuses /\ TASK_COMPLETE \in Statuses
  OBVIOUS
<1>w. /\ {"start", "start again", "running", "raised", "done", "silent", "lost"} \subseteq Runs
      /\ {"new", "join new", "old", "join old", "done", "aborted"} \subseteq Phases
  BY DEF Ended
<1> HIDE DEF Phases, Statuses, Runs
<1>s. \A r, s : s \in Statuses /\ status' = [status EXCEPT ![r] = s] => StatusType
  BY <1>t
<1>f. \A q, s : s \in Statuses /\ SetRow(RequestRow(q), s) => StatusType
  BY <1>t DEF SetRow
<1>r. \A r \in Requests, c \in Callers, how \in Runs : Call(r, c, how) => RunType
  BY <1>t DEF Call
<1>p. \A k \in Recoveries, place \in Phases : Proceed(k, place) => RecType
  BY <1>t DEF Proceed
<1>o. \A k \in Recoveries : OtherRows(k) \in SUBSET Nat
  BY <1>t DEF OtherRows
<1>d. \A k \in Recoveries, place \in Phases : RowDone(k, place) => RecType
  <2>1. SUFFICES ASSUME NEW k \in Recoveries, NEW place \in Phases, RowDone(k, place) PROVE RecType
    OBVIOUS
  <2> DEFINE rows == OtherRows(k)
  <2>2. rows \in SUBSET Nat
    BY <1>o
  <2>3. rec' = [rec EXCEPT ![k].pc = place, ![k].rows = rows]
    BY <2>1 DEF RowDone
  <2> HIDE DEF rows
  <2> QED
    BY <1>t, <2>2, <2>3 DEF RecType
<1>u. /\ requests' = requests \/ requests' \in Seq(Requests)
      /\ status' = status => StatusType
      /\ run' = run => RunType
      /\ rec' = rec => RecType
  BY <1>t, <1>0
<1>l. \A s : TasksWith(s) \in SUBSET Nat /\ {tasks[i] : i \in TasksWith(s)} \in SUBSET Requests
  <2>1. tasks \in Seq(Requests)
    BY <1>0 DEF TypeOK
  <2> QED
    BY <2>1 DEF TasksWith
<1>h. \A k \in Recoveries : rec[k].rows # {} => HeadRow(k) \in Requests
  BY <1>0, HeadFacts DEF BaseInv
<1>c. Celery \in Callers /\ Web \in Callers /\ \A k \in Recoveries : <<k, "new">> \in Callers /\ <<k, "again">> \in Callers
  BY DEF Callers
<1> HIDE DEF RunType, StatusType, RecType
<1>a. ASSUME at' \in [Requests -> {"client", "stored", "check", "send", "wait", "after", "answered"}],
             answer' \in [Requests -> {"none", "accepted", "failed", "refused", "error"}],
             broker' \subseteq Requests, StatusType, RunType, RecType
      PROVE  TypeOK'
  BY <1>0, <1>a DEF TypeOK, Phases, Statuses, Runs, RunType, StatusType, RecType
<1>b. /\ at \in [Requests -> {"client", "stored", "check", "send", "wait", "after", "answered"}]
      /\ answer \in [Requests -> {"none", "accepted", "failed", "refused", "error"}]
      /\ broker \subseteq Requests
  BY <1>0 DEF TypeOK
<1>n. \A k \in Recoveries, place \in {"join new", "join old"}, caller \in Callers, next \in Phases : Join(k, place, caller, next) => RecType
  <2>1. SUFFICES ASSUME NEW k \in Recoveries, NEW place \in {"join new", "join old"}, NEW caller \in Callers, NEW next \in Phases,
                        Join(k, place, caller, next)
                 PROVE  RecType
    BY Zenon
  <2>2. Abort(k) \/ RowDone(k, next) => RecType
    BY <1>d, <1>p, <1>w DEF Abort
  <2>3. rec[k].rows # {}
    BY <2>1 DEF BaseInv, RowsOK, Join
  <2>4. ASSUME rec' = [rec EXCEPT ![k].pc = next, ![k].rows = OtherRows(k), ![k].late = @ \cup {HeadRow(k)}] PROVE RecType
    <3> DEFINE rows == OtherRows(k)
               r == HeadRow(k)
    <3>1. rows \in SUBSET Nat /\ r \in Requests
      BY <1>h, <1>o, <2>3
    <3> HIDE DEF rows, r
    <3>2. rec' = [rec EXCEPT ![k].pc = next, ![k].rows = rows, ![k].late = @ \cup {r}]
      BY <2>4 DEF rows, r
    <3> DEFINE new == [rec[k] EXCEPT !.pc = next, !.rows = rows, !.late = @ \cup {r}]
    <3>3. rec[k] \in [pc : Phases, rows : SUBSET Nat, request : Requests \cup {NoRequest},
                      listed : SUBSET Requests, late : SUBSET Requests]
      BY <1>t
    <3>4. new \in [pc : Phases, rows : SUBSET Nat, request : Requests \cup {NoRequest},
                      listed : SUBSET Requests, late : SUBSET Requests]
      BY <3>1, <3>3
    <3>5. rec' = [rec EXCEPT ![k] = new]
      BY <3>2
    <3> HIDE DEF new
    <3> QED
      BY <1>t, <3>4, <3>5 DEF RecType
  <2> QED
    BY <2>1, <2>2, <2>4, Zenon DEF Join
<1>1. ASSUME NEW r \in Requests, InsertRequest(r) PROVE TypeOK'
  <2>1. /\ at' \in [Requests -> {"client", "stored", "check", "send", "wait", "after", "answered"}]
        /\ answer' \in [Requests -> {"none", "accepted", "failed", "refused", "error"}]
        /\ broker' \subseteq Requests
    BY <1>1, <1>b DEF InsertRequest, Goto, NoFault, Fault, Failure, Respond, NotSuccessful
  <2>2. StatusType
    BY <1>1, <1>u DEF InsertRequest
  <2>3. RunType
    BY <1>1, <1>u DEF InsertRequest
  <2>4. RecType
    BY <1>1, <1>u DEF InsertRequest
  <2> QED
    BY <1>a, <2>1, <2>2, <2>3, <2>4
<1>2. ASSUME NEW r \in Requests, InsertStatus(r) PROVE TypeOK'
  <2>1. /\ at' \in [Requests -> {"client", "stored", "check", "send", "wait", "after", "answered"}]
        /\ answer' \in [Requests -> {"none", "accepted", "failed", "refused", "error"}]
        /\ broker' \subseteq Requests
    BY <1>2, <1>b DEF InsertStatus, Goto, NoFault, Fault, Failure, Respond, NotSuccessful
  <2>2. StatusType
    BY <1>2, <1>s, <1>u, <1>v DEF InsertStatus
  <2>3. RunType
    BY <1>2, <1>u DEF InsertStatus
  <2>4. RecType
    BY <1>2, <1>u DEF InsertStatus
  <2> QED
    BY <1>a, <2>1, <2>2, <2>3, <2>4
<1>3. ASSUME NEW r \in Requests, CheckRequest(r) PROVE TypeOK'
  <2>1. /\ at' \in [Requests -> {"client", "stored", "check", "send", "wait", "after", "answered"}]
        /\ answer' \in [Requests -> {"none", "accepted", "failed", "refused", "error"}]
        /\ broker' \subseteq Requests
    BY <1>3, <1>b DEF CheckRequest, Goto, NoFault, Fault, Failure, Respond, NotSuccessful
  <2>2. StatusType
    BY <1>3, <1>u DEF CheckRequest
  <2>3. RunType
    BY <1>3, <1>u DEF CheckRequest
  <2>4. RecType
    BY <1>3, <1>u DEF CheckRequest
  <2> QED
    BY <1>a, <2>1, <2>2, <2>3, <2>4
<1>4. ASSUME NEW r \in Requests, CheckRequestRaises(r) PROVE TypeOK'
  <2>1. /\ at' \in [Requests -> {"client", "stored", "check", "send", "wait", "after", "answered"}]
        /\ answer' \in [Requests -> {"none", "accepted", "failed", "refused", "error"}]
        /\ broker' \subseteq Requests
    BY <1>4, <1>b DEF CheckRequestRaises, Goto, Fault, Failure, Respond, NotSuccessful
  <2>2. StatusType
    BY <1>4, <1>u DEF CheckRequestRaises
  <2>3. RunType
    BY <1>4, <1>u DEF CheckRequestRaises
  <2>4. RecType
    BY <1>4, <1>u DEF CheckRequestRaises
  <2> QED
    BY <1>a, <2>1, <2>2, <2>3, <2>4
<1>5. ASSUME NEW r \in Requests, Send(r) PROVE TypeOK'
  <2>1. /\ at' \in [Requests -> {"client", "stored", "check", "send", "wait", "after", "answered"}]
        /\ answer' \in [Requests -> {"none", "accepted", "failed", "refused", "error"}]
        /\ broker' \subseteq Requests
    BY <1>5, <1>b DEF Send, Goto, NoFault, Fault, Failure, Respond, NotSuccessful
  <2>2. StatusType
    BY <1>5, <1>u DEF Send
  <2>3. RunType
    BY <1>5, <1>u DEF Send
  <2>4. RecType
    BY <1>5, <1>u DEF Send
  <2> QED
    BY <1>a, <2>1, <2>2, <2>3, <2>4
<1>6. ASSUME NEW r \in Requests, Scan(r) PROVE TypeOK'
  <2>1. /\ at' \in [Requests -> {"client", "stored", "check", "send", "wait", "after", "answered"}]
        /\ answer' \in [Requests -> {"none", "accepted", "failed", "refused", "error"}]
        /\ broker' \subseteq Requests
    BY <1>6, <1>b DEF Scan, Goto, Call
  <2>2. StatusType
    BY <1>6, <1>u DEF Scan
  <2>3. RunType
    BY <1>6, <1>c, <1>r, <1>u, <1>w DEF Scan
  <2>4. RecType
    BY <1>6, <1>u DEF Scan
  <2> QED
    BY <1>a, <2>1, <2>2, <2>3, <2>4
<1>7. ASSUME NEW r \in Requests, GetAnswer(r) PROVE TypeOK'
  <2>1. /\ at' \in [Requests -> {"client", "stored", "check", "send", "wait", "after", "answered"}]
        /\ answer' \in [Requests -> {"none", "accepted", "failed", "refused", "error"}]
        /\ broker' \subseteq Requests
    BY <1>7, <1>b DEF GetAnswer, Goto, Respond, NotSuccessful
  <2>2. StatusType
    BY <1>7, <1>u DEF GetAnswer
  <2>3. RunType
    BY <1>7, <1>u DEF GetAnswer
  <2>4. RecType
    BY <1>7, <1>u DEF GetAnswer
  <2> QED
    BY <1>a, <2>1, <2>2, <2>3, <2>4
<1>8. ASSUME NEW r \in Requests, AfterRequest(r) PROVE TypeOK'
  <2>1. /\ at' \in [Requests -> {"client", "stored", "check", "send", "wait", "after", "answered"}]
        /\ answer' \in [Requests -> {"none", "accepted", "failed", "refused", "error"}]
        /\ broker' \subseteq Requests
    BY <1>8, <1>b DEF AfterRequest, Goto, NoFault, Fault, Failure
  <2>2. StatusType
    BY <1>8, <1>s, <1>u, <1>v DEF AfterRequest
  <2>3. RunType
    BY <1>8, <1>u DEF AfterRequest
  <2>4. RecType
    BY <1>8, <1>u DEF AfterRequest
  <2> QED
    BY <1>a, <2>1, <2>2, <2>3, <2>4
<1>9. ASSUME NEW r \in Requests, Fetch(r) PROVE TypeOK'
  <2>1. /\ at' \in [Requests -> {"client", "stored", "check", "send", "wait", "after", "answered"}]
        /\ answer' \in [Requests -> {"none", "accepted", "failed", "refused", "error"}]
        /\ broker' \subseteq Requests
    BY <1>9, <1>b DEF Fetch, Call
  <2>2. StatusType
    BY <1>9, <1>u DEF Fetch
  <2>3. RunType
    BY <1>9, <1>0, <1>c, <1>r, <1>u, <1>w DEF Fetch
  <2>4. RecType
    BY <1>9, <1>u DEF Fetch
  <2> QED
    BY <1>a, <2>1, <2>2, <2>3, <2>4
<1>10. ASSUME NEW r \in Requests, NEW c \in Callers, JobExecute(r, c) PROVE TypeOK'
  <2>1. /\ at' \in [Requests -> {"client", "stored", "check", "send", "wait", "after", "answered"}]
        /\ answer' \in [Requests -> {"none", "accepted", "failed", "refused", "error"}]
        /\ broker' \subseteq Requests
    BY <1>10, <1>b DEF JobExecute
  <2>2. StatusType
    BY <1>10, <1>s, <1>u, <1>v DEF JobExecute
  <2>3. RunType
    BY <1>10, <1>r, <1>u, <1>w DEF JobExecute
  <2>4. RecType
    BY <1>10, <1>u DEF JobExecute
  <2> QED
    BY <1>a, <2>1, <2>2, <2>3, <2>4
<1>11. ASSUME NEW r \in Requests, NEW c \in Callers, Report(r, c) PROVE TypeOK'
  <2>1. /\ at' \in [Requests -> {"client", "stored", "check", "send", "wait", "after", "answered"}]
        /\ answer' \in [Requests -> {"none", "accepted", "failed", "refused", "error"}]
        /\ broker' \subseteq Requests
    BY <1>11, <1>b DEF Report
  <2>2. StatusType
    BY <1>11, <1>f, <1>u, <1>v DEF Report, SetFinished
  <2>3. RunType
    BY <1>11, <1>r, <1>u, <1>w DEF Report
  <2>4. RecType
    BY <1>11, <1>u DEF Report
  <2> QED
    BY <1>a, <2>1, <2>2, <2>3, <2>4
<1>12. ASSUME NEW r \in Requests, NEW c \in Callers, EndInSilence(r, c) PROVE TypeOK'
  <2>1. /\ at' \in [Requests -> {"client", "stored", "check", "send", "wait", "after", "answered"}]
        /\ answer' \in [Requests -> {"none", "accepted", "failed", "refused", "error"}]
        /\ broker' \subseteq Requests
    BY <1>12, <1>b DEF EndInSilence
  <2>2. StatusType
    BY <1>12, <1>u DEF EndInSilence
  <2>3. RunType
    BY <1>12, <1>r, <1>u, <1>w DEF EndInSilence
  <2>4. RecType
    BY <1>12, <1>u DEF EndInSilence
  <2> QED
    BY <1>a, <2>1, <2>2, <2>3, <2>4
<1>13. ASSUME NEW k \in Recoveries, ListNew(k) PROVE TypeOK'
  <2>1. /\ at' \in [Requests -> {"client", "stored", "check", "send", "wait", "after", "answered"}]
        /\ answer' \in [Requests -> {"none", "accepted", "failed", "refused", "error"}]
        /\ broker' \subseteq Requests
    BY <1>13, <1>b DEF ListNew
  <2>2. StatusType
    BY <1>13, <1>u DEF ListNew
  <2>3. RunType
    BY <1>13, <1>u DEF ListNew
  <2>4. RecType
    <3> DEFINE rows == TasksWith(TASK_NEW)
               listed == {tasks[i] : i \in TasksWith(TASK_NEW)}
    <3>1. rows \in SUBSET Nat /\ listed \in SUBSET Requests /\ "new" \in Phases
      BY <1>l, <1>w
    <3>2. rec' = [rec EXCEPT ![k].pc = "new", ![k].rows = rows, ![k].listed = listed]
      BY <1>13 DEF ListNew
    <3> HIDE DEF rows, listed
    <3> DEFINE new == [rec[k] EXCEPT !.pc = "new", !.rows = rows, !.listed = listed]
    <3>3. rec[k] \in [pc : Phases, rows : SUBSET Nat, request : Requests \cup {NoRequest},
                      listed : SUBSET Requests, late : SUBSET Requests]
      BY <1>t
    <3>4. new \in [pc : Phases, rows : SUBSET Nat, request : Requests \cup {NoRequest},
                      listed : SUBSET Requests, late : SUBSET Requests]
      BY <3>1, <3>3
    <3>5. rec' = [rec EXCEPT ![k] = new]
      BY <3>2
    <3> HIDE DEF new
    <3> QED
      BY <1>t, <3>4, <3>5 DEF RecType
  <2> QED
    BY <1>a, <2>1, <2>2, <2>3, <2>4
<1>14. ASSUME NEW k \in Recoveries, RecoverNew(k) PROVE TypeOK'
  <2>1. /\ at' \in [Requests -> {"client", "stored", "check", "send", "wait", "after", "answered"}]
        /\ answer' \in [Requests -> {"none", "accepted", "failed", "refused", "error"}]
        /\ broker' \subseteq Requests
    BY <1>14, <1>b DEF RecoverNew
  <2>2. StatusType
    BY <1>14, <1>f, <1>u, <1>v DEF RecoverNew, SetFinished
  <2>3. RunType
    BY <1>14, <1>h, <1>c, <1>r, <1>u, <1>w DEF RecoverNew
  <2>4. RecType
    <3> DEFINE rows == OtherRows(k)
               r == HeadRow(k)
    <3>1. rows \in SUBSET Nat /\ r \in Requests /\ "join new" \in Phases
      BY <1>14, <1>h, <1>o, <1>w DEF RecoverNew
    <3>2. \/ rec' = [rec EXCEPT ![k].rows = rows, ![k].request = r]
          \/ rec' = [rec EXCEPT ![k].pc = "join new", ![k].request = r]
      BY <1>14 DEF RecoverNew
    <3> HIDE DEF rows, r
    <3>3. CASE rec' = [rec EXCEPT ![k].rows = rows, ![k].request = r]
      BY <1>t, <3>1, <3>3 DEF RecType
    <3>4. CASE rec' = [rec EXCEPT ![k].pc = "join new", ![k].request = r]
      BY <1>t, <3>1, <3>4 DEF RecType
    <3> QED
      BY <3>2, <3>3, <3>4, Zenon
  <2> QED
    BY <1>a, <2>1, <2>2, <2>3, <2>4
<1>15. ASSUME NEW k \in Recoveries, ListUncompleted(k) PROVE TypeOK'
  <2>1. /\ at' \in [Requests -> {"client", "stored", "check", "send", "wait", "after", "answered"}]
        /\ answer' \in [Requests -> {"none", "accepted", "failed", "refused", "error"}]
        /\ broker' \subseteq Requests
    BY <1>15, <1>b DEF ListUncompleted
  <2>2. StatusType
    BY <1>15, <1>u DEF ListUncompleted
  <2>3. RunType
    BY <1>15, <1>u DEF ListUncompleted
  <2>4. RecType
    <3> DEFINE rows == TasksWith(TASK_RUNNING)
               new == [rec[k] EXCEPT !.pc = "old", !.rows = rows]
    <3>1. rows \in SUBSET Nat /\ "old" \in Phases
      BY <1>l, <1>w
    <3>2. rec' = [rec EXCEPT ![k] = new]
      BY <1>15 DEF ListUncompleted
    <3> HIDE DEF rows
    <3>3. rec[k] \in [pc : Phases, rows : SUBSET Nat, request : Requests \cup {NoRequest},
                      listed : SUBSET Requests, late : SUBSET Requests]
      BY <1>t
    <3>4. new \in [pc : Phases, rows : SUBSET Nat, request : Requests \cup {NoRequest},
                      listed : SUBSET Requests, late : SUBSET Requests]
      BY <3>1, <3>3
    <3> HIDE DEF new
    <3> QED
      BY <1>t, <3>2, <3>4 DEF RecType
  <2> QED
    BY <1>a, <2>1, <2>2, <2>3, <2>4
<1>16. ASSUME NEW k \in Recoveries, RecoverUncompleted(k) PROVE TypeOK'
  <2>1. /\ at' \in [Requests -> {"client", "stored", "check", "send", "wait", "after", "answered"}]
        /\ answer' \in [Requests -> {"none", "accepted", "failed", "refused", "error"}]
        /\ broker' \subseteq Requests
    BY <1>16, <1>b DEF RecoverUncompleted
  <2>2. StatusType
    BY <1>16, <1>f, <1>u, <1>v DEF RecoverUncompleted, SetFinished
  <2>3. RunType
    BY <1>16, <1>h, <1>c, <1>r, <1>u, <1>w DEF RecoverUncompleted
  <2>4. RecType
    BY <1>16, <1>d, <1>p, <1>w DEF RecoverUncompleted, Abort
  <2> QED
    BY <1>a, <2>1, <2>2, <2>3, <2>4
<1>17. ASSUME NEW k \in Recoveries, JoinNew(k) PROVE TypeOK'
  <2>1. /\ at' \in [Requests -> {"client", "stored", "check", "send", "wait", "after", "answered"}]
        /\ answer' \in [Requests -> {"none", "accepted", "failed", "refused", "error"}]
        /\ broker' \subseteq Requests
    BY <1>17, <1>b DEF JoinNew, Join
  <2>2. StatusType
    BY <1>17, <1>u DEF JoinNew, Join
  <2>3. RunType
    BY <1>17, <1>u DEF JoinNew, Join
  <2>4. RecType
    <3>1. Join(k, "join new", <<k, "new">>, "new") /\ "new" \in Phases /\ "join new" \in {"join new", "join old"}
      BY <1>17, <1>w DEF JoinNew
    <3> QED
      BY <1>c, <1>n, <3>1, Zenon
  <2> QED
    BY <1>a, <2>1, <2>2, <2>3, <2>4
<1>18. ASSUME NEW k \in Recoveries, JoinUncompleted(k) PROVE TypeOK'
  <2>1. /\ at' \in [Requests -> {"client", "stored", "check", "send", "wait", "after", "answered"}]
        /\ answer' \in [Requests -> {"none", "accepted", "failed", "refused", "error"}]
        /\ broker' \subseteq Requests
    BY <1>18, <1>b DEF JoinUncompleted, Join
  <2>2. StatusType
    BY <1>18, <1>u DEF JoinUncompleted, Join
  <2>3. RunType
    BY <1>18, <1>u DEF JoinUncompleted, Join
  <2>4. RecType
    <3>1. Join(k, "join old", <<k, "again">>, "old") /\ "old" \in Phases /\ "join old" \in {"join new", "join old"}
      BY <1>18, <1>w DEF JoinUncompleted
    <3> QED
      BY <1>c, <1>n, <3>1, Zenon
  <2> QED
    BY <1>a, <2>1, <2>2, <2>3, <2>4
<1>19. ASSUME NEW k \in Recoveries, RecoveryDone(k) PROVE TypeOK'
  <2>1. /\ at' \in [Requests -> {"client", "stored", "check", "send", "wait", "after", "answered"}]
        /\ answer' \in [Requests -> {"none", "accepted", "failed", "refused", "error"}]
        /\ broker' \subseteq Requests
    BY <1>19, <1>b DEF RecoveryDone
  <2>2. StatusType
    BY <1>19, <1>u DEF RecoveryDone
  <2>3. RunType
    BY <1>19, <1>u DEF RecoveryDone
  <2>4. RecType
    BY <1>19, <1>p, <1>w DEF RecoveryDone
  <2> QED
    BY <1>a, <2>1, <2>2, <2>3, <2>4
<1>20. ASSUME NEW k \in Recoveries, AbortOnFault(k) PROVE TypeOK'
  <2>1. /\ at' \in [Requests -> {"client", "stored", "check", "send", "wait", "after", "answered"}]
        /\ answer' \in [Requests -> {"none", "accepted", "failed", "refused", "error"}]
        /\ broker' \subseteq Requests
    BY <1>20, <1>b DEF AbortOnFault
  <2>2. StatusType
    BY <1>20, <1>u DEF AbortOnFault
  <2>3. RunType
    BY <1>20, <1>u DEF AbortOnFault
  <2>4. RecType
    BY <1>20, <1>p, <1>w DEF AbortOnFault, Abort
  <2> QED
    BY <1>a, <2>1, <2>2, <2>3, <2>4
<1>21. ASSUME CeleryDies PROVE TypeOK'
  <2>1. /\ at' \in [Requests -> {"client", "stored", "check", "send", "wait", "after", "answered"}]
        /\ answer' \in [Requests -> {"none", "accepted", "failed", "refused", "error"}]
        /\ broker' \subseteq Requests
    BY <1>21, <1>b DEF CeleryDies, Crash
  <2>2. StatusType
    BY <1>21, <1>u DEF CeleryDies, Crash
  <2>3. RunType
    BY <1>21, <1>t, <1>w DEF CeleryDies, Crash, RunType
  <2>4. RecType
    BY <1>21, <1>u DEF CeleryDies, Crash
  <2> QED
    BY <1>a, <2>1, <2>2, <2>3, <2>4
<1>22. ASSUME WebDies PROVE TypeOK'
  <2>1. /\ at' \in [Requests -> {"client", "stored", "check", "send", "wait", "after", "answered"}]
        /\ answer' \in [Requests -> {"none", "accepted", "failed", "refused", "error"}]
        /\ broker' \subseteq Requests
    BY <1>22, <1>b DEF WebDies, Crash
  <2>2. StatusType
    BY <1>22, <1>u DEF WebDies, Crash
  <2>3. RunType
    BY <1>22, <1>t, <1>w DEF WebDies, Crash, RunType
  <2>4. RecType
    BY <1>22, <1>t, <1>w DEF WebDies, RecType
  <2> QED
    BY <1>a, <2>1, <2>2, <2>3, <2>4
<1>23. ASSUME UNCHANGED vars PROVE TypeOK'
  <2>1. /\ at' \in [Requests -> {"client", "stored", "check", "send", "wait", "after", "answered"}]
        /\ answer' \in [Requests -> {"none", "accepted", "failed", "refused", "error"}]
        /\ broker' \subseteq Requests
    BY <1>23, <1>b DEF vars
  <2>2. StatusType
    BY <1>23, <1>u DEF vars
  <2>3. RunType
    BY <1>23, <1>u DEF vars
  <2>4. RecType
    BY <1>23, <1>u DEF vars
  <2> QED
    BY <1>a, <2>1, <2>2, <2>3, <2>4
<1> QED
  BY <1>1, <1>2, <1>3, <1>4, <1>5, <1>6, <1>7, <1>8, <1>9, <1>10, <1>11, <1>12, <1>13, <1>14,
     <1>15, <1>16, <1>17, <1>18, <1>19, <1>20, <1>21, <1>22, <1>23 DEF Next, HandlerStep,
     ThreadStep, RecoveryStep

LEMMA RowsAdded ==
  ASSUME TypeOK, NEW r \in Requests
  PROVE  /\ requests' = Append(requests, r) => \A s : Stored(s)' <=> s = r \/ Stored(s)
         /\ requests' = requests => \A s : Stored(s)' <=> Stored(s)
         /\ tasks' = Append(tasks, r) => \A s : Tasked(s)' <=> s = r \/ Tasked(s)
         /\ tasks' = tasks => \A s : Tasked(s)' <=> Tasked(s)
<1>1. requests \in Seq(Requests) /\ tasks \in Seq(Requests)
  BY DEF TypeOK
<1>2. requests' = Append(requests, r) => \A s : Stored(s)' <=> s = r \/ Stored(s)
  <2>1. \A s : (\E i \in DOMAIN Append(requests, r) : Append(requests, r)[i] = s) <=> s = r \/ Stored(s)
    BY <1>1, AppendFacts DEF Stored
  <2> QED
    BY <2>1 DEF Stored
<1>4. tasks' = Append(tasks, r) => \A s : Tasked(s)' <=> s = r \/ Tasked(s)
  <2>1. \A s : (\E i \in DOMAIN Append(tasks, r) : Append(tasks, r)[i] = s) <=> s = r \/ Tasked(s)
    BY <1>1, AppendFacts DEF Tasked
  <2> QED
    BY <2>1 DEF Tasked
<1>3. /\ requests' = requests => \A s : Stored(s)' <=> Stored(s)
      /\ tasks' = tasks => \A s : Tasked(s)' <=> Tasked(s)
  BY DEF Stored, Tasked
<1> QED
  BY <1>2, <1>3, <1>4

(* The row of a queue that the lookups return is a row of that queue. *)
LEMMA StatusRowFacts ==
  ASSUME TypeOK, NEW r \in Requests, Tasked(r)
  PROVE  /\ StatusRow(QueueOf(r)) \in Requests
         /\ QueueOf(StatusRow(QueueOf(r))) = QueueOf(r)
         /\ Tasked(StatusRow(QueueOf(r)))
<1>1. tasks \in Seq(Requests)
  BY DEF TypeOK
<1>2. OfQueue(tasks, QueueOf(r)) # {}
  BY DEF Tasked, OfQueue
<1> DEFINE q == QueueOf(r)
<1> HIDE DEF q
<1>3. OfQueue(tasks, q) # {}
  BY <1>2 DEF q
<1>4. /\ First(tasks, OfQueue(tasks, q)) \in Requests /\ QueueOf(First(tasks, OfQueue(tasks, q))) = q
      /\ \E i \in DOMAIN tasks : First(tasks, OfQueue(tasks, q)) = tasks[i]
  BY <1>1, <1>3, FirstFacts
<1> QED
  BY <1>4 DEF StatusRow, Tasked, q

LEMMA RequestRowFacts ==
  ASSUME TypeOK, NEW q
  PROVE  RequestRow(q) # NoRequest => RequestRow(q) \in Requests /\ QueueOf(RequestRow(q)) = q
<1>1. requests \in Seq(Requests)
  BY DEF TypeOK
<1>2. CASE OfQueue(requests, q) = {}
  BY <1>2 DEF RequestRow, First
<1>3. CASE OfQueue(requests, q) # {}
  BY <1>1, <1>3, FirstFacts DEF RequestRow
<1> QED
  BY <1>2, <1>3

LEMMA HandlerLemma ==
  ASSUME BaseInv, [Next]_vars, NEW s \in Requests
  PROVE  HandlerOf(s)'
<1>0. /\ TypeOK /\ \A r \in Requests : HandlerOf(r)
      /\ Celery \in Callers /\ Web \in Callers
      /\ \A k \in Recoveries : <<k, "new">> \in Callers /\ <<k, "again">> \in Callers
  BY DEF BaseInv, Callers
<1>t. /\ at \in [Requests -> {"client", "stored", "check", "send", "wait", "after", "answered"}]
      /\ answer \in [Requests -> {"none", "accepted", "failed", "refused", "error"}]
      /\ broker \subseteq Requests
      /\ status \in [Requests -> {NoRow, TASK_NEW, TASK_RUNNING, TASK_COMPLETE}]
      /\ run \in [Requests -> [Callers -> {"none", "start", "start again", "running"} \cup Ended]]
  BY <1>0 DEF TypeOK
<1>h. \A k \in Recoveries : rec[k].rows # {} => HeadRow(k) \in Requests /\ Tasked(HeadRow(k))
  BY <1>0, HeadFacts DEF BaseInv
<1>q. \A r \in Requests : Tasked(r) => StatusRow(QueueOf(r)) \in Requests /\ Tasked(StatusRow(QueueOf(r)))
  BY <1>0, StatusRowFacts
<1>a. \A r \in Requests : 
        /\ requests' = Append(requests, r) => (Stored(s)' <=> s = r \/ Stored(s))
        /\ requests' = requests => (Stored(s)' <=> Stored(s))
        /\ tasks' = Append(tasks, r) => (Tasked(s)' <=> s = r \/ Tasked(s))
        /\ tasks' = tasks => (Tasked(s)' <=> Tasked(s))
  BY <1>0, RowsAdded
<1>s. NoRow # TASK_NEW /\ NoRow # TASK_RUNNING /\ NoRow # TASK_COMPLETE
  BY DEF NoRow, TASK_NEW, TASK_RUNNING, TASK_COMPLETE
<1> DEFINE Places == /\ at'[s] = "client" => ~Stored(s)'
                     /\ at'[s] = "stored" => Stored(s)'
                     /\ at'[s] \in {"client", "stored"} => ~Tasked(s)'
                     /\ Tasked(s)' => Stored(s)'
                     /\ at'[s] \in {"check", "send", "wait", "after"} => Tasked(s)'
                     /\ answer'[s] \in {"accepted", "failed"} => Tasked(s)'
                     /\ at'[s] = "after" => answer'[s] = "failed"
                     /\ s \in broker' => Tasked(s)'
           Status == status'[s] # NoRow <=> Tasked(s)'
           Runs == \A c \in Callers : run'[s][c] # "none" => Tasked(s)'
<1>g. Places /\ Status /\ Runs => HandlerOf(s)'
  BY DEF HandlerOf
<1>u. /\ (requests' = requests /\ tasks' = tasks /\ at' = at /\ answer' = answer /\ broker' = broker => Places)
      /\ (tasks' = tasks /\ status' = status => Status)
      /\ ((Tasked(s) => Tasked(s)') /\ run' = run => Runs)
  BY <1>0, <1>a DEF HandlerOf
<1>f. \A q : tasks' = tasks /\ SetFinished(q) => Status
  BY <1>0, <1>t, <1>s, <1>a DEF SetFinished, SetRow, HandlerOf
<1>e. \A r \in Requests, v \in {TASK_RUNNING, TASK_COMPLETE} :
        Tasked(r) /\ tasks' = tasks /\ status' = [status EXCEPT ![StatusRow(QueueOf(r))] = v] => Status
  <2>1. SUFFICES ASSUME NEW r \in Requests, NEW v \in {TASK_RUNNING, TASK_COMPLETE},
                        Tasked(r), tasks' = tasks, status' = [status EXCEPT ![StatusRow(QueueOf(r))] = v]
                 PROVE  Status
    BY Zenon
  <2> DEFINE x == StatusRow(QueueOf(r))
  <2>2. x \in Requests /\ Tasked(x) /\ status' = [status EXCEPT ![x] = v]
    BY <1>q, <2>1
  <2> HIDE DEF x
  <2>3. v # NoRow /\ (status[s] # NoRow <=> Tasked(s)) /\ (Tasked(s)' <=> Tasked(s))
    BY <1>0, <1>s, <1>a, <2>1 DEF HandlerOf
  <2>4. status'[s] = IF s = x THEN v ELSE status[s]
    BY <1>t, <2>2
  <2> QED
    BY <2>2, <2>3, <2>4, Zenon
<1>r. \A how : \A r \in Requests, c \in Callers : tasks' = tasks /\ Call(r, c, how) /\ Tasked(r) => Runs
  <2>1. SUFFICES ASSUME NEW how, NEW r \in Requests, NEW c \in Callers, tasks' = tasks, Call(r, c, how), Tasked(r)
                 PROVE  Runs
    BY Zenon
  <2>2. CASE s = r
    BY <1>a, <2>1, <2>2
  <2>3. CASE s # r
    <3>1. run'[s] = run[s]
      BY <1>t, <2>1, <2>3 DEF Call
    <3> QED
      BY <1>0, <1>a, <2>1, <3>1 DEF HandlerOf
  <2> QED
    BY <2>2, <2>3
<1>k. Tasked(s) => Tasked(s)'
  BY <1>0, RowsGrow
<1> HIDE DEF Status, Runs
<1>1. ASSUME NEW r \in Requests, InsertRequest(r) PROVE HandlerOf(s)'
  <2>1. Places
    <3>1. CASE s # r
      <4>1. at'[s] = at[s] /\ answer'[s] = answer[s] /\ broker' = broker
        BY <1>1, <1>t, <3>1 DEF InsertRequest, Goto, Respond
      <4>2. (Stored(s)' <=> Stored(s)) /\ (Tasked(s)' <=> Tasked(s))
        BY <1>1, <1>a, <3>1 DEF InsertRequest
      <4> QED
        BY <1>0, <4>1, <4>2 DEF HandlerOf
    <3>2. CASE s = r
      <4>1. at[s] = "client" /\ ~Tasked(s)' /\ broker' = broker /\ s \notin broker
        BY <1>0, <1>1, <1>a, <3>2 DEF InsertRequest, HandlerOf
      <4>2. CASE requests' = Append(requests, r) /\ Goto(r, "stored") /\ UNCHANGED answer
        <5>1. at'[s] = "stored" /\ answer'[s] = answer[s] /\ Stored(s)'
          BY <1>t, <1>a, <3>2, <4>2 DEF Goto
        <5> QED
          BY <1>0, <1>a, <3>2, <4>1, <5>1 DEF HandlerOf
      <4>3. CASE Respond(r, "error")
        <5>1. at'[s] = "answered" /\ answer'[s] = "error"
          BY <1>t, <3>2, <4>3 DEF Respond, Goto, NotSuccessful
        <5> QED
          BY <4>1, <5>1
      <4> QED
        BY <1>1, <4>2, <4>3 DEF InsertRequest
    <3> QED
      BY <3>1, <3>2
  <2>2. Status
    BY <1>1, <1>u DEF InsertRequest
  <2>3. Runs
    BY <1>1, <1>k, <1>u DEF InsertRequest
  <2> QED
    BY <1>g, <2>1, <2>2, <2>3
<1>2. ASSUME NEW r \in Requests, InsertStatus(r) PROVE HandlerOf(s)'
  <2>1. Places
    <3>1. CASE s # r
      <4>1. at'[s] = at[s] /\ answer'[s] = answer[s] /\ broker' = broker
        BY <1>2, <1>t, <3>1 DEF InsertStatus, Goto, Respond
      <4>2. (Stored(s)' <=> Stored(s)) /\ (Tasked(s)' <=> Tasked(s))
        BY <1>2, <1>a, <3>1 DEF InsertStatus
      <4> QED
        BY <1>0, <4>1, <4>2 DEF HandlerOf
    <3>2. CASE s = r
      <4>1. at[s] = "stored" /\ Stored(s)' /\ broker' = broker /\ s \notin broker
        BY <1>0, <1>2, <1>a, <3>2 DEF InsertStatus, HandlerOf
      <4>2. CASE tasks' = Append(tasks, r)
        <5>1. Tasked(s)'
          BY <1>a, <3>2, <4>2
        <5>2. \/ at'[s] = "check" /\ answer'[s] = answer[s]
              \/ at'[s] = "answered" /\ answer'[s] = "refused"
              \/ at'[s] = "answered" /\ answer'[s] = "error"
          BY <1>2, <1>t, <3>2 DEF InsertStatus, Respond, Goto, NotSuccessful
        <5> QED
          BY <4>1, <5>1, <5>2
      <4>3. CASE Respond(r, "error") /\ UNCHANGED tasks
        <5>1. at'[s] = "answered" /\ answer'[s] = "error"
          BY <1>t, <3>2, <4>3 DEF Respond, Goto, NotSuccessful
        <5>2. ~Tasked(s)'
          BY <1>0, <1>a, <4>1, <4>3 DEF HandlerOf
        <5> QED
          BY <4>1, <5>1, <5>2
      <4> QED
        BY <1>2, <4>2, <4>3 DEF InsertStatus
    <3> QED
      BY <3>1, <3>2
  <2>2. Status
    <3>1. \/ tasks' = Append(tasks, r) /\ status' = [status EXCEPT ![r] = TASK_NEW]
          \/ tasks' = tasks /\ status' = status
      BY <1>2 DEF InsertStatus
    <3>2. CASE tasks' = Append(tasks, r) /\ status' = [status EXCEPT ![r] = TASK_NEW]
      <4>1. (Tasked(s)' <=> s = r \/ Tasked(s)) /\ (status[s] # NoRow <=> Tasked(s))
        BY <1>0, <1>a, <3>2 DEF HandlerOf
      <4>2. status'[s] = IF s = r THEN TASK_NEW ELSE status[s]
        BY <1>t, <3>2
      <4> QED
        BY <1>s, <4>1, <4>2 DEF Status
    <3> QED
      BY <1>u, <3>1, <3>2
  <2>3. Runs
    BY <1>2, <1>k, <1>u DEF InsertStatus
  <2> QED
    BY <1>g, <2>1, <2>2, <2>3
<1>3. ASSUME NEW r \in Requests, CheckRequest(r) PROVE HandlerOf(s)'
  <2>1. Places
    BY <1>3, <1>0, <1>t, <1>a DEF HandlerOf, CheckRequest, Goto, NoFault, Fault, Failure,
       Respond, NotSuccessful
  <2>2. Status
    BY <1>3, <1>u DEF CheckRequest
  <2>3. Runs
    BY <1>3, <1>k, <1>u DEF CheckRequest
  <2> QED
    BY <1>g, <2>1, <2>2, <2>3
<1>4. ASSUME NEW r \in Requests, CheckRequestRaises(r) PROVE HandlerOf(s)'
  <2>1. Places
    BY <1>4, <1>0, <1>t, <1>a DEF HandlerOf, CheckRequestRaises, Goto, Fault, Failure, Respond,
       NotSuccessful
  <2>2. Status
    BY <1>4, <1>u DEF CheckRequestRaises
  <2>3. Runs
    BY <1>4, <1>k, <1>u DEF CheckRequestRaises
  <2> QED
    BY <1>g, <2>1, <2>2, <2>3
<1>5. ASSUME NEW r \in Requests, Send(r) PROVE HandlerOf(s)'
  <2>1. Places
    BY <1>5, <1>0, <1>t, <1>a DEF HandlerOf, Send, Goto, NoFault, Fault, Failure, Respond,
       NotSuccessful
  <2>2. Status
    BY <1>5, <1>u DEF Send
  <2>3. Runs
    BY <1>5, <1>k, <1>u DEF Send
  <2> QED
    BY <1>g, <2>1, <2>2, <2>3
<1>6. ASSUME NEW r \in Requests, Scan(r) PROVE HandlerOf(s)'
  <2>1. Places
    BY <1>6, <1>0, <1>t, <1>a DEF HandlerOf, Scan, Goto, Call
  <2>2. Status
    BY <1>6, <1>u DEF Scan
  <2>3. Runs
    BY <1>6, <1>0, <1>r DEF Scan, HandlerOf
  <2> QED
    BY <1>g, <2>1, <2>2, <2>3
<1>7. ASSUME NEW r \in Requests, GetAnswer(r) PROVE HandlerOf(s)'
  <2>1. Places
    <3>1. CASE s # r
      <4>1. at'[s] = at[s] /\ answer'[s] = answer[s] /\ broker' = broker
        BY <1>7, <1>t, <3>1 DEF GetAnswer, Goto, Respond
      <4>2. (Stored(s)' <=> Stored(s)) /\ (Tasked(s)' <=> Tasked(s))
        BY <1>7, <1>a, <3>1 DEF GetAnswer
      <4> QED
        BY <1>0, <4>1, <4>2 DEF HandlerOf
    <3>2. CASE s = r
      <4>1. Tasked(s)' /\ Stored(s)'
        BY <1>0, <1>7, <1>a, <3>2 DEF GetAnswer, HandlerOf
      <4>2. PICK what \in {"accepted", "failed"} : Respond(r, what)
        BY <1>7 DEF GetAnswer
      <4>3. at'[s] = (IF what = "failed" THEN "after" ELSE "answered") /\ answer'[s] = what
        BY <1>t, <3>2, <4>2 DEF Respond, Goto, NotSuccessful
      <4> QED
        BY <4>1, <4>3
    <3> QED
      BY <3>1, <3>2
  <2>2. Status
    BY <1>7, <1>u DEF GetAnswer
  <2>3. Runs
    BY <1>7, <1>k, <1>u DEF GetAnswer
  <2> QED
    BY <1>g, <2>1, <2>2, <2>3
<1>8. ASSUME NEW r \in Requests, AfterRequest(r) PROVE HandlerOf(s)'
  <2>1. Places
    BY <1>8, <1>0, <1>t, <1>a DEF HandlerOf, AfterRequest, Goto, NoFault, Fault, Failure
  <2>2. Status
    BY <1>8, <1>e, <1>u, <1>0 DEF AfterRequest, HandlerOf
  <2>3. Runs
    BY <1>8, <1>k, <1>u DEF AfterRequest
  <2> QED
    BY <1>g, <2>1, <2>2, <2>3
<1>9. ASSUME NEW r \in Requests, Fetch(r) PROVE HandlerOf(s)'
  <2>1. Places
    BY <1>9, <1>0, <1>t, <1>a DEF HandlerOf, Fetch, Call
  <2>2. Status
    BY <1>9, <1>u DEF Fetch
  <2>3. Runs
    BY <1>9, <1>0, <1>r DEF Fetch, HandlerOf
  <2> QED
    BY <1>g, <2>1, <2>2, <2>3
<1>10. ASSUME NEW r \in Requests, NEW c \in Callers, JobExecute(r, c) PROVE HandlerOf(s)'
  <2>1. Places
    BY <1>10, <1>u DEF JobExecute
  <2>2. Status
    BY <1>10, <1>e, <1>u, <1>0 DEF JobExecute, HandlerOf
  <2>3. Runs
    BY <1>10, <1>0, <1>r DEF JobExecute, HandlerOf
  <2> QED
    BY <1>g, <2>1, <2>2, <2>3
<1>11. ASSUME NEW r \in Requests, NEW c \in Callers, Report(r, c) PROVE HandlerOf(s)'
  <2>1. Places
    BY <1>11, <1>u DEF Report
  <2>2. Status
    BY <1>11, <1>f, <1>u DEF Report
  <2>3. Runs
    BY <1>11, <1>0, <1>r DEF Report, HandlerOf
  <2> QED
    BY <1>g, <2>1, <2>2, <2>3
<1>12. ASSUME NEW r \in Requests, NEW c \in Callers, EndInSilence(r, c) PROVE HandlerOf(s)'
  <2>1. Places
    BY <1>12, <1>u DEF EndInSilence
  <2>2. Status
    BY <1>12, <1>u DEF EndInSilence
  <2>3. Runs
    BY <1>12, <1>0, <1>r DEF EndInSilence, HandlerOf
  <2> QED
    BY <1>g, <2>1, <2>2, <2>3
<1>13. ASSUME NEW k \in Recoveries, ListNew(k) PROVE HandlerOf(s)'
  <2>1. Places
    BY <1>13, <1>u DEF ListNew
  <2>2. Status
    BY <1>13, <1>u DEF ListNew
  <2>3. Runs
    BY <1>13, <1>k, <1>u DEF ListNew
  <2> QED
    BY <1>g, <2>1, <2>2, <2>3
<1>14. ASSUME NEW k \in Recoveries, RecoverNew(k) PROVE HandlerOf(s)'
  <2>1. Places
    BY <1>14, <1>u DEF RecoverNew
  <2>2. Status
    BY <1>14, <1>f, <1>u DEF RecoverNew
  <2>3. Runs
    BY <1>14, <1>0, <1>h, <1>k, <1>r, <1>u DEF RecoverNew
  <2> QED
    BY <1>g, <2>1, <2>2, <2>3
<1>15. ASSUME NEW k \in Recoveries, ListUncompleted(k) PROVE HandlerOf(s)'
  <2>1. Places
    BY <1>15, <1>u DEF ListUncompleted
  <2>2. Status
    BY <1>15, <1>u DEF ListUncompleted
  <2>3. Runs
    BY <1>15, <1>k, <1>u DEF ListUncompleted
  <2> QED
    BY <1>g, <2>1, <2>2, <2>3
<1>16. ASSUME NEW k \in Recoveries, RecoverUncompleted(k) PROVE HandlerOf(s)'
  <2>1. Places
    BY <1>16, <1>u DEF RecoverUncompleted
  <2>2. Status
    BY <1>16, <1>f, <1>u DEF RecoverUncompleted
  <2>3. Runs
    BY <1>16, <1>0, <1>h, <1>k, <1>r, <1>u DEF RecoverUncompleted
  <2> QED
    BY <1>g, <2>1, <2>2, <2>3
<1>17. ASSUME NEW k \in Recoveries, JoinNew(k) PROVE HandlerOf(s)'
  <2>1. Places
    BY <1>17, <1>u DEF JoinNew, Join
  <2>2. Status
    BY <1>17, <1>u DEF JoinNew, Join
  <2>3. Runs
    BY <1>17, <1>k, <1>u DEF JoinNew, Join
  <2> QED
    BY <1>g, <2>1, <2>2, <2>3
<1>18. ASSUME NEW k \in Recoveries, JoinUncompleted(k) PROVE HandlerOf(s)'
  <2>1. Places
    BY <1>18, <1>u DEF JoinUncompleted, Join
  <2>2. Status
    BY <1>18, <1>u DEF JoinUncompleted, Join
  <2>3. Runs
    BY <1>18, <1>k, <1>u DEF JoinUncompleted, Join
  <2> QED
    BY <1>g, <2>1, <2>2, <2>3
<1>19. ASSUME NEW k \in Recoveries, RecoveryDone(k) PROVE HandlerOf(s)'
  <2>1. Places
    BY <1>19, <1>u DEF RecoveryDone
  <2>2. Status
    BY <1>19, <1>u DEF RecoveryDone
  <2>3. Runs
    BY <1>19, <1>k, <1>u DEF RecoveryDone
  <2> QED
    BY <1>g, <2>1, <2>2, <2>3
<1>20. ASSUME NEW k \in Recoveries, AbortOnFault(k) PROVE HandlerOf(s)'
  <2>1. Places
    BY <1>20, <1>u DEF AbortOnFault
  <2>2. Status
    BY <1>20, <1>u DEF AbortOnFault
  <2>3. Runs
    BY <1>20, <1>k, <1>u DEF AbortOnFault
  <2> QED
    BY <1>g, <2>1, <2>2, <2>3
<1>21. ASSUME CeleryDies PROVE HandlerOf(s)'
  <2>1. Places
    BY <1>21, <1>u DEF CeleryDies, Crash
  <2>2. Status
    BY <1>21, <1>u DEF CeleryDies, Crash
  <2>3. Runs
    BY <1>21, <1>0, <1>t, <1>a DEF CeleryDies, Crash, Runs, HandlerOf
  <2> QED
    BY <1>g, <2>1, <2>2, <2>3
<1>22. ASSUME WebDies PROVE HandlerOf(s)'
  <2>1. Places
    BY <1>22, <1>0, <1>t, <1>a DEF HandlerOf, WebDies, Crash, Failure
  <2>2. Status
    BY <1>22, <1>u DEF WebDies, Crash
  <2>3. Runs
    BY <1>22, <1>0, <1>t, <1>a DEF WebDies, Crash, Runs, HandlerOf
  <2> QED
    BY <1>g, <2>1, <2>2, <2>3
<1>23. ASSUME UNCHANGED vars PROVE HandlerOf(s)'
  <2>1. Places
    BY <1>23, <1>u DEF vars
  <2>2. Status
    BY <1>23, <1>u DEF vars
  <2>3. Runs
    BY <1>23, <1>k, <1>u DEF vars
  <2> QED
    BY <1>g, <2>1, <2>2, <2>3
<1> QED
  BY <1>1, <1>2, <1>3, <1>4, <1>5, <1>6, <1>7, <1>8, <1>9, <1>10, <1>11, <1>12, <1>13, <1>14,
     <1>15, <1>16, <1>17, <1>18, <1>19, <1>20, <1>21, <1>22, <1>23 DEF Next, HandlerStep,
     ThreadStep, RecoveryStep

(* What the actions of a recovery make of its record. *)
Same(k, place) ==
  /\ rec'[k].pc = place /\ rec'[k].rows = rec[k].rows /\ rec'[k].request = rec[k].request
  /\ rec'[k].listed = rec[k].listed /\ rec'[k].late = rec[k].late

LEMMA RecFields ==
  ASSUME TypeOK, NEW k \in Recoveries, NEW place
  PROVE  /\ Proceed(k, place) => Same(k, place) /\ \A j \in Recoveries \ {k} : rec'[j] = rec[j]
         /\ RowDone(k, place) => /\ rec'[k].pc = place /\ rec'[k].rows = OtherRows(k)
                                 /\ rec'[k].request = rec[k].request
                                 /\ rec'[k].listed = rec[k].listed /\ rec'[k].late = rec[k].late
                                 /\ \A j \in Recoveries \ {k} : rec'[j] = rec[j]
<1> DEFINE Recs == [pc : {"idle", "new", "join new", "old", "join old", "done", "aborted"},
                    rows : SUBSET Nat, request : Requests \cup {NoRequest},
                    listed : SUBSET Requests, late : SUBSET Requests]
           r == rec[k]
<1>1. rec \in [Recoveries -> Recs] /\ r \in Recs
  BY DEF TypeOK
<1>2. r = [pc |-> r.pc, rows |-> r.rows, request |-> r.request, listed |-> r.listed, late |-> r.late]
  BY <1>1
<1>3. ASSUME Proceed(k, place)
      PROVE  Same(k, place) /\ \A j \in Recoveries \ {k} : rec'[j] = rec[j]
  <2>1. rec'[k] = [r EXCEPT !.pc = place] /\ \A j \in Recoveries \ {k} : rec'[j] = rec[j]
    BY <1>1, <1>3 DEF Proceed
  <2>2. /\ rec'[k].pc = place /\ rec'[k].rows = r.rows /\ rec'[k].request = r.request
        /\ rec'[k].listed = r.listed /\ rec'[k].late = r.late
    BY <1>2, <2>1
  <2> QED
    BY <2>1, <2>2 DEF Same
<1>4. ASSUME RowDone(k, place)
      PROVE  /\ rec'[k].pc = place /\ rec'[k].rows = OtherRows(k) /\ rec'[k].request = rec[k].request
             /\ rec'[k].listed = rec[k].listed /\ rec'[k].late = rec[k].late
             /\ \A j \in Recoveries \ {k} : rec'[j] = rec[j]
  <2> DEFINE others == OtherRows(k)
  <2>1. rec' = [rec EXCEPT ![k].pc = place, ![k].rows = others]
    BY <1>4 DEF RowDone
  <2> HIDE DEF others
  <2>2. rec'[k] = [r EXCEPT !.pc = place, !.rows = others] /\ \A j \in Recoveries \ {k} : rec'[j] = rec[j]
    BY <1>1, <2>1
  <2>3. /\ rec'[k].pc = place /\ rec'[k].rows = others /\ rec'[k].request = r.request
        /\ rec'[k].listed = r.listed /\ rec'[k].late = r.late
    BY <1>2, <2>2
  <2> QED
    BY <2>2, <2>3 DEF others
<1> QED
  BY <1>3, <1>4

LEMMA RecNewFields ==
  ASSUME TypeOK, NEW k \in Recoveries, RecoverNew(k)
  PROVE  /\ rec[k].pc = "new" /\ rec[k].rows # {}
         /\ rec'[k].request = HeadRow(k) /\ rec'[k].listed = rec[k].listed /\ rec'[k].late = rec[k].late
         /\ \/ /\ ResponseOf(HeadRow(k)) # "none" /\ SetFinished(QueueOf(HeadRow(k))) /\ run' = run
                /\ rec'[k].pc = "new" /\ rec'[k].rows = OtherRows(k)
            \/ /\ ResponseOf(HeadRow(k)) = "none" /\ status' = status /\ Call(HeadRow(k), <<k, "new">>, "start")
                /\ rec'[k].pc = "join new" /\ rec'[k].rows = rec[k].rows
         /\ \A j \in Recoveries \ {k} : rec'[j] = rec[j]
<1> DEFINE Recs == [pc : {"idle", "new", "join new", "old", "join old", "done", "aborted"},
                    rows : SUBSET Nat, request : Requests \cup {NoRequest},
                    listed : SUBSET Requests, late : SUBSET Requests]
           old == rec[k]
           r == HeadRow(k)
           others == OtherRows(k)
<1>1. rec \in [Recoveries -> Recs] /\ old \in Recs
  BY DEF TypeOK
<1>2. old = [pc |-> old.pc, rows |-> old.rows, request |-> old.request, listed |-> old.listed, late |-> old.late]
  BY <1>1
<1>3. /\ rec[k].pc = "new" /\ rec[k].rows # {}
      /\ \/ /\ ResponseOf(r) # "none" /\ SetFinished(QueueOf(r)) /\ run' = run
             /\ rec' = [rec EXCEPT ![k].rows = others, ![k].request = r]
         \/ /\ ResponseOf(r) = "none" /\ status' = status /\ Call(r, <<k, "new">>, "start")
             /\ rec' = [rec EXCEPT ![k].pc = "join new", ![k].request = r]
  BY DEF RecoverNew
<1> HIDE DEF r, others
<1> DEFINE A == /\ ResponseOf(r) # "none" /\ SetFinished(QueueOf(r)) /\ run' = run
           B == /\ ResponseOf(r) = "none" /\ status' = status /\ Call(r, <<k, "new">>, "start")
<1> HIDE DEF A, B
<1>4. ASSUME A, rec' = [rec EXCEPT ![k].rows = others, ![k].request = r]
      PROVE  /\ rec'[k].request = r /\ rec'[k].listed = rec[k].listed /\ rec'[k].late = rec[k].late
             /\ A /\ rec'[k].pc = "new" /\ rec'[k].rows = others
             /\ \A j \in Recoveries \ {k} : rec'[j] = rec[j]
  <2>1. rec'[k] = [old EXCEPT !.rows = others, !.request = r] /\ \A j \in Recoveries \ {k} : rec'[j] = rec[j]
    BY <1>1, <1>4
  <2>2. /\ rec'[k].pc = "new" /\ rec'[k].rows = others /\ rec'[k].request = r
        /\ rec'[k].listed = rec[k].listed /\ rec'[k].late = rec[k].late
    BY <1>2, <1>3, <2>1
  <2> QED
    BY <1>4, <2>1, <2>2
<1>5. ASSUME B, rec' = [rec EXCEPT ![k].pc = "join new", ![k].request = r]
      PROVE  /\ rec'[k].request = r /\ rec'[k].listed = rec[k].listed /\ rec'[k].late = rec[k].late
             /\ B /\ rec'[k].pc = "join new" /\ rec'[k].rows = rec[k].rows
             /\ \A j \in Recoveries \ {k} : rec'[j] = rec[j]
  <2>1. rec'[k] = [old EXCEPT !.pc = "join new", !.request = r] /\ \A j \in Recoveries \ {k} : rec'[j] = rec[j]
    BY <1>1, <1>5
  <2>2. /\ rec'[k].pc = "join new" /\ rec'[k].rows = rec[k].rows /\ rec'[k].request = r
        /\ rec'[k].listed = rec[k].listed /\ rec'[k].late = rec[k].late
    BY <1>2, <2>1
  <2> QED
    BY <1>5, <2>1, <2>2
<1> QED
  BY <1>3, <1>4, <1>5 DEF A, B, r, others

LEMMA ListNewFields ==
  ASSUME TypeOK, NEW k \in Recoveries, ListNew(k)
  PROVE  /\ rec'[k].pc = "new" /\ rec'[k].rows = TasksWith(TASK_NEW)
         /\ rec'[k].listed = {tasks[i] : i \in TasksWith(TASK_NEW)}
         /\ rec'[k].request = rec[k].request /\ rec'[k].late = rec[k].late
         /\ \A j \in Recoveries \ {k} : rec'[j] = rec[j]
<1> DEFINE Recs == [pc : {"idle", "new", "join new", "old", "join old", "done", "aborted"},
                    rows : SUBSET Nat, request : Requests \cup {NoRequest},
                    listed : SUBSET Requests, late : SUBSET Requests]
           old == rec[k]
           rows == TasksWith(TASK_NEW)
           listed == {tasks[i] : i \in TasksWith(TASK_NEW)}
<1>1. rec \in [Recoveries -> Recs] /\ old \in Recs
  BY DEF TypeOK
<1>2. old = [pc |-> old.pc, rows |-> old.rows, request |-> old.request, listed |-> old.listed, late |-> old.late]
  BY <1>1
<1>3. rec' = [rec EXCEPT ![k].pc = "new", ![k].rows = rows, ![k].listed = listed]
  BY DEF ListNew
<1> HIDE DEF rows, listed
<1>4. /\ rec'[k] = [old EXCEPT !.pc = "new", !.rows = rows, !.listed = listed]
      /\ \A j \in Recoveries \ {k} : rec'[j] = rec[j]
  BY <1>1, <1>3
<1>5. /\ rec'[k].pc = "new" /\ rec'[k].rows = rows /\ rec'[k].listed = listed
      /\ rec'[k].request = rec[k].request /\ rec'[k].late = rec[k].late
  BY <1>2, <1>4
<1> QED
  BY <1>4, <1>5 DEF rows, listed

LEMMA ListUncompletedFields ==
  ASSUME TypeOK, NEW k \in Recoveries, ListUncompleted(k)
  PROVE  /\ rec'[k].pc = "old" /\ rec'[k].rows = TasksWith(TASK_RUNNING)
         /\ rec'[k].listed = rec[k].listed /\ rec'[k].request = rec[k].request /\ rec'[k].late = rec[k].late
         /\ \A j \in Recoveries \ {k} : rec'[j] = rec[j]
<1> DEFINE Recs == [pc : {"idle", "new", "join new", "old", "join old", "done", "aborted"},
                    rows : SUBSET Nat, request : Requests \cup {NoRequest},
                    listed : SUBSET Requests, late : SUBSET Requests]
           old == rec[k]
           rows == TasksWith(TASK_RUNNING)
<1>1. rec \in [Recoveries -> Recs] /\ old \in Recs
  BY DEF TypeOK
<1>2. old = [pc |-> old.pc, rows |-> old.rows, request |-> old.request, listed |-> old.listed, late |-> old.late]
  BY <1>1
<1>3. rec' = [rec EXCEPT ![k].pc = "old", ![k].rows = rows]
  BY DEF ListUncompleted
<1> HIDE DEF rows
<1>4. /\ rec'[k] = [old EXCEPT !.pc = "old", !.rows = rows]
      /\ \A j \in Recoveries \ {k} : rec'[j] = rec[j]
  BY <1>1, <1>3
<1>5. /\ rec'[k].pc = "old" /\ rec'[k].rows = rows /\ rec'[k].listed = rec[k].listed
      /\ rec'[k].request = rec[k].request /\ rec'[k].late = rec[k].late
  BY <1>2, <1>4
<1> QED
  BY <1>4, <1>5 DEF rows

(* A join ends the recovery, ends the row, or gives the row up. *)
LEMMA JoinFields ==
  ASSUME TypeOK, NEW k \in Recoveries, NEW place, NEW caller, NEW next, Join(k, place, caller, next)
  PROVE  /\ rec[k].pc = place /\ rec'[k].request = rec[k].request /\ rec'[k].listed = rec[k].listed
         /\ \/ /\ run[HeadRow(k)][caller] = "raised" /\ Same(k, "aborted")
            \/ /\ run[HeadRow(k)][caller] \in Ended \ {"raised"}
               /\ rec'[k].pc = next /\ rec'[k].rows = OtherRows(k) /\ rec'[k].late = rec[k].late
            \/ /\ run[HeadRow(k)][caller] = "running"
               /\ rec'[k].pc = next /\ rec'[k].rows = OtherRows(k)
               /\ rec'[k].late = rec[k].late \cup {HeadRow(k)}
         /\ \A j \in Recoveries \ {k} : rec'[j] = rec[j]
<1> DEFINE Recs == [pc : {"idle", "new", "join new", "old", "join old", "done", "aborted"},
                    rows : SUBSET Nat, request : Requests \cup {NoRequest},
                    listed : SUBSET Requests, late : SUBSET Requests]
           old == rec[k]
           others == OtherRows(k)
           r == HeadRow(k)
<1>1. rec \in [Recoveries -> Recs] /\ old \in Recs
  BY DEF TypeOK
<1>2. old = [pc |-> old.pc, rows |-> old.rows, request |-> old.request, listed |-> old.listed, late |-> old.late]
  BY <1>1
<1>3. /\ rec[k].pc = place
      /\ \/ run[r][caller] = "raised" /\ Proceed(k, "aborted")
         \/ run[r][caller] \in Ended \ {"raised"} /\ RowDone(k, next)
         \/ /\ run[r][caller] = "running"
            /\ rec' = [rec EXCEPT ![k].pc = next, ![k].rows = others, ![k].late = @ \cup {r}]
  BY DEF Join, Abort
<1>4. ASSUME Proceed(k, "aborted")
      PROVE  Same(k, "aborted") /\ \A j \in Recoveries \ {k} : rec'[j] = rec[j]
  BY <1>4, RecFields
<1>5. ASSUME RowDone(k, next)
      PROVE  /\ rec'[k].pc = next /\ rec'[k].rows = others /\ rec'[k].request = rec[k].request
             /\ rec'[k].listed = rec[k].listed /\ rec'[k].late = rec[k].late
             /\ \A j \in Recoveries \ {k} : rec'[j] = rec[j]
  BY <1>5, RecFields
<1>6. ASSUME rec' = [rec EXCEPT ![k].pc = next, ![k].rows = others, ![k].late = @ \cup {r}]
      PROVE  /\ rec'[k].pc = next /\ rec'[k].rows = others /\ rec'[k].request = rec[k].request
             /\ rec'[k].listed = rec[k].listed /\ rec'[k].late = rec[k].late \cup {r}
             /\ \A j \in Recoveries \ {k} : rec'[j] = rec[j]
  <2> HIDE DEF others, r
  <2>1. /\ rec'[k] = [old EXCEPT !.pc = next, !.rows = others, !.late = old.late \cup {r}]
        /\ \A j \in Recoveries \ {k} : rec'[j] = rec[j]
    BY <1>1, <1>6
  <2>2. /\ rec'[k].pc = next /\ rec'[k].rows = others /\ rec'[k].request = rec[k].request
        /\ rec'[k].listed = rec[k].listed /\ rec'[k].late = rec[k].late \cup {r}
    BY <1>2, <2>1
  <2> QED
    BY <2>1, <2>2
<1> HIDE DEF others, r
<1>7. Same(k, "aborted") => rec'[k].request = rec[k].request /\ rec'[k].listed = rec[k].listed
  BY DEF Same
<1> QED
  BY <1>3, <1>4, <1>5, <1>6, <1>7 DEF others, r

LEMMA DyingFields ==
  ASSUME TypeOK, NEW j \in Recoveries, WebDies
  PROVE  rec'[j] = rec[j] \/ Same(j, "aborted")
<1>1. \/ rec'[j] = rec[j]
      \/ rec'[j] = [rec[j] EXCEPT !.pc = "aborted"]
  BY DEF WebDies
<1>2. rec \in [Recoveries -> [pc : {"idle", "new", "join new", "old", "join old", "done", "aborted"},
                             rows : SUBSET Nat, request : Requests \cup {NoRequest},
                             listed : SUBSET Requests, late : SUBSET Requests]]
  BY DEF TypeOK
<1> QED
  BY <1>1, <1>2 DEF Same

(* While the rows of a recovery stay or become fewer, they stay in order. *)
LEMMA RowsFrame ==
  ASSUME TypeOK, [Next]_vars, NEW j \in Recoveries, RowsOK(j),
         rec'[j].rows \subseteq rec[j].rows, rec'[j].listed = rec[j].listed,
         rec'[j].request = rec[j].request \/ rec'[j].request \in rec[j].listed,
         rec'[j].pc = "idle" => rec[j].pc = "idle" /\ rec'[j].request = rec[j].request,
         rec'[j].pc \in {"new", "join new"} => rec[j].pc \in {"new", "join new"},
         rec'[j].pc \in {"join new", "join old"} => rec'[j].rows = rec[j].rows /\ rec[j].rows # {},
         rec'[j].pc = "join new" => ResponseOf(HeadRow(j)) = "none"
  PROVE  RowsOK(j)'
<1>1. /\ DOMAIN tasks \subseteq DOMAIN tasks' /\ \A i \in DOMAIN tasks : tasks'[i] = tasks[i]
      /\ \A r : Tasked(r) => Tasked(r)'
  BY RowsGrow
<1>2. rec'[j].rows \subseteq DOMAIN tasks /\ \A i \in rec'[j].rows : tasks'[i] = tasks[i]
  BY <1>1 DEF RowsOK
<1>3. rec'[j].pc = "join new" => ResponseOf(HeadRow(j)') = "none"
  <2>1. SUFFICES ASSUME rec'[j].pc = "join new" PROVE ResponseOf(HeadRow(j)') = "none"
    OBVIOUS
  <2>2. rec'[j].rows = rec[j].rows /\ rec[j].rows # {} /\ ResponseOf(HeadRow(j)) = "none"
    BY <2>1
  <2>3. HeadRow(j) = tasks[Least(rec[j].rows)] /\ Least(rec[j].rows) \in rec[j].rows
    BY <2>2, HeadFacts
  <2>4. HeadRow(j)' = tasks'[Least(rec[j].rows)]
    BY <2>2 DEF HeadRow, Least
  <2>5. HeadRow(j)' = HeadRow(j)
    BY <1>2, <2>2, <2>3, <2>4
  <2> QED
    BY <2>2, <2>5
<1>4. /\ rec'[j].rows \subseteq DOMAIN tasks'
      /\ rec'[j].pc \in {"join new", "join old"} => rec'[j].rows # {}
      /\ \A r \in rec'[j].listed : Tasked(r)'
  BY <1>1, <1>2 DEF RowsOK
<1>5. rec'[j].pc \in {"new", "join new"} => \A i \in rec'[j].rows : tasks'[i] \in rec'[j].listed
  BY <1>2 DEF RowsOK
<1>6. /\ rec'[j].request # NoRequest => rec'[j].request \in rec'[j].listed
      /\ rec'[j].pc = "idle" => rec'[j].request = NoRequest /\ rec'[j].listed = {}
  BY DEF RowsOK
<1>7. ResponseOf(HeadRow(j))' = ResponseOf(HeadRow(j)')
  BY DEF ResponseOf
<1> QED
  BY <1>3, <1>4, <1>5, <1>6, <1>7 DEF RowsOK

LEMMA RowsStay ==
  ASSUME TypeOK, [Next]_vars, NEW j \in Recoveries, RowsOK(j), rec'[j] = rec[j] \/ Same(j, "aborted")
  PROVE  RowsOK(j)'
<1>1. CASE rec'[j] = rec[j]
  <2>1. rec[j].pc \in {"join new", "join old"} => rec[j].rows # {}
    BY DEF RowsOK
  <2>2. rec[j].pc = "join new" => ResponseOf(HeadRow(j)) = "none"
    BY DEF RowsOK
  <2> QED
    BY <1>1, <2>1, <2>2, RowsFrame
<1>2. CASE Same(j, "aborted")
  BY <1>2, RowsFrame DEF Same
<1> QED
  BY <1>1, <1>2

LEMMA RowsLemma ==
  ASSUME BaseInv, [Next]_vars, NEW j \in Recoveries
  PROVE  RowsOK(j)'
<1>0. TypeOK /\ RowsOK(j) /\ (\A k \in Recoveries : RowsOK(k))
  BY DEF BaseInv
<1>u. rec' = rec => RowsOK(j)'
  BY <1>0, RowsStay
<1>o. \A k \in Recoveries : k # j /\ rec'[j] = rec[j] => RowsOK(j)'
  BY <1>0, RowsStay
<1>h. /\ OtherRows(j) \subseteq rec[j].rows
      /\ rec[j].rows # {} => HeadRow(j) \in Requests /\ Least(rec[j].rows) \in rec[j].rows
                             /\ HeadRow(j) = tasks[Least(rec[j].rows)]
  BY <1>0, HeadFacts DEF OtherRows
<1>p. Proceed(j, "aborted") \/ Proceed(j, "done") => RowsOK(j)'
  <2>1. ASSUME NEW place \in {"aborted", "done"}, Proceed(j, place) PROVE RowsOK(j)'
    BY <1>0, <2>1, RecFields, RowsFrame DEF Same
  <2> QED
    BY <2>1
<1>q. RowDone(j, "old") => RowsOK(j)'
  <2>1. SUFFICES ASSUME RowDone(j, "old") PROVE RowsOK(j)'
    OBVIOUS
  <2>2. /\ rec'[j].pc = "old" /\ rec'[j].rows = OtherRows(j) /\ rec'[j].request = rec[j].request
        /\ rec'[j].listed = rec[j].listed
    BY <1>0, <2>1, RecFields
  <2> QED
    BY <1>0, <1>h, <2>2, RowsFrame
<1>r. \A k \in Recoveries : \A place : (Proceed(k, place) \/ RowDone(k, place)) /\ k # j => RowsOK(j)'
  BY <1>0, <1>o, RecFields
<1>1. ASSUME NEW r \in Requests, InsertRequest(r) PROVE RowsOK(j)'
  BY <1>u, <1>1 DEF InsertRequest
<1>2. ASSUME NEW r \in Requests, InsertStatus(r) PROVE RowsOK(j)'
  BY <1>u, <1>2 DEF InsertStatus
<1>3. ASSUME NEW r \in Requests, CheckRequest(r) PROVE RowsOK(j)'
  BY <1>u, <1>3 DEF CheckRequest
<1>4. ASSUME NEW r \in Requests, CheckRequestRaises(r) PROVE RowsOK(j)'
  BY <1>u, <1>4 DEF CheckRequestRaises
<1>5. ASSUME NEW r \in Requests, Send(r) PROVE RowsOK(j)'
  BY <1>u, <1>5 DEF Send
<1>6. ASSUME NEW r \in Requests, Scan(r) PROVE RowsOK(j)'
  BY <1>u, <1>6 DEF Scan
<1>7. ASSUME NEW r \in Requests, GetAnswer(r) PROVE RowsOK(j)'
  BY <1>u, <1>7 DEF GetAnswer
<1>8. ASSUME NEW r \in Requests, AfterRequest(r) PROVE RowsOK(j)'
  BY <1>u, <1>8 DEF AfterRequest
<1>9. ASSUME NEW r \in Requests, Fetch(r) PROVE RowsOK(j)'
  BY <1>u, <1>9 DEF Fetch
<1>10. ASSUME NEW r \in Requests, NEW c \in Callers, JobExecute(r, c) PROVE RowsOK(j)'
  BY <1>u, <1>10 DEF JobExecute
<1>11. ASSUME NEW r \in Requests, NEW c \in Callers, Report(r, c) PROVE RowsOK(j)'
  BY <1>u, <1>11 DEF Report
<1>12. ASSUME NEW r \in Requests, NEW c \in Callers, EndInSilence(r, c) PROVE RowsOK(j)'
  BY <1>u, <1>12 DEF EndInSilence
<1>13. ASSUME NEW k \in Recoveries, ListNew(k) PROVE RowsOK(j)'
  <2>1. CASE k # j
    BY <1>0, <1>o, <1>13, <2>1, ListNewFields
  <2>2. CASE k = j
    <3>1. /\ rec'[j].pc = "new" /\ rec'[j].rows = TasksWith(TASK_NEW)
          /\ rec'[j].listed = {tasks[i] : i \in TasksWith(TASK_NEW)} /\ rec'[j].request = rec[j].request
      BY <1>0, <1>13, <2>2, ListNewFields
    <3>2. rec[j].request = NoRequest
      BY <1>13, <1>0, <2>2 DEF RowsOK, ListNew
    <3>3. rec'[j].rows \subseteq DOMAIN tasks /\ \A r \in rec'[j].listed : Tasked(r)
      BY <3>1 DEF TasksWith, Tasked
    <3>4. tasks' = tasks
      BY <1>13 DEF ListNew
    <3>5. \A i \in rec'[j].rows : tasks[i] \in rec'[j].listed
      BY <3>1
    <3>6. \A r : Tasked(r) => Tasked(r)'
      BY RowsGrow, <1>0
    <3> QED
      BY <3>1, <3>2, <3>3, <3>4, <3>5, <3>6 DEF RowsOK
  <2> QED
    BY <2>1, <2>2
<1>14. ASSUME NEW k \in Recoveries, RecoverNew(k) PROVE RowsOK(j)'
  <2>1. CASE k # j
    <3>1. \A i \in Recoveries \ {k} : rec'[i] = rec[i]
      BY <1>0, <1>14, RecNewFields
    <3>2. rec'[j] = rec[j]
      BY <2>1, <3>1
    <3> QED
      BY <1>o, <2>1, <3>2
  <2>2. CASE k = j
    <3>1. /\ rec[j].pc = "new" /\ rec[j].rows # {}
          /\ rec'[j].request = HeadRow(j) /\ rec'[j].listed = rec[j].listed
          /\ \/ rec'[j].pc = "new" /\ rec'[j].rows = OtherRows(j)
             \/ ResponseOf(HeadRow(j)) = "none" /\ rec'[j].pc = "join new" /\ rec'[j].rows = rec[j].rows
      BY <1>0, <1>14, <2>2, RecNewFields
    <3>2. HeadRow(j) \in rec[j].listed
      BY <1>0, <1>h, <3>1 DEF RowsOK
    <3> QED
      BY <1>0, <1>h, <3>1, <3>2, RowsFrame
  <2> QED
    BY <2>1, <2>2
<1>15. ASSUME NEW k \in Recoveries, ListUncompleted(k) PROVE RowsOK(j)'
  <2>1. CASE k # j
    BY <1>0, <1>o, <1>15, <2>1, ListUncompletedFields
  <2>2. CASE k = j
    <3>1. /\ rec'[j].pc = "old" /\ rec'[j].rows = TasksWith(TASK_RUNNING)
          /\ rec'[j].listed = rec[j].listed /\ rec'[j].request = rec[j].request
      BY <1>0, <1>15, <2>2, ListUncompletedFields
    <3>2. tasks' = tasks /\ rec'[j].rows \subseteq DOMAIN tasks
      BY <1>15, <3>1 DEF ListUncompleted, TasksWith
    <3>3. \A r : Tasked(r) => Tasked(r)'
      BY RowsGrow, <1>0
    <3> QED
      BY <1>0, <3>1, <3>2, <3>3 DEF RowsOK
  <2> QED
    BY <2>1, <2>2
<1>16. ASSUME NEW k \in Recoveries, RecoverUncompleted(k) PROVE RowsOK(j)'
  <2>1. rec[k].pc = "old" /\ rec[k].rows # {} /\ (Proceed(k, "aborted") \/ RowDone(k, "old") \/ Proceed(k, "join old"))
    BY <1>16 DEF RecoverUncompleted, Abort
  <2>2. CASE k # j
    BY <1>r, <2>1, <2>2
  <2>3. CASE k = j /\ (Proceed(j, "aborted") \/ RowDone(j, "old"))
    BY <1>p, <1>q, <2>3
  <2>4. CASE k = j /\ Proceed(j, "join old")
    <3>1. Same(j, "join old")
      BY <1>0, <2>4, RecFields
    <3> QED
      BY <1>0, <2>1, <2>4, <3>1, RowsFrame DEF Same
  <2> QED
    BY <2>1, <2>2, <2>3, <2>4
<1>17. ASSUME NEW k \in Recoveries, JoinNew(k) PROVE RowsOK(j)'
  <2>1. Join(k, "join new", <<k, "new">>, "new")
    BY <1>17 DEF JoinNew
  <2>2. CASE k # j
    <3>1. \A i \in Recoveries \ {k} : rec'[i] = rec[i]
      BY <1>0, <2>1, JoinFields
    <3>2. rec'[j] = rec[j]
      BY <2>2, <3>1
    <3> QED
      BY <1>o, <2>2, <3>2
  <2>3. CASE k = j
    <3>j. PICK caller : Join(j, "join new", caller, "new")
      BY <2>1, <2>3
    <3>1. /\ rec[j].pc = "join new" /\ rec'[j].request = rec[j].request /\ rec'[j].listed = rec[j].listed
          /\ \/ Same(j, "aborted")
             \/ rec'[j].pc = "new" /\ rec'[j].rows = OtherRows(j)
      <4>1. /\ rec[j].pc = "join new" /\ rec'[j].request = rec[j].request /\ rec'[j].listed = rec[j].listed
            /\ \/ /\ run[HeadRow(j)][caller] = "raised" /\ Same(j, "aborted")
               \/ /\ run[HeadRow(j)][caller] \in Ended \ {"raised"}
                  /\ rec'[j].pc = "new" /\ rec'[j].rows = OtherRows(j) /\ rec'[j].late = rec[j].late
               \/ /\ run[HeadRow(j)][caller] = "running"
                  /\ rec'[j].pc = "new" /\ rec'[j].rows = OtherRows(j)
                  /\ rec'[j].late = rec[j].late \cup {HeadRow(j)}
        BY <1>0, <3>j, JoinFields, Zenon
      <4> QED
        BY <4>1, Zenon
    <3>2. Same(j, "aborted") => RowsOK(j)'
      BY <1>0, RowsStay
    <3> QED
      BY <1>0, <1>h, <3>1, <3>2, RowsFrame
  <2> QED
    BY <2>2, <2>3
<1>18. ASSUME NEW k \in Recoveries, JoinUncompleted(k) PROVE RowsOK(j)'
  <2>1. Join(k, "join old", <<k, "again">>, "old")
    BY <1>18 DEF JoinUncompleted
  <2>2. CASE k # j
    <3>1. \A i \in Recoveries \ {k} : rec'[i] = rec[i]
      BY <1>0, <2>1, JoinFields
    <3>2. rec'[j] = rec[j]
      BY <2>2, <3>1
    <3> QED
      BY <1>o, <2>2, <3>2
  <2>3. CASE k = j
    <3>j. PICK caller : Join(j, "join old", caller, "old")
      BY <2>1, <2>3
    <3>1. /\ rec[j].pc = "join old" /\ rec'[j].request = rec[j].request /\ rec'[j].listed = rec[j].listed
          /\ \/ Same(j, "aborted")
             \/ rec'[j].pc = "old" /\ rec'[j].rows = OtherRows(j)
      <4>1. /\ rec[j].pc = "join old" /\ rec'[j].request = rec[j].request /\ rec'[j].listed = rec[j].listed
            /\ \/ /\ run[HeadRow(j)][caller] = "raised" /\ Same(j, "aborted")
               \/ /\ run[HeadRow(j)][caller] \in Ended \ {"raised"}
                  /\ rec'[j].pc = "old" /\ rec'[j].rows = OtherRows(j) /\ rec'[j].late = rec[j].late
               \/ /\ run[HeadRow(j)][caller] = "running"
                  /\ rec'[j].pc = "old" /\ rec'[j].rows = OtherRows(j)
                  /\ rec'[j].late = rec[j].late \cup {HeadRow(j)}
        BY <1>0, <3>j, JoinFields, Zenon
      <4> QED
        BY <4>1, Zenon
    <3>2. Same(j, "aborted") => RowsOK(j)'
      BY <1>0, RowsStay
    <3> QED
      BY <1>0, <1>h, <3>1, <3>2, RowsFrame
  <2> QED
    BY <2>2, <2>3
<1>19. ASSUME NEW k \in Recoveries, RecoveryDone(k) PROVE RowsOK(j)'
  <2>1. Proceed(k, "done")
    BY <1>19 DEF RecoveryDone
  <2> QED
    BY <1>p, <1>r, <2>1
<1>20. ASSUME NEW k \in Recoveries, AbortOnFault(k) PROVE RowsOK(j)'
  <2>1. Proceed(k, "aborted")
    BY <1>20 DEF AbortOnFault, Abort
  <2> QED
    BY <1>p, <1>r, <2>1
<1>21. ASSUME CeleryDies PROVE RowsOK(j)'
  BY <1>u, <1>21 DEF CeleryDies
<1>22. ASSUME WebDies PROVE RowsOK(j)'
  BY <1>0, <1>22, DyingFields, RowsStay
<1>23. ASSUME UNCHANGED vars PROVE RowsOK(j)'
  BY <1>u, <1>23 DEF vars
<1> QED
  BY <1>1, <1>2, <1>3, <1>4, <1>5, <1>6, <1>7, <1>8, <1>9, <1>10, <1>11, <1>12, <1>13, <1>14,
     <1>15, <1>16, <1>17, <1>18, <1>19, <1>20, <1>21, <1>22, <1>23 DEF Next, HandlerStep,
     ThreadStep, RecoveryStep

LEMMA InitBase == Init => BaseInv
<1>1. SUFFICES ASSUME Init PROVE BaseInv
  OBVIOUS
<1>2. requests = <<>> /\ tasks = <<>> /\ requests \in Seq(Requests) /\ tasks \in Seq(Requests)
  <2>1. requests = <<>> /\ tasks = <<>>
    BY <1>1 DEF Init
  <2> QED
    BY <2>1
<1>a. /\ status = [r \in Requests |-> NoRow] /\ at = [r \in Requests |-> "client"]
      /\ answer = [r \in Requests |-> "none"] /\ broker = {}
      /\ run = [r \in Requests |-> [c \in Callers |-> "none"]]
  BY <1>1 DEF Init
<1>b. rec = [k \in Recoveries |-> [pc |-> "idle", rows |-> {}, request |-> NoRequest, listed |-> {}, late |-> {}]]
  BY <1>1 DEF Init
<1>c. /\ status \in [Requests -> {NoRow, TASK_NEW, TASK_RUNNING, TASK_COMPLETE}]
      /\ at \in [Requests -> {"client", "stored", "check", "send", "wait", "after", "answered"}]
      /\ answer \in [Requests -> {"none", "accepted", "failed", "refused", "error"}]
      /\ run \in [Requests -> [Callers -> {"none", "start", "start again", "running"} \cup Ended]]
  BY <1>a
<1>d. rec \in [Recoveries -> [pc : {"idle", "new", "join new", "old", "join old", "done", "aborted"},
                             rows : SUBSET Nat, request : Requests \cup {NoRequest},
                             listed : SUBSET Requests, late : SUBSET Requests]]
  BY <1>b
<1>3. TypeOK
  BY <1>2, <1>a, <1>c, <1>d DEF TypeOK
<1>4. \A r : ~Stored(r) /\ ~Tasked(r)
  BY <1>2 DEF Stored, Tasked
<1>5. \A r \in Requests : HandlerOf(r)
  BY <1>4, <1>a DEF HandlerOf
<1>6. \A k \in Recoveries : RowsOK(k)
  BY <1>b DEF RowsOK
<1> QED
  BY <1>3, <1>5, <1>6 DEF BaseInv

(* BaseInv, the types and what the handlers, the rows and the recoveries of   *)
(* a request may be together, holds in every reachable state.                *)
THEOREM BaseInvariance == Spec => []BaseInv
<1>1. Init => BaseInv
  BY InitBase
<1>2. BaseInv /\ [Next]_vars => BaseInv'
  BY TypeStep, HandlerLemma, RowsLemma DEF BaseInv
<1> QED
  BY <1>1, <1>2, PTL DEF Spec

----------------------------------------------------------------------------
(* One request of a queue is let through. *)

(* What an admitted request has been through. *)
LEMMA AdmittedTasked ==
  ASSUME BaseInv, NEW s \in Requests, Admitted(s) \/ at[s] = "check"
  PROVE  Tasked(s) /\ Stored(s)
<1>1. HandlerOf(s) /\ Celery \in Callers /\ Web \in Callers
  BY DEF BaseInv, Callers
<1> QED
  BY <1>1 DEF HandlerOf, Admitted

LEMMA FaultsGrow ==
  ASSUME [Next]_vars
  PROVE  faults \subseteq faults'
<1>1. ASSUME NEW r \in Requests, InsertRequest(r) PROVE faults \subseteq faults'
  BY <1>1 DEF InsertRequest, NoFault, Fault
<1>2. ASSUME NEW r \in Requests, InsertStatus(r) PROVE faults \subseteq faults'
  BY <1>2 DEF InsertStatus, NoFault, Fault
<1>3. ASSUME NEW r \in Requests, CheckRequest(r) PROVE faults \subseteq faults'
  BY <1>3 DEF CheckRequest, NoFault, Fault
<1>4. ASSUME NEW r \in Requests, CheckRequestRaises(r) PROVE faults \subseteq faults'
  BY <1>4 DEF CheckRequestRaises, NoFault, Fault
<1>5. ASSUME NEW r \in Requests, Send(r) PROVE faults \subseteq faults'
  BY <1>5 DEF Send, NoFault, Fault
<1>6. ASSUME NEW r \in Requests, Scan(r) PROVE faults \subseteq faults'
  BY <1>6 DEF Scan, NoFault, Fault
<1>7. ASSUME NEW r \in Requests, GetAnswer(r) PROVE faults \subseteq faults'
  BY <1>7 DEF GetAnswer, NoFault, Fault
<1>8. ASSUME NEW r \in Requests, AfterRequest(r) PROVE faults \subseteq faults'
  BY <1>8 DEF AfterRequest, NoFault, Fault
<1>9. ASSUME NEW r \in Requests, Fetch(r) PROVE faults \subseteq faults'
  BY <1>9 DEF Fetch, NoFault, Fault
<1>10. ASSUME NEW r \in Requests, NEW c \in Callers, JobExecute(r, c) PROVE faults \subseteq faults'
  BY <1>10 DEF JobExecute, NoFault, Fault
<1>11. ASSUME NEW r \in Requests, NEW c \in Callers, Report(r, c) PROVE faults \subseteq faults'
  BY <1>11 DEF Report, NoFault, Fault
<1>12. ASSUME NEW r \in Requests, NEW c \in Callers, EndInSilence(r, c) PROVE faults \subseteq faults'
  BY <1>12 DEF EndInSilence, NoFault, Fault
<1>13. ASSUME NEW k \in Recoveries, ListNew(k) PROVE faults \subseteq faults'
  BY <1>13 DEF ListNew, NoFault, Fault
<1>14. ASSUME NEW k \in Recoveries, RecoverNew(k) PROVE faults \subseteq faults'
  BY <1>14 DEF RecoverNew, NoFault, Fault
<1>15. ASSUME NEW k \in Recoveries, ListUncompleted(k) PROVE faults \subseteq faults'
  BY <1>15 DEF ListUncompleted, NoFault, Fault
<1>16. ASSUME NEW k \in Recoveries, RecoverUncompleted(k) PROVE faults \subseteq faults'
  BY <1>16 DEF RecoverUncompleted, NoFault, Fault
<1>17. ASSUME NEW k \in Recoveries, JoinNew(k) PROVE faults \subseteq faults'
  BY <1>17 DEF JoinNew, Join, NoFault, Fault
<1>18. ASSUME NEW k \in Recoveries, JoinUncompleted(k) PROVE faults \subseteq faults'
  BY <1>18 DEF JoinUncompleted, Join, NoFault, Fault
<1>19. ASSUME NEW k \in Recoveries, RecoveryDone(k) PROVE faults \subseteq faults'
  BY <1>19 DEF RecoveryDone, NoFault, Fault
<1>20. ASSUME NEW k \in Recoveries, AbortOnFault(k) PROVE faults \subseteq faults'
  BY <1>20 DEF AbortOnFault, NoFault, Fault
<1>21. ASSUME CeleryDies PROVE faults \subseteq faults'
  BY <1>21 DEF CeleryDies, Crash, NoFault, Fault
<1>22. ASSUME WebDies PROVE faults \subseteq faults'
  BY <1>22 DEF WebDies, Crash, NoFault, Fault
<1>23. ASSUME UNCHANGED vars PROVE faults \subseteq faults'
  BY <1>23 DEF vars, NoFault, Fault
<1> QED
  BY <1>1, <1>2, <1>3, <1>4, <1>5, <1>6, <1>7, <1>8, <1>9, <1>10, <1>11, <1>12, <1>13, <1>14,
     <1>15, <1>16, <1>17, <1>18, <1>19, <1>20, <1>21, <1>22, <1>23 DEF Next, HandlerStep,
     ThreadStep, RecoveryStep

(* A request is let through by its own check of the queue only. *)
LEMMA AdmittedStep ==
  ASSUME BaseInv, [Next]_vars, NEW s \in Requests, Admitted(s)'
  PROVE  \/ Admitted(s)
         \/ at[s] = "check" /\ s \in faults'
         \/ at[s] = "check" /\ ~QueueExists(QueueOf(s))
<1>0. TypeOK /\ \A r \in Requests : HandlerOf(r)
  BY DEF BaseInv
<1>t. /\ at \in [Requests -> {"client", "stored", "check", "send", "wait", "after", "answered"}]
      /\ answer \in [Requests -> {"none", "accepted", "failed", "refused", "error"}]
      /\ broker \subseteq Requests
      /\ run \in [Requests -> [Callers -> {"none", "start", "start again", "running"} \cup Ended]]
  BY <1>0 DEF TypeOK
<1>c. /\ Celery \in Callers /\ Web \in Callers
      /\ \A k \in Recoveries : <<k, "new">> \in Callers /\ <<k, "again">> \in Callers
      /\ \A k \in Recoveries : <<k, "new">> \notin {Celery, Web} /\ <<k, "again">> \notin {Celery, Web}
  BY DEF Callers, Celery, Web
<1>h. \A k \in Recoveries : rec[k].rows # {} => HeadRow(k) \in Requests
  BY <1>0, HeadFacts DEF BaseInv
<1> DEFINE Goal == \/ Admitted(s)
                   \/ at[s] = "check" /\ s \in faults'
                   \/ at[s] = "check" /\ ~QueueExists(QueueOf(s))
           Calls == run'[s][Celery] # "none" \/ run'[s][Web] # "none"
           Called == run[s][Celery] # "none" \/ run[s][Web] # "none"
<1>a. /\ at'[s] \in {"send", "wait"} \/ answer'[s] \in {"accepted", "failed"} \/ s \in broker' \/ Calls
      /\ Goal <=> \/ at[s] \in {"send", "wait"} \/ answer[s] \in {"accepted", "failed"} \/ s \in broker \/ Called
                  \/ at[s] = "check" /\ s \in faults'
                  \/ at[s] = "check" /\ ~QueueExists(QueueOf(s))
  BY DEF Admitted
<1>u. at' = at /\ answer' = answer /\ broker' = broker /\ (Calls => Called) => Goal
  BY <1>a
<1>r. \A how : \A r \in Requests, c \in Callers : Call(r, c, how) /\ (run[r][c] # "none" \/ c \notin {Celery, Web}) => (Calls => Called)
  <2>1. SUFFICES ASSUME NEW how, NEW r \in Requests, NEW c \in Callers, Call(r, c, how),
                        run[r][c] # "none" \/ c \notin {Celery, Web}
                 PROVE  Calls => Called
    BY Zenon
  <2>2. \A x \in Callers : run'[s][x] = IF s = r /\ x = c THEN how ELSE run[s][x]
    BY <1>t, <2>1 DEF Call
  <2> QED
    BY <1>c, <2>1, <2>2
<1>w. run' = run => (Calls => Called)
  OBVIOUS
<1> HIDE DEF Goal, Calls, Called
<1>1. ASSUME NEW r \in Requests, InsertRequest(r) PROVE Goal
  BY <1>1, <1>a, <1>t, <1>w DEF InsertRequest, Goto, NoFault, Fault, Failure, Respond,
     NotSuccessful
<1>2. ASSUME NEW r \in Requests, InsertStatus(r) PROVE Goal
  BY <1>2, <1>a, <1>t, <1>w DEF InsertStatus, Goto, NoFault, Fault, Failure, Respond,
     NotSuccessful
<1>3. ASSUME NEW r \in Requests, CheckRequest(r) PROVE Goal
  <2>1. CASE s = r
    BY <1>3, <1>a, <1>t, <1>w, <2>1 DEF CheckRequest, Goto, NoFault, Fault, Failure, Respond,
       NotSuccessful
  <2>2. CASE s # r
    BY <1>3, <1>a, <1>t, <1>w, <2>2 DEF CheckRequest, Goto, Respond, NotSuccessful
  <2> QED
    BY <2>1, <2>2
<1>4. ASSUME NEW r \in Requests, CheckRequestRaises(r) PROVE Goal
  BY <1>4, <1>a, <1>t, <1>w DEF CheckRequestRaises, Goto, Fault, Failure, Respond, NotSuccessful
<1>5. ASSUME NEW r \in Requests, Send(r) PROVE Goal
  BY <1>5, <1>a, <1>t, <1>w DEF Send, Goto, NoFault, Fault, Failure, Respond, NotSuccessful
<1>6. ASSUME NEW r \in Requests, Scan(r) PROVE Goal
  <2>1. CASE s = r
    BY <1>6, <1>a, <2>1 DEF Scan
  <2>2. CASE s # r
    <3>1. run'[s] = run[s]
      BY <1>6, <1>t, <2>2 DEF Scan, Call
    <3>2. Calls => Called
      BY <3>1 DEF Calls, Called
    <3> QED
      BY <1>6, <1>a, <1>t, <2>2, <3>2 DEF Scan, Goto
  <2> QED
    BY <2>1, <2>2
<1>7. ASSUME NEW r \in Requests, GetAnswer(r) PROVE Goal
  BY <1>7, <1>a, <1>t, <1>w DEF GetAnswer, Goto, Respond, NotSuccessful
<1>8. ASSUME NEW r \in Requests, AfterRequest(r) PROVE Goal
  BY <1>8, <1>a, <1>t, <1>w DEF AfterRequest, Goto, NoFault, Fault, Failure
<1>9. ASSUME NEW r \in Requests, Fetch(r) PROVE Goal
  <2>1. CASE s = r
    BY <1>9, <1>a, <2>1 DEF Fetch
  <2>2. CASE s # r
    <3>1. run'[s] = run[s]
      BY <1>9, <1>t, <2>2 DEF Fetch, Call
    <3>2. Calls => Called
      BY <3>1 DEF Calls, Called
    <3> QED
      BY <1>9, <1>a, <1>t, <2>2, <3>2 DEF Fetch
  <2> QED
    BY <2>1, <2>2
<1>10. ASSUME NEW r \in Requests, NEW c \in Callers, JobExecute(r, c) PROVE Goal
  <2>1. Calls => Called
    BY <1>10, <1>r DEF JobExecute
  <2> QED
    BY <1>10, <1>u, <2>1 DEF JobExecute
<1>11. ASSUME NEW r \in Requests, NEW c \in Callers, Report(r, c) PROVE Goal
  <2>1. Calls => Called
    BY <1>11, <1>r DEF Report
  <2> QED
    BY <1>11, <1>u, <2>1 DEF Report
<1>12. ASSUME NEW r \in Requests, NEW c \in Callers, EndInSilence(r, c) PROVE Goal
  <2>1. Calls => Called
    BY <1>12, <1>r DEF EndInSilence
  <2> QED
    BY <1>12, <1>u, <2>1 DEF EndInSilence
<1>13. ASSUME NEW k \in Recoveries, ListNew(k) PROVE Goal
  BY <1>13, <1>u, <1>w DEF ListNew
<1>14. ASSUME NEW k \in Recoveries, RecoverNew(k) PROVE Goal
  <2>1. Calls => Called
    BY <1>14, <1>c, <1>h, <1>r, <1>w DEF RecoverNew
  <2> QED
    BY <1>14, <1>u, <2>1 DEF RecoverNew
<1>15. ASSUME NEW k \in Recoveries, ListUncompleted(k) PROVE Goal
  BY <1>15, <1>u, <1>w DEF ListUncompleted
<1>16. ASSUME NEW k \in Recoveries, RecoverUncompleted(k) PROVE Goal
  <2>1. Calls => Called
    BY <1>16, <1>c, <1>h, <1>r, <1>w DEF RecoverUncompleted
  <2> QED
    BY <1>16, <1>u, <2>1 DEF RecoverUncompleted
<1>17. ASSUME NEW k \in Recoveries, JoinNew(k) PROVE Goal
  BY <1>17, <1>u, <1>w DEF JoinNew, Join
<1>18. ASSUME NEW k \in Recoveries, JoinUncompleted(k) PROVE Goal
  BY <1>18, <1>u, <1>w DEF JoinUncompleted, Join
<1>19. ASSUME NEW k \in Recoveries, RecoveryDone(k) PROVE Goal
  BY <1>19, <1>u, <1>w DEF RecoveryDone
<1>20. ASSUME NEW k \in Recoveries, AbortOnFault(k) PROVE Goal
  BY <1>20, <1>u, <1>w DEF AbortOnFault
<1>21. ASSUME CeleryDies PROVE Goal
  <2>1. Calls => Called
    BY <1>21, <1>c DEF CeleryDies, Crash, Calls, Called
  <2> QED
    BY <1>21, <1>a, <1>u, <1>t, <2>1 DEF CeleryDies, Crash
<1>22. ASSUME WebDies PROVE Goal
  <2>1. Calls => Called
    BY <1>22, <1>c DEF WebDies, Crash, Calls, Called
  <2> QED
    BY <1>22, <1>a, <1>u, <1>t, <2>1 DEF WebDies, Crash
<1>23. ASSUME UNCHANGED vars PROVE Goal
  BY <1>23, <1>u, <1>w DEF vars
<1>z. Goal
  BY <1>1, <1>2, <1>3, <1>4, <1>5, <1>6, <1>7, <1>8, <1>9, <1>10, <1>11, <1>12, <1>13, <1>14,
     <1>15, <1>16, <1>17, <1>18, <1>19, <1>20, <1>21, <1>22, <1>23 DEF Next, HandlerStep,
     ThreadStep, RecoveryStep
<1> QED
  BY <1>z DEF Goal

LEMMA AdmitLemma ==
  ASSUME BaseInv, OneAdmitted, [Next]_vars
  PROVE  OneAdmitted'
<1>1. SUFFICES ASSUME NEW r \in Requests, NEW s \in Requests, r # s, QueueOf(r) = QueueOf(s), Admitted(r)', Admitted(s)'
               PROVE  {r, s} \cap faults' # {}
  BY DEF OneAdmitted, QueueOf
<1>2. faults \subseteq faults'
  BY FaultsGrow
<1>3. CASE Admitted(r) /\ Admitted(s)
  BY <1>1, <1>2, <1>3 DEF OneAdmitted
<1>4. CASE r \in faults' \/ s \in faults'
  BY <1>4
<1>5. Stored(r) /\ Stored(s)
  BY <1>1, AdmittedStep, AdmittedTasked
<1>6. Cardinality(OfQueue(requests, QueueOf(s))) > 1
  <2>1. requests \in Seq(Requests)
    BY DEF BaseInv, TypeOK
  <2>2. PICK i \in DOMAIN requests, j \in DOMAIN requests : requests[i] = r /\ requests[j] = s
    BY <1>5 DEF Stored
  <2>3. i # j /\ QueueOf(requests[i]) = QueueOf(requests[j])
    BY <1>1, <2>2
  <2>4. Cardinality(OfQueue(requests, QueueOf(requests[j]))) > 1
    BY <2>1, <2>3, TwoRows
  <2> QED
    BY <2>2, <2>4
<1>7. QueueExists(QueueOf(s)) /\ QueueExists(QueueOf(r))
  BY <1>1, <1>6 DEF QueueExists
<1> QED
  BY <1>1, <1>3, <1>4, <1>7, AdmittedStep

(* OneAdmitted, for any number of requests, queues, recoveries and failures. *)
THEOREM OneIsAdmitted == Spec => []OneAdmitted
<1>1. Init => OneAdmitted
  BY DEF Init, OneAdmitted, Admitted, Callers
<1>2. BaseInv /\ OneAdmitted /\ [Next]_vars => OneAdmitted'
  BY AdmitLemma
<1> QED
  BY <1>1, <1>2, BaseInvariance, PTL DEF Spec

----------------------------------------------------------------------------
(* A row is COMPLETE for a reason. *)

LEMMA ListedGrow ==
  ASSUME BaseInv, [Next]_vars, NEW j \in Recoveries
  PROVE  rec[j].listed \subseteq rec'[j].listed
<1>0. TypeOK /\ RowsOK(j)
  BY DEF BaseInv
<1> DEFINE Goal == rec[j].listed \subseteq rec'[j].listed
<1>p. \A k \in Recoveries : \A place : Proceed(k, place) \/ RowDone(k, place) => Goal
  BY <1>0, RecFields DEF Same
<1>u. rec' = rec => Goal
  OBVIOUS
<1> HIDE DEF Goal
<1>1. ASSUME NEW r \in Requests, InsertRequest(r) PROVE Goal
  BY <1>u, <1>1 DEF InsertRequest
<1>2. ASSUME NEW r \in Requests, InsertStatus(r) PROVE Goal
  BY <1>u, <1>2 DEF InsertStatus
<1>3. ASSUME NEW r \in Requests, CheckRequest(r) PROVE Goal
  BY <1>u, <1>3 DEF CheckRequest
<1>4. ASSUME NEW r \in Requests, CheckRequestRaises(r) PROVE Goal
  BY <1>u, <1>4 DEF CheckRequestRaises
<1>5. ASSUME NEW r \in Requests, Send(r) PROVE Goal
  BY <1>u, <1>5 DEF Send
<1>6. ASSUME NEW r \in Requests, Scan(r) PROVE Goal
  BY <1>u, <1>6 DEF Scan
<1>7. ASSUME NEW r \in Requests, GetAnswer(r) PROVE Goal
  BY <1>u, <1>7 DEF GetAnswer
<1>8. ASSUME NEW r \in Requests, AfterRequest(r) PROVE Goal
  BY <1>u, <1>8 DEF AfterRequest
<1>9. ASSUME NEW r \in Requests, Fetch(r) PROVE Goal
  BY <1>u, <1>9 DEF Fetch
<1>10. ASSUME NEW r \in Requests, NEW c \in Callers, JobExecute(r, c) PROVE Goal
  BY <1>u, <1>10 DEF JobExecute
<1>11. ASSUME NEW r \in Requests, NEW c \in Callers, Report(r, c) PROVE Goal
  BY <1>u, <1>11 DEF Report
<1>12. ASSUME NEW r \in Requests, NEW c \in Callers, EndInSilence(r, c) PROVE Goal
  BY <1>u, <1>12 DEF EndInSilence
<1>13. ASSUME NEW k \in Recoveries, ListNew(k) PROVE Goal
  <2>1. CASE k # j
    BY <1>0, <1>13, <2>1, ListNewFields DEF Goal
  <2>2. CASE k = j
    BY <1>0, <1>13, <2>2 DEF Goal, RowsOK, ListNew
  <2> QED
    BY <2>1, <2>2
<1>14. ASSUME NEW k \in Recoveries, RecoverNew(k) PROVE Goal
  BY <1>0, <1>14, RecNewFields DEF Goal
<1>15. ASSUME NEW k \in Recoveries, ListUncompleted(k) PROVE Goal
  BY <1>0, <1>15, ListUncompletedFields DEF Goal
<1>16. ASSUME NEW k \in Recoveries, RecoverUncompleted(k) PROVE Goal
  BY <1>p, <1>16 DEF RecoverUncompleted, Abort
<1>17. ASSUME NEW k \in Recoveries, JoinNew(k) PROVE Goal
  <2>1. PICK caller : Join(k, "join new", caller, "new")
    BY <1>17 DEF JoinNew
  <2>2. rec'[k].listed = rec[k].listed /\ \A i \in Recoveries \ {k} : rec'[i] = rec[i]
    BY <1>0, <2>1, JoinFields, Zenon
  <2> QED
    BY <2>2 DEF Goal
<1>18. ASSUME NEW k \in Recoveries, JoinUncompleted(k) PROVE Goal
  <2>1. PICK caller : Join(k, "join old", caller, "old")
    BY <1>18 DEF JoinUncompleted
  <2>2. rec'[k].listed = rec[k].listed /\ \A i \in Recoveries \ {k} : rec'[i] = rec[i]
    BY <1>0, <2>1, JoinFields, Zenon
  <2> QED
    BY <2>2 DEF Goal
<1>19. ASSUME NEW k \in Recoveries, RecoveryDone(k) PROVE Goal
  BY <1>p, <1>19 DEF RecoveryDone, Abort
<1>20. ASSUME NEW k \in Recoveries, AbortOnFault(k) PROVE Goal
  BY <1>p, <1>20 DEF AbortOnFault, Abort
<1>21. ASSUME CeleryDies PROVE Goal
  BY <1>u, <1>21 DEF CeleryDies
<1>22. ASSUME WebDies PROVE Goal
  BY <1>0, <1>22, DyingFields DEF Goal, Same
<1>23. ASSUME UNCHANGED vars PROVE Goal
  BY <1>u, <1>23 DEF vars
<1>z. Goal
  BY <1>1, <1>2, <1>3, <1>4, <1>5, <1>6, <1>7, <1>8, <1>9, <1>10, <1>11, <1>12, <1>13, <1>14,
     <1>15, <1>16, <1>17, <1>18, <1>19, <1>20, <1>21, <1>22, <1>23 DEF Next, HandlerStep,
     ThreadStep, RecoveryStep
<1> QED
  BY <1>z DEF Goal

LEMMA ExplainsStays ==
  ASSUME BaseInv, [Next]_vars, NEW s \in Requests, Explains(s)
  PROVE  Explains(s)'
<1>0. TypeOK
  BY DEF BaseInv
<1>t. /\ at \in [Requests -> {"client", "stored", "check", "send", "wait", "after", "answered"}]
      /\ answer \in [Requests -> {"none", "accepted", "failed", "refused", "error"}]
  BY <1>0 DEF TypeOK
<1> DEFINE Answered == answer[s] = "failed" /\ at[s] = "answered"
           Goal == published \subseteq published' /\ (Answered => answer'[s] = "failed" /\ at'[s] = "answered")
<1>u. published \subseteq published' /\ answer' = answer /\ at' = at => Goal
  OBVIOUS
<1>1. ASSUME NEW r \in Requests, InsertRequest(r) PROVE Goal
  BY <1>t, <1>1 DEF InsertRequest, Goto, NoFault, Fault, Failure, Respond, NotSuccessful
<1>2. ASSUME NEW r \in Requests, InsertStatus(r) PROVE Goal
  BY <1>t, <1>2 DEF InsertStatus, Goto, NoFault, Fault, Failure, Respond, NotSuccessful
<1>3. ASSUME NEW r \in Requests, CheckRequest(r) PROVE Goal
  BY <1>t, <1>3 DEF CheckRequest, Goto, NoFault, Fault, Failure, Respond, NotSuccessful
<1>4. ASSUME NEW r \in Requests, CheckRequestRaises(r) PROVE Goal
  BY <1>t, <1>4 DEF CheckRequestRaises, Goto, Fault, Failure, Respond, NotSuccessful
<1>5. ASSUME NEW r \in Requests, Send(r) PROVE Goal
  BY <1>t, <1>5 DEF Send, Goto, NoFault, Fault, Failure, Respond, NotSuccessful
<1>6. ASSUME NEW r \in Requests, Scan(r) PROVE Goal
  BY <1>t, <1>6 DEF Scan, Goto, Call
<1>7. ASSUME NEW r \in Requests, GetAnswer(r) PROVE Goal
  BY <1>t, <1>7 DEF GetAnswer, Goto, Respond, NotSuccessful
<1>8. ASSUME NEW r \in Requests, AfterRequest(r) PROVE Goal
  BY <1>t, <1>8 DEF AfterRequest, Goto, NoFault, Fault, Failure
<1>9. ASSUME NEW r \in Requests, Fetch(r) PROVE Goal
  BY <1>u, <1>9 DEF Fetch
<1>10. ASSUME NEW r \in Requests, NEW c \in Callers, JobExecute(r, c) PROVE Goal
  BY <1>u, <1>10 DEF JobExecute
<1>11. ASSUME NEW r \in Requests, NEW c \in Callers, Report(r, c) PROVE Goal
  BY <1>u, <1>11 DEF Report
<1>12. ASSUME NEW r \in Requests, NEW c \in Callers, EndInSilence(r, c) PROVE Goal
  BY <1>u, <1>12 DEF EndInSilence
<1>13. ASSUME NEW k \in Recoveries, ListNew(k) PROVE Goal
  BY <1>u, <1>13 DEF ListNew
<1>14. ASSUME NEW k \in Recoveries, RecoverNew(k) PROVE Goal
  BY <1>u, <1>14 DEF RecoverNew
<1>15. ASSUME NEW k \in Recoveries, ListUncompleted(k) PROVE Goal
  BY <1>u, <1>15 DEF ListUncompleted
<1>16. ASSUME NEW k \in Recoveries, RecoverUncompleted(k) PROVE Goal
  BY <1>u, <1>16 DEF RecoverUncompleted
<1>17. ASSUME NEW k \in Recoveries, JoinNew(k) PROVE Goal
  BY <1>u, <1>17 DEF JoinNew, Join
<1>18. ASSUME NEW k \in Recoveries, JoinUncompleted(k) PROVE Goal
  BY <1>u, <1>18 DEF JoinUncompleted, Join
<1>19. ASSUME NEW k \in Recoveries, RecoveryDone(k) PROVE Goal
  BY <1>u, <1>19 DEF RecoveryDone
<1>20. ASSUME NEW k \in Recoveries, AbortOnFault(k) PROVE Goal
  BY <1>u, <1>20 DEF AbortOnFault
<1>21. ASSUME CeleryDies PROVE Goal
  BY <1>u, <1>21 DEF CeleryDies, Crash
<1>22. ASSUME WebDies PROVE Goal
  BY <1>t, <1>22 DEF WebDies, Crash
<1>23. ASSUME UNCHANGED vars PROVE Goal
  BY <1>u, <1>23 DEF vars
<1>z. Goal
  BY <1>1, <1>2, <1>3, <1>4, <1>5, <1>6, <1>7, <1>8, <1>9, <1>10, <1>11, <1>12, <1>13, <1>14,
     <1>15, <1>16, <1>17, <1>18, <1>19, <1>20, <1>21, <1>22, <1>23 DEF Next, HandlerStep,
     ThreadStep, RecoveryStep
<1>l. \A k \in Recoveries : s \in rec[k].listed => s \in rec'[k].listed
  BY ListedGrow
<1> QED
  BY <1>z, <1>l DEF Explains, ResponseOf

LEMMA CompleteLemma ==
  ASSUME BaseInv, CompleteInv, [Next]_vars
  PROVE  CompleteInv'
<1>i. SUFFICES ASSUME NEW r0 \in Requests, status'[r0] = TASK_COMPLETE
               PROVE  \E s \in Requests : QueueOf(s) = QueueOf(r0) /\ Explains(s)'
  BY DEF CompleteInv, QueueOf
<1>0. TypeOK /\ (\A r \in Requests : HandlerOf(r)) /\ \A k \in Recoveries : RowsOK(k)
  BY DEF BaseInv
<1>t. status \in [Requests -> {NoRow, TASK_NEW, TASK_RUNNING, TASK_COMPLETE}]
  BY <1>0 DEF TypeOK
<1>a. at \in [Requests -> {"client", "stored", "check", "send", "wait", "after", "answered"}]
  BY <1>0 DEF TypeOK
<1>v. TASK_NEW # TASK_COMPLETE /\ TASK_RUNNING # TASK_COMPLETE
  BY DEF TASK_NEW, TASK_RUNNING, TASK_COMPLETE
<1> DEFINE Goal == \E s \in Requests : QueueOf(s) = QueueOf(r0) /\ Explains(s)'
<1>u. status[r0] = TASK_COMPLETE => Goal
  BY ExplainsStays DEF CompleteInv
<1>f. \A s \in Requests : Explains(s)' /\ SetFinished(QueueOf(s)) => Goal
  <2>1. SUFFICES ASSUME NEW s \in Requests, Explains(s)', SetFinished(QueueOf(s)) PROVE Goal
    OBVIOUS
  <2>2. CASE status[r0] = TASK_COMPLETE
    BY <1>u, <2>2
  <2>3. CASE status[r0] # TASK_COMPLETE
    <3>1. RequestRow(QueueOf(s)) # NoRequest => RequestRow(QueueOf(s)) \in Requests /\ QueueOf(RequestRow(QueueOf(s))) = QueueOf(s)
      BY <1>0, RequestRowFacts
    <3> DEFINE x == RequestRow(QueueOf(s))
    <3>2. status' = IF x # NoRequest /\ status[x] # NoRow THEN [status EXCEPT ![x] = TASK_COMPLETE] ELSE status
      BY <2>1 DEF SetFinished, SetRow
    <3>3. r0 = x /\ x # NoRequest
      <4> HIDE DEF x
      <4> QED
        BY <1>i, <1>t, <2>3, <3>2
    <3> QED
      BY <2>1, <3>1, <3>3
  <2> QED
    BY <2>2, <2>3
<1>w. status' = status => Goal
  BY <1>i, <1>u
<1>l. \A k \in Recoveries : rec[k].listed \subseteq rec'[k].listed
  BY ListedGrow
<1>p. \A s \in Requests : s \in published' => Explains(s)'
  BY DEF Explains
<1>q. \A s \in Requests, k \in Recoveries : ResponseOf(s) # "none" /\ s \in rec[k].listed => Explains(s)'
  BY <1>l DEF Explains, ResponseOf
<1> HIDE DEF Goal
<1>1. ASSUME NEW r \in Requests, InsertRequest(r) PROVE Goal
  BY <1>w, <1>1 DEF InsertRequest
<1>2. ASSUME NEW r \in Requests, InsertStatus(r) PROVE Goal
  <2>1. status' = status \/ status' = [status EXCEPT ![r] = TASK_NEW]
    BY <1>2 DEF InsertStatus
  <2>2. status'[r0] = status[r0] \/ status'[r0] = TASK_NEW
    BY <1>t, <2>1
  <2> QED
    BY <1>i, <1>u, <1>v, <2>2
<1>3. ASSUME NEW r \in Requests, CheckRequest(r) PROVE Goal
  BY <1>w, <1>3 DEF CheckRequest
<1>4. ASSUME NEW r \in Requests, CheckRequestRaises(r) PROVE Goal
  BY <1>w, <1>4 DEF CheckRequestRaises
<1>5. ASSUME NEW r \in Requests, Send(r) PROVE Goal
  BY <1>w, <1>5 DEF Send
<1>6. ASSUME NEW r \in Requests, Scan(r) PROVE Goal
  BY <1>w, <1>6 DEF Scan
<1>7. ASSUME NEW r \in Requests, GetAnswer(r) PROVE Goal
  BY <1>w, <1>7 DEF GetAnswer
<1>8. ASSUME NEW r \in Requests, AfterRequest(r) PROVE Goal
  <2>1. CASE status' = status
    BY <1>w, <2>1
  <2>2. CASE status' = [status EXCEPT ![StatusRow(QueueOf(r))] = TASK_COMPLETE]
    <3>1. Tasked(r) /\ answer[r] = "failed"
      BY <1>0, <1>8 DEF HandlerOf, AfterRequest
    <3>2. StatusRow(QueueOf(r)) \in Requests /\ QueueOf(StatusRow(QueueOf(r))) = QueueOf(r)
      BY <1>0, <3>1, StatusRowFacts
    <3>3. answer'[r] = "failed" /\ at'[r] = "answered"
      BY <1>a, <1>8, <3>1 DEF AfterRequest, Goto
    <3>4. Explains(r)'
      BY <3>3 DEF Explains
    <3> DEFINE x == StatusRow(QueueOf(r))
    <3>5. x \in Requests /\ QueueOf(x) = QueueOf(r) /\ status' = [status EXCEPT ![x] = TASK_COMPLETE]
      BY <2>2, <3>2
    <3> HIDE DEF x
    <3>6. status'[r0] = status[r0] \/ r0 = x
      BY <1>t, <3>5
    <3> QED
      BY <1>i, <1>u, <3>4, <3>5, <3>6 DEF Goal
  <2> QED
    BY <1>8, <2>1, <2>2 DEF AfterRequest
<1>9. ASSUME NEW r \in Requests, Fetch(r) PROVE Goal
  BY <1>w, <1>9 DEF Fetch
<1>10. ASSUME NEW r \in Requests, NEW c \in Callers, JobExecute(r, c) PROVE Goal
  <2>1. CASE status' = status
    BY <1>w, <2>1
  <2>2. CASE status' = [status EXCEPT ![StatusRow(QueueOf(r))] = TASK_RUNNING]
    <3> DEFINE x == StatusRow(QueueOf(r))
    <3>1. status' = [status EXCEPT ![x] = TASK_RUNNING]
      BY <2>2
    <3> HIDE DEF x
    <3>2. status'[r0] = status[r0] \/ status'[r0] = TASK_RUNNING
      BY <1>t, <3>1
    <3> QED
      BY <1>i, <1>u, <1>v, <3>2
  <2> QED
    BY <1>10, <2>1, <2>2 DEF JobExecute
<1>11. ASSUME NEW r \in Requests, NEW c \in Callers, Report(r, c) PROVE Goal
  BY <1>11, <1>f, <1>p, <1>w DEF Report
<1>12. ASSUME NEW r \in Requests, NEW c \in Callers, EndInSilence(r, c) PROVE Goal
  BY <1>w, <1>12 DEF EndInSilence
<1>13. ASSUME NEW k \in Recoveries, ListNew(k) PROVE Goal
  BY <1>w, <1>13 DEF ListNew
<1>14. ASSUME NEW k \in Recoveries, RecoverNew(k) PROVE Goal
  <2>1. /\ HeadRow(k) \in Requests /\ HeadRow(k) \in rec[k].listed
        /\ status' = status \/ (SetFinished(QueueOf(HeadRow(k))) /\ ResponseOf(HeadRow(k)) # "none")
    <3>1. rec[k].pc = "new" /\ rec[k].rows # {}
      BY <1>14 DEF RecoverNew
    <3>2. HeadRow(k) = tasks[Least(rec[k].rows)] /\ Least(rec[k].rows) \in rec[k].rows /\ HeadRow(k) \in Requests
      BY <1>0, <3>1, HeadFacts
    <3>3. HeadRow(k) \in rec[k].listed
      BY <1>0, <3>1, <3>2 DEF RowsOK
    <3> QED
      BY <1>14, <3>2, <3>3 DEF RecoverNew
  <2> QED
    BY <1>f, <1>q, <1>w, <2>1
<1>15. ASSUME NEW k \in Recoveries, ListUncompleted(k) PROVE Goal
  BY <1>w, <1>15 DEF ListUncompleted
<1>16. ASSUME NEW k \in Recoveries, RecoverUncompleted(k) PROVE Goal
  <2>1. CASE status' = status
    BY <1>w, <2>1
  <2>2. CASE published' = published \cup {HeadRow(k)} /\ SetFinished(QueueOf(HeadRow(k)))
    <3>1. HeadRow(k) \in Requests
      BY <1>0, <1>16, HeadFacts DEF RecoverUncompleted
    <3> QED
      BY <1>f, <1>p, <2>2, <3>1
  <2>3. CASE LastResponds(k) /\ SetFinished(QueueOf(rec[k].request))
    <3>1. rec[k].request \in rec[k].listed /\ ResponseOf(rec[k].request) # "none"
      BY <1>0, <2>3 DEF LastResponds, RowsOK
    <3>2. rec[k].request \in Requests
      BY <1>0, <2>3 DEF LastResponds, TypeOK
    <3> QED
      BY <1>f, <1>q, <2>3, <3>1, <3>2
  <2> QED
    BY <1>16, <2>1, <2>2, <2>3 DEF RecoverUncompleted
<1>17. ASSUME NEW k \in Recoveries, JoinNew(k) PROVE Goal
  BY <1>w, <1>17 DEF JoinNew, Join
<1>18. ASSUME NEW k \in Recoveries, JoinUncompleted(k) PROVE Goal
  BY <1>w, <1>18 DEF JoinUncompleted, Join
<1>19. ASSUME NEW k \in Recoveries, RecoveryDone(k) PROVE Goal
  BY <1>w, <1>19 DEF RecoveryDone
<1>20. ASSUME NEW k \in Recoveries, AbortOnFault(k) PROVE Goal
  BY <1>w, <1>20 DEF AbortOnFault
<1>21. ASSUME CeleryDies PROVE Goal
  BY <1>w, <1>21 DEF CeleryDies, Crash
<1>22. ASSUME WebDies PROVE Goal
  BY <1>w, <1>22 DEF WebDies, Crash
<1>23. ASSUME UNCHANGED vars PROVE Goal
  BY <1>w, <1>23 DEF vars
<1>z. Goal
  BY <1>1, <1>2, <1>3, <1>4, <1>5, <1>6, <1>7, <1>8, <1>9, <1>10, <1>11, <1>12, <1>13, <1>14,
     <1>15, <1>16, <1>17, <1>18, <1>19, <1>20, <1>21, <1>22, <1>23 DEF Next, HandlerStep,
     ThreadStep, RecoveryStep
<1> QED
  BY <1>z DEF Goal

(* CompleteIsExplained, however the handlers, threads, deaths and recoveries *)
(* interleave; the explanation is one whose answer has been given.           *)
THEOREM CompleteHasAReason == Spec => []CompleteIsExplained
<1>1. Init => CompleteInv
  BY DEF Init, CompleteInv, NoRow, TASK_COMPLETE
<1>2. BaseInv /\ CompleteInv /\ [Next]_vars => CompleteInv'
  BY CompleteLemma
<1>3. CompleteInv => CompleteIsExplained
  BY DEF CompleteInv, CompleteIsExplained, Explains
<1> QED
  BY <1>1, <1>2, <1>3, BaseInvariance, PTL DEF Spec

----------------------------------------------------------------------------
(* A recovery leaves no row NEW that it has been through. *)

(* Once a queue has a row, its first row is the same for ever. *)
LEMMA FirstRowsStay ==
  ASSUME BaseInv, [Next]_vars, NEW r \in Requests, Tasked(r)
  PROVE  StatusRow(QueueOf(r))' = StatusRow(QueueOf(r)) /\ RequestRow(QueueOf(r))' = RequestRow(QueueOf(r))
<1>1. /\ TypeOK /\ requests \in Seq(Requests) /\ tasks \in Seq(Requests) /\ Stored(r)
  BY DEF BaseInv, TypeOK, HandlerOf
<1>2. /\ requests' \in Seq(Requests) /\ tasks' \in Seq(Requests)
      /\ DOMAIN requests \subseteq DOMAIN requests' /\ DOMAIN tasks \subseteq DOMAIN tasks'
      /\ \A i \in DOMAIN requests : requests'[i] = requests[i]
      /\ \A i \in DOMAIN tasks : tasks'[i] = tasks[i]
      /\ \A i \in DOMAIN requests' \ DOMAIN requests : \A j \in DOMAIN requests : j < i
      /\ \A i \in DOMAIN tasks' \ DOMAIN tasks : \A j \in DOMAIN tasks : j < i
  BY <1>1, RowsGrow
<1> DEFINE q == QueueOf(r)
<1>3. OfQueue(tasks, q) # {} /\ OfQueue(requests, q) # {}
  BY <1>1 DEF OfQueue, Tasked, Stored
<1>4. q' = q
  BY DEF QueueOf
<1> HIDE DEF q
<1>5. First(tasks', OfQueue(tasks', q)) = First(tasks, OfQueue(tasks, q))
  BY <1>1, <1>2, <1>3, FirstStays
<1>6. First(requests', OfQueue(requests', q)) = First(requests, OfQueue(requests, q))
  BY <1>1, <1>2, <1>3, FirstStays
<1>7. StatusRow(q)' = First(tasks', OfQueue(tasks', q)) /\ RequestRow(q)' = First(requests', OfQueue(requests', q))
  BY <1>4 DEF StatusRow, RequestRow, First, OfQueue, Least, QueueOf
<1>8. StatusRow(q)' = StatusRow(q) /\ RequestRow(q)' = RequestRow(q)
  BY <1>5, <1>6, <1>7 DEF StatusRow, RequestRow
<1> QED
  BY <1>8 DEF q

(* The row of a request is NEW from its insertion on, and never again. *)
LEMMA NewStaysNew ==
  ASSUME BaseInv, [Next]_vars, NEW s \in Requests, Tasked(s), status'[s] = TASK_NEW
  PROVE  status[s] = TASK_NEW
<1>i. status'[s] = TASK_NEW /\ Tasked(s)
  OBVIOUS
<1>0. TypeOK /\ (\A r \in Requests : HandlerOf(r))
  BY DEF BaseInv
<1>t. status \in [Requests -> {NoRow, TASK_NEW, TASK_RUNNING, TASK_COMPLETE}]
  BY <1>0 DEF TypeOK
<1>v. TASK_NEW # TASK_COMPLETE /\ TASK_RUNNING # TASK_NEW
  BY DEF TASK_NEW, TASK_RUNNING, TASK_COMPLETE
<1> DEFINE Goal == status[s] = TASK_NEW
<1>w. status' = status => Goal
  BY <1>i
<1>x. \A v, x : v # TASK_NEW /\ status' = [status EXCEPT ![x] = v] => Goal
  BY <1>i, <1>t
<1>f. \A q : SetFinished(q) => Goal
  <2>1. SUFFICES ASSUME NEW q, SetFinished(q) PROVE Goal
    OBVIOUS
  <2>2. status' = status \/ status' = [status EXCEPT ![RequestRow(q)] = TASK_COMPLETE]
    BY <2>1 DEF SetFinished, SetRow
  <2> QED
    BY <1>v, <1>w, <1>x, <2>2
<1> HIDE DEF Goal
<1>1. ASSUME NEW r \in Requests, InsertRequest(r) PROVE Goal
  BY <1>w, <1>1 DEF InsertRequest
<1>2. ASSUME NEW r \in Requests, InsertStatus(r) PROVE Goal
  <2>1. r # s
    BY <1>0, <1>i, <1>2 DEF InsertStatus, HandlerOf
  <2>2. status' = status \/ status' = [status EXCEPT ![r] = TASK_NEW]
    BY <1>2 DEF InsertStatus
  <2>3. status'[s] = status[s]
    BY <1>t, <2>1, <2>2
  <2> QED
    BY <1>i, <2>3 DEF Goal
<1>3. ASSUME NEW r \in Requests, CheckRequest(r) PROVE Goal
  BY <1>w, <1>3 DEF CheckRequest
<1>4. ASSUME NEW r \in Requests, CheckRequestRaises(r) PROVE Goal
  BY <1>w, <1>4 DEF CheckRequestRaises
<1>5. ASSUME NEW r \in Requests, Send(r) PROVE Goal
  BY <1>w, <1>5 DEF Send
<1>6. ASSUME NEW r \in Requests, Scan(r) PROVE Goal
  BY <1>w, <1>6 DEF Scan
<1>7. ASSUME NEW r \in Requests, GetAnswer(r) PROVE Goal
  BY <1>w, <1>7 DEF GetAnswer
<1>8. ASSUME NEW r \in Requests, AfterRequest(r) PROVE Goal
  BY <1>v, <1>w, <1>x, <1>8 DEF AfterRequest
<1>9. ASSUME NEW r \in Requests, Fetch(r) PROVE Goal
  BY <1>w, <1>9 DEF Fetch
<1>10. ASSUME NEW r \in Requests, NEW c \in Callers, JobExecute(r, c) PROVE Goal
  BY <1>v, <1>w, <1>x, <1>10 DEF JobExecute
<1>11. ASSUME NEW r \in Requests, NEW c \in Callers, Report(r, c) PROVE Goal
  BY <1>f, <1>w, <1>11 DEF Report
<1>12. ASSUME NEW r \in Requests, NEW c \in Callers, EndInSilence(r, c) PROVE Goal
  BY <1>w, <1>12 DEF EndInSilence
<1>13. ASSUME NEW k \in Recoveries, ListNew(k) PROVE Goal
  BY <1>w, <1>13 DEF ListNew
<1>14. ASSUME NEW k \in Recoveries, RecoverNew(k) PROVE Goal
  BY <1>f, <1>w, <1>14 DEF RecoverNew
<1>15. ASSUME NEW k \in Recoveries, ListUncompleted(k) PROVE Goal
  BY <1>w, <1>15 DEF ListUncompleted
<1>16. ASSUME NEW k \in Recoveries, RecoverUncompleted(k) PROVE Goal
  BY <1>f, <1>w, <1>16 DEF RecoverUncompleted
<1>17. ASSUME NEW k \in Recoveries, JoinNew(k) PROVE Goal
  BY <1>w, <1>17 DEF JoinNew, Join
<1>18. ASSUME NEW k \in Recoveries, JoinUncompleted(k) PROVE Goal
  BY <1>w, <1>18 DEF JoinUncompleted, Join
<1>19. ASSUME NEW k \in Recoveries, RecoveryDone(k) PROVE Goal
  BY <1>w, <1>19 DEF RecoveryDone
<1>20. ASSUME NEW k \in Recoveries, AbortOnFault(k) PROVE Goal
  BY <1>w, <1>20 DEF AbortOnFault
<1>21. ASSUME CeleryDies PROVE Goal
  BY <1>w, <1>21 DEF CeleryDies, Crash
<1>22. ASSUME WebDies PROVE Goal
  BY <1>w, <1>22 DEF WebDies, Crash
<1>23. ASSUME UNCHANGED vars PROVE Goal
  BY <1>w, <1>23 DEF vars
<1>z. Goal
  BY <1>1, <1>2, <1>3, <1>4, <1>5, <1>6, <1>7, <1>8, <1>9, <1>10, <1>11, <1>12, <1>13, <1>14,
     <1>15, <1>16, <1>17, <1>18, <1>19, <1>20, <1>21, <1>22, <1>23 DEF Next, HandlerStep,
     ThreadStep, RecoveryStep
<1> QED
  BY <1>z DEF Goal

LEMMA SettledStays ==
  ASSUME BaseInv, [Next]_vars, NEW r \in Requests, Tasked(r), Settled(r)
  PROVE  Settled(r)'
<1>1. status'[r] = TASK_NEW => status[r] = TASK_NEW
  BY NewStaysNew
<1>2. StatusRow(QueueOf(r))' = StatusRow(QueueOf(r)) /\ RequestRow(QueueOf(r))' = RequestRow(QueueOf(r))
  BY FirstRowsStay
<1>3. faults \subseteq faults'
  BY FaultsGrow
<1> QED
  BY <1>1, <1>2, <1>3 DEF Settled

(* To mark the row of a request settles it, whether or not it is the first  *)
(* of its queue.                                                             *)
LEMMA MarkedIsSettled ==
  ASSUME BaseInv, [Next]_vars, NEW r \in Requests, Tasked(r),
         \/ status' = [status EXCEPT ![StatusRow(QueueOf(r))] = TASK_RUNNING]
         \/ r \in faults'
         \/ SetFinished(QueueOf(r))
  PROVE  Settled(r)'
<1>0. TypeOK /\ HandlerOf(r)
  BY DEF BaseInv
<1>1. StatusRow(QueueOf(r))' = StatusRow(QueueOf(r)) /\ RequestRow(QueueOf(r))' = RequestRow(QueueOf(r))
  BY FirstRowsStay
<1>2. status \in [Requests -> {NoRow, TASK_NEW, TASK_RUNNING, TASK_COMPLETE}]
  BY <1>0 DEF TypeOK
<1>3. TASK_NEW # TASK_COMPLETE /\ TASK_RUNNING # TASK_NEW
  BY DEF TASK_NEW, TASK_RUNNING, TASK_COMPLETE
<1>4. CASE status' = [status EXCEPT ![StatusRow(QueueOf(r))] = TASK_RUNNING]
  <2>1. StatusRow(QueueOf(r)) = r => status'[r] = TASK_RUNNING
    BY <1>2, <1>4
  <2> QED
    BY <1>1, <1>3, <2>1 DEF Settled
<1>5. CASE r \in faults'
  BY <1>5 DEF Settled
<1>6. CASE SetFinished(QueueOf(r))
  <2>1. r # NoRequest /\ status[r] # NoRow
    BY <1>0, WorkerAssumption DEF HandlerOf
  <2>2. RequestRow(QueueOf(r)) = r => status' = [status EXCEPT ![r] = TASK_COMPLETE]
    BY <1>6, <2>1 DEF SetFinished, SetRow
  <2>3. RequestRow(QueueOf(r)) = r => status'[r] = TASK_COMPLETE
    BY <1>2, <2>2
  <2> QED
    BY <1>1, <1>3, <2>3 DEF Settled
<1> QED
  BY <1>4, <1>5, <1>6

(* What is known of the thread that the first loop waits for. *)
Awaited(j) ==
  \/ run[HeadRow(j)][<<j, "new">>] \in {"start", "raised"}
  \/ run[HeadRow(j)][<<j, "new">>] \in {"running", "done", "silent"} /\ Settled(HeadRow(j))

LEMMA HeadStays ==
  ASSUME BaseInv, [Next]_vars, NEW j \in Recoveries, rec[j].rows # {}, rec'[j].rows = rec[j].rows
  PROVE  HeadRow(j)' = HeadRow(j)
<1>1. TypeOK /\ RowsOK(j)
  BY DEF BaseInv
<1>2. \A i \in DOMAIN tasks : tasks'[i] = tasks[i]
  BY <1>1, RowsGrow
<1>3. HeadRow(j) = tasks[Least(rec[j].rows)] /\ Least(rec[j].rows) \in rec[j].rows
  BY <1>1, HeadFacts
<1>4. HeadRow(j)' = tasks'[Least(rec[j].rows)]
  BY DEF HeadRow, Least
<1> QED
  BY <1>1, <1>2, <1>3, <1>4 DEF RowsOK

LEMMA DyingDies ==
  ASSUME TypeOK, NEW j \in Recoveries, rec[j].pc \in {"new", "join new", "old", "join old"}, WebDies
  PROVE  rec'[j].pc = "aborted"
<1>1. rec'[j] = [rec[j] EXCEPT !.pc = "aborted"]
  BY DEF WebDies
<1>2. rec \in [Recoveries -> [pc : {"idle", "new", "join new", "old", "join old", "done", "aborted"},
                             rows : SUBSET Nat, request : Requests \cup {NoRequest},
                             listed : SUBSET Requests, late : SUBSET Requests]]
  BY DEF TypeOK
<1> QED
  BY <1>1, <1>2

LEMMA AwaitedStays ==
  ASSUME BaseInv, [Next]_vars, NEW j \in Recoveries, rec[j].pc = "join new", rec'[j] = rec[j], Awaited(j)
  PROVE  Awaited(j)'
<1>0. TypeOK /\ RowsOK(j) /\ (\A k \in Recoveries : RowsOK(k))
  BY DEF BaseInv
<1>1. rec[j].rows # {} /\ rec[j].pc = "join new" /\ rec'[j] = rec[j]
  BY <1>0 DEF RowsOK
<1>p. PICK h \in Requests : h = HeadRow(j)
  BY <1>0, <1>1, HeadFacts
<1> DEFINE c0 == <<j, "new">>
<1>2. h \in Requests /\ Tasked(h) /\ ResponseOf(h) = "none"
  BY <1>0, <1>1, <1>p, HeadFacts DEF RowsOK
<1>3. HeadRow(j)' = h
  BY <1>1, <1>p, HeadStays
<1>4. /\ c0 \in Callers /\ c0 # Celery /\ c0 # Web
      /\ \A k \in Recoveries : <<k, "again">> # c0 /\ (k # j => <<k, "new">> # c0)
  BY DEF Callers, Celery, Web
<1>5. run \in [Requests -> [Callers -> {"none", "start", "start again", "running"} \cup Ended]]
  BY <1>0 DEF TypeOK
<1>6. \A k \in Recoveries : rec[k].rows # {} => HeadRow(k) \in Requests
  BY <1>0, HeadFacts
<1>7. Settled(h) => Settled(h)'
  BY <1>2, SettledStays
<1>8. Settled(HeadRow(j))' = Settled(h)'
  BY <1>3 DEF Settled, QueueOf
<1> DEFINE Goal == \/ run'[h][c0] \in {"start", "raised"}
                   \/ run'[h][c0] \in {"running", "done", "silent"} /\ Settled(h)'
<1>9. /\ run[h][c0] \in {"start", "raised"} \/ (run[h][c0] \in {"running", "done", "silent"} /\ Settled(h))
      /\ Goal => Awaited(j)'
  BY <1>3, <1>8, <1>p DEF Awaited
<1> HIDE DEF c0
<1>u. run'[h][c0] = run[h][c0] => Goal
  BY <1>7, <1>9
<1>w. run' = run => Goal
  BY <1>u
<1>c. \A how : \A r \in Requests, c \in Callers : Call(r, c, how) /\ (r # h \/ c # c0) => Goal
  <2>1. SUFFICES ASSUME NEW how, NEW r \in Requests, NEW c \in Callers, Call(r, c, how), r # h \/ c # c0
                 PROVE  Goal
    BY Zenon
  <2>2. run'[h][c0] = run[h][c0]
    BY <1>2, <1>4, <1>5, <2>1 DEF Call
  <2> QED
    BY <1>u, <2>2
<1>d. \A how : Call(h, c0, how) => run'[h][c0] = how
  BY <1>2, <1>4, <1>5 DEF Call
<1>n1. ASSUME NEW r \in Requests, InsertRequest(r) PROVE Goal
  BY <1>w, <1>n1 DEF InsertRequest
<1>n2. ASSUME NEW r \in Requests, InsertStatus(r) PROVE Goal
  BY <1>w, <1>n2 DEF InsertStatus
<1>n3. ASSUME NEW r \in Requests, CheckRequest(r) PROVE Goal
  BY <1>w, <1>n3 DEF CheckRequest
<1>n4. ASSUME NEW r \in Requests, CheckRequestRaises(r) PROVE Goal
  BY <1>w, <1>n4 DEF CheckRequestRaises
<1>n5. ASSUME NEW r \in Requests, Send(r) PROVE Goal
  BY <1>w, <1>n5 DEF Send
<1>n6. ASSUME NEW r \in Requests, Scan(r) PROVE Goal
  BY <1>c, <1>4, <1>n6 DEF Scan, Callers
<1>n7. ASSUME NEW r \in Requests, GetAnswer(r) PROVE Goal
  BY <1>w, <1>n7 DEF GetAnswer
<1>n8. ASSUME NEW r \in Requests, AfterRequest(r) PROVE Goal
  BY <1>w, <1>n8 DEF AfterRequest
<1>n9. ASSUME NEW r \in Requests, Fetch(r) PROVE Goal
  BY <1>c, <1>4, <1>n9 DEF Fetch, Callers
<1>n10. ASSUME NEW r \in Requests, NEW c \in Callers, JobExecute(r, c) PROVE Goal
  <2>1. CASE r # h \/ c # c0
    BY <1>c, <1>n10, <2>1 DEF JobExecute
  <2>2. CASE r = h /\ c = c0
    <3>1. run[h][c0] = "start"
      BY <1>9, <1>n10, <2>2 DEF JobExecute
    <3>2. MarksRow(h, c0)
      BY <1>2, <3>1 DEF MarksRow, Async
    <3>3. CASE Call(h, c0, "raised")
      BY <1>d, <3>3
    <3>4. CASE Call(h, c0, "running")
      <4>1. Sized(h) =>
              h \in faults' \/ status' = [status EXCEPT ![StatusRow(QueueOf(h))] = TASK_RUNNING]
        BY <1>n10, <2>2, <3>2 DEF JobExecute, Fault
      <4>2. ~Sized(h) => Call(h, c0, "raised")
        BY <1>n10, <2>2 DEF JobExecute
      <4>3. Sized(h) => Settled(h)'
        BY <1>2, <4>1, MarkedIsSettled
      <4>4. run'[h][c0] = "running"
        BY <1>d, <3>4
      <4> QED
        BY <3>3, <4>2, <4>3, <4>4
    <3> QED
      BY <1>n10, <2>2, <3>3, <3>4 DEF JobExecute
  <2> QED
    BY <2>1, <2>2
<1>n11. ASSUME NEW r \in Requests, NEW c \in Callers, Report(r, c) PROVE Goal
  <2>1. CASE r # h \/ c # c0
    BY <1>c, <1>n11, <2>1 DEF Report
  <2>2. CASE r = h /\ c = c0
    <3>1. run[h][c0] = "running" /\ run'[h][c0] = "done"
      BY <1>d, <1>n11, <2>2 DEF Report
    <3> QED
      BY <1>7, <1>9, <3>1
  <2> QED
    BY <2>1, <2>2
<1>n12. ASSUME NEW r \in Requests, NEW c \in Callers, EndInSilence(r, c) PROVE Goal
  <2>1. CASE r # h \/ c # c0
    BY <1>c, <1>n12, <2>1 DEF EndInSilence
  <2>2. CASE r = h /\ c = c0
    <3>1. run[h][c0] = "running" /\ run'[h][c0] = "silent"
      BY <1>d, <1>n12, <2>2 DEF EndInSilence
    <3> QED
      BY <1>7, <1>9, <3>1
  <2> QED
    BY <2>1, <2>2
<1>n13. ASSUME NEW k \in Recoveries, ListNew(k) PROVE Goal
  BY <1>w, <1>n13 DEF ListNew
<1>n14. ASSUME NEW k \in Recoveries, RecoverNew(k) PROVE Goal
  <2>1. k # j
    BY <1>1, <1>n14 DEF RecoverNew
  <2>2. rec[k].rows # {} /\ (run' = run \/ Call(HeadRow(k), <<k, "new">>, "start"))
    BY <1>n14 DEF RecoverNew
  <2>3. <<k, "new">> \in Callers /\ HeadRow(k) \in Requests
    BY <1>6, <2>2 DEF Callers
  <2> QED
    BY <1>4, <1>c, <1>w, <2>1, <2>2, <2>3
<1>n15. ASSUME NEW k \in Recoveries, ListUncompleted(k) PROVE Goal
  BY <1>w, <1>n15 DEF ListUncompleted
<1>n16. ASSUME NEW k \in Recoveries, RecoverUncompleted(k) PROVE Goal
  <2>1. rec[k].rows # {} /\ (run' = run \/ Call(HeadRow(k), <<k, "again">>, "start again"))
    BY <1>n16 DEF RecoverUncompleted
  <2>2. <<k, "again">> \in Callers /\ HeadRow(k) \in Requests
    BY <1>6, <2>1 DEF Callers
  <2> QED
    BY <1>4, <1>c, <1>w, <2>1, <2>2
<1>n17. ASSUME NEW k \in Recoveries, JoinNew(k) PROVE Goal
  BY <1>w, <1>n17 DEF JoinNew, Join
<1>n18. ASSUME NEW k \in Recoveries, JoinUncompleted(k) PROVE Goal
  BY <1>w, <1>n18 DEF JoinUncompleted, Join
<1>n19. ASSUME NEW k \in Recoveries, RecoveryDone(k) PROVE Goal
  BY <1>w, <1>n19 DEF RecoveryDone
<1>n20. ASSUME NEW k \in Recoveries, AbortOnFault(k) PROVE Goal
  BY <1>w, <1>n20 DEF AbortOnFault
<1>n21. ASSUME CeleryDies PROVE Goal
  BY <1>2, <1>4, <1>u, <1>n21 DEF CeleryDies, Crash
<1>n22. ASSUME WebDies PROVE Goal
  BY <1>0, <1>1, <1>n22, DyingDies DEF Same
<1>n23. ASSUME UNCHANGED vars PROVE Goal
  BY <1>w, <1>n23 DEF vars
<1>z. Goal
  BY <1>n1, <1>n2, <1>n3, <1>n4, <1>n5, <1>n6, <1>n7, <1>n8, <1>n9, <1>n10, <1>n11, <1>n12,
     <1>n13, <1>n14, <1>n15, <1>n16, <1>n17, <1>n18, <1>n19, <1>n20, <1>n21, <1>n22, <1>n23 DEF
     Next, HandlerStep, ThreadStep, RecoveryStep
<1> QED
  BY <1>9, <1>z

LEMMA SettledLemma ==
  ASSUME BaseInv, [Next]_vars, NEW j \in Recoveries, SettledInv(j)
  PROVE  SettledInv(j)'
<1>0. TypeOK /\ RowsOK(j)
  BY DEF BaseInv
<1>l. rec[j].listed \subseteq Requests
  BY <1>0 DEF TypeOK
<1>s. \A r \in rec[j].listed : Settled(r) => Settled(r)'
  BY <1>0, <1>l, SettledStays DEF RowsOK
<1>t. \A i \in DOMAIN tasks : tasks'[i] = tasks[i]
  BY <1>0, RowsGrow
<1>i. /\ rec[j].pc \in {"new", "join new"} =>
           \A r \in rec[j].listed : Settled(r) \/ \E i \in rec[j].rows : tasks[i] = r
      /\ rec[j].pc = "join new" => Awaited(j)
      /\ rec[j].pc \in {"old", "join old", "done"} => \A r \in rec[j].listed : Settled(r)
  BY DEF SettledInv, Awaited
<1> DEFINE Goal == SettledInv(j)'
<1>g. ASSUME rec'[j].pc \in {"new", "join new"} =>
               \A r \in rec'[j].listed : Settled(r)' \/ \E i \in rec'[j].rows : tasks'[i] = r,
             rec'[j].pc = "join new" => Awaited(j)',
             rec'[j].pc \in {"old", "join old", "done"} => \A r \in rec'[j].listed : Settled(r)'
      PROVE  Goal
  BY <1>g DEF SettledInv, Awaited
<1> HIDE DEF Goal
<1>e. ASSUME rec'[j] = rec[j] PROVE Goal
  <2>1. rec[j].pc \in {"new", "join new"} =>
          \A r \in rec[j].listed : Settled(r)' \/ \E i \in rec[j].rows : tasks'[i] = r
    BY <1>0, <1>i, <1>s, <1>t DEF RowsOK
  <2>2. rec[j].pc = "join new" => Awaited(j)'
    BY <1>e, <1>i, AwaitedStays
  <2>3. rec[j].pc \in {"old", "join old", "done"} => \A r \in rec[j].listed : Settled(r)'
    BY <1>i, <1>s
  <2> QED
    BY <1>e, <1>g, <2>1, <2>2, <2>3
<1>a. ASSUME rec'[j].pc = "aborted" PROVE Goal
  BY <1>a, <1>g
<1>o. ASSUME rec'[j].listed = rec[j].listed, rec[j].pc \in {"old", "join old", "done"},
             rec'[j].pc \in {"old", "join old", "done"}
      PROVE  Goal
  BY <1>g, <1>i, <1>o, <1>s
<1>h. rec[j].rows # {} => HeadRow(j) \in Requests /\ Tasked(HeadRow(j)) /\ HeadRow(j) = tasks[Least(rec[j].rows)]
                           /\ \A i \in rec[j].rows : i = Least(rec[j].rows) \/ i \in OtherRows(j)
  BY <1>0, HeadFacts
<1>d. ASSUME rec[j].pc \in {"new", "join new"}, rec'[j].pc = "new", rec[j].rows # {},
             rec'[j].listed = rec[j].listed, rec'[j].rows = OtherRows(j),
             \A r \in Requests : r = HeadRow(j) => Settled(r)'
      PROVE  Goal
  <2>1. \A r \in rec[j].listed : Settled(r)' \/ \E i \in OtherRows(j) : tasks'[i] = r
    <3>1. SUFFICES ASSUME NEW r \in rec[j].listed, ~Settled(r)' PROVE \E i \in OtherRows(j) : tasks'[i] = r
      OBVIOUS
    <3>2. PICK i \in rec[j].rows : tasks[i] = r
      BY <1>d, <1>i, <1>s, <3>1
    <3>3. i # Least(rec[j].rows)
      BY <1>d, <1>h, <1>l, <3>1, <3>2
    <3>4. i \in OtherRows(j) /\ i \in DOMAIN tasks
      BY <1>0, <1>d, <1>h, <3>2, <3>3 DEF RowsOK
    <3> QED
      BY <1>t, <3>2, <3>4
  <2> QED
    BY <1>d, <1>g, <2>1
<1>k. \A k \in Recoveries : k # j /\ rec'[j] = rec[j] => Goal
  BY <1>e
<1>p. \A k \in Recoveries : \A place : (Proceed(k, place) \/ RowDone(k, place)) /\ k # j => Goal
  BY <1>0, <1>e, RecFields
<1>u. rec' = rec => Goal
  BY <1>e
<1>n1. ASSUME NEW r \in Requests, InsertRequest(r) PROVE Goal
  BY <1>u, <1>n1 DEF InsertRequest
<1>n2. ASSUME NEW r \in Requests, InsertStatus(r) PROVE Goal
  BY <1>u, <1>n2 DEF InsertStatus
<1>n3. ASSUME NEW r \in Requests, CheckRequest(r) PROVE Goal
  BY <1>u, <1>n3 DEF CheckRequest
<1>n4. ASSUME NEW r \in Requests, CheckRequestRaises(r) PROVE Goal
  BY <1>u, <1>n4 DEF CheckRequestRaises
<1>n5. ASSUME NEW r \in Requests, Send(r) PROVE Goal
  BY <1>u, <1>n5 DEF Send
<1>n6. ASSUME NEW r \in Requests, Scan(r) PROVE Goal
  BY <1>u, <1>n6 DEF Scan
<1>n7. ASSUME NEW r \in Requests, GetAnswer(r) PROVE Goal
  BY <1>u, <1>n7 DEF GetAnswer
<1>n8. ASSUME NEW r \in Requests, AfterRequest(r) PROVE Goal
  BY <1>u, <1>n8 DEF AfterRequest
<1>n9. ASSUME NEW r \in Requests, Fetch(r) PROVE Goal
  BY <1>u, <1>n9 DEF Fetch
<1>n10. ASSUME NEW r \in Requests, NEW c \in Callers, JobExecute(r, c) PROVE Goal
  BY <1>u, <1>n10 DEF JobExecute
<1>n11. ASSUME NEW r \in Requests, NEW c \in Callers, Report(r, c) PROVE Goal
  BY <1>u, <1>n11 DEF Report
<1>n12. ASSUME NEW r \in Requests, NEW c \in Callers, EndInSilence(r, c) PROVE Goal
  BY <1>u, <1>n12 DEF EndInSilence
<1>n13. ASSUME NEW k \in Recoveries, ListNew(k) PROVE Goal
  <2>1. CASE k # j
    BY <1>0, <1>k, <1>n13, <2>1, ListNewFields
  <2>2. CASE k = j
    <3>1. rec'[j].pc = "new" /\ rec'[j].rows = TasksWith(TASK_NEW) /\ rec'[j].listed = {tasks[i] : i \in TasksWith(TASK_NEW)}
      BY <1>0, <1>n13, <2>2, ListNewFields
    <3>2. tasks' = tasks
      BY <1>n13 DEF ListNew
    <3>3. \A r \in rec'[j].listed : \E i \in rec'[j].rows : tasks'[i] = r
      BY <3>1, <3>2
    <3> QED
      BY <1>g, <3>1, <3>3
  <2> QED
    BY <2>1, <2>2
<1>n14. ASSUME NEW k \in Recoveries, RecoverNew(k) PROVE Goal
  <2>1. CASE k # j
    BY <1>0, <1>k, <1>n14, <2>1, RecNewFields
  <2>2. CASE k = j
    <3>1. /\ rec[j].pc = "new" /\ rec[j].rows # {} /\ rec'[j].listed = rec[j].listed
          /\ \/ /\ SetFinished(QueueOf(HeadRow(j)))
                /\ rec'[j].pc = "new" /\ rec'[j].rows = OtherRows(j)
             \/ /\ Call(HeadRow(j), <<j, "new">>, "start")
                /\ rec'[j].pc = "join new" /\ rec'[j].rows = rec[j].rows
      BY <1>0, <1>n14, <2>2, RecNewFields
    <3>p. PICK h \in Requests : h = HeadRow(j) /\ Tasked(h)
      BY <1>h, <3>1
    <3>2. CASE SetFinished(QueueOf(HeadRow(j))) /\ rec'[j].pc = "new" /\ rec'[j].rows = OtherRows(j)
      <4>1. Settled(h)'
        BY <3>p, <3>2, MarkedIsSettled
      <4> QED
        BY <1>d, <3>1, <3>2, <3>p, <4>1
    <3>3. CASE Call(HeadRow(j), <<j, "new">>, "start") /\ rec'[j].pc = "join new" /\ rec'[j].rows = rec[j].rows
      <4>1. HeadRow(j)' = h
        BY <3>1, <3>3, <3>p, HeadStays
      <4>2. <<j, "new">> \in Callers
        BY DEF Callers
      <4>3. run \in [Requests -> [Callers -> {"none", "start", "start again", "running"} \cup Ended]]
        BY <1>0 DEF TypeOK
      <4>4. run'[h][<<j, "new">>] = "start"
        <5> DEFINE c0 == <<j, "new">>
        <5>1. run' = [run EXCEPT ![h][c0] = "start"] /\ c0 \in Callers
          BY <3>3, <3>p, <4>2 DEF Call
        <5> HIDE DEF c0
        <5>2. run'[h][c0] = "start"
          BY <4>3, <5>1
        <5> QED
          BY <5>2 DEF c0
      <4>5. Awaited(j)'
        BY <4>1, <4>4 DEF Awaited
      <4>6. \A r \in rec[j].listed : Settled(r)' \/ \E i \in rec[j].rows : tasks'[i] = r
        <5>1. rec[j].pc = "new" /\ rec[j].listed \subseteq Requests
          BY <1>0, <3>1 DEF TypeOK
        <5> QED
          BY <1>0, <1>i, <1>s, <1>t, <5>1 DEF RowsOK
      <4> QED
        BY <1>g, <3>1, <3>3, <4>5, <4>6
    <3> QED
      BY <3>1, <3>2, <3>3
  <2> QED
    BY <2>1, <2>2
<1>n15. ASSUME NEW k \in Recoveries, ListUncompleted(k) PROVE Goal
  <2>1. CASE k # j
    BY <1>0, <1>k, <1>n15, <2>1, ListUncompletedFields
  <2>2. CASE k = j
    <3>1. rec'[j].pc = "old" /\ rec'[j].listed = rec[j].listed
      BY <1>0, <1>n15, <2>2, ListUncompletedFields
    <3>2. \A r \in rec[j].listed : Settled(r)'
      BY <1>i, <1>s, <1>n15, <2>2 DEF ListUncompleted
    <3> QED
      BY <1>g, <3>1, <3>2
  <2> QED
    BY <2>1, <2>2
<1>n16. ASSUME NEW k \in Recoveries, RecoverUncompleted(k) PROVE Goal
  <2>1. rec[k].pc = "old" /\ (Proceed(k, "aborted") \/ RowDone(k, "old") \/ Proceed(k, "join old"))
    BY <1>n16 DEF RecoverUncompleted, Abort
  <2>2. CASE k # j
    BY <1>p, <2>1, <2>2
  <2>3. CASE k = j /\ Proceed(j, "aborted")
    BY <1>0, <1>a, <2>3, RecFields DEF Same
  <2>4. CASE k = j /\ RowDone(j, "old")
    <3>1. rec'[j].pc = "old" /\ rec'[j].listed = rec[j].listed
      BY <1>0, <2>4, RecFields
    <3> QED
      BY <1>o, <2>1, <2>4, <3>1
  <2>5. CASE k = j /\ Proceed(j, "join old")
    <3>1. rec'[j].pc = "join old" /\ rec'[j].listed = rec[j].listed
      BY <1>0, <2>5, RecFields DEF Same
    <3> QED
      BY <1>o, <2>1, <2>5, <3>1
  <2> QED
    BY <2>1, <2>2, <2>3, <2>4, <2>5
<1>n17. ASSUME NEW k \in Recoveries, JoinNew(k) PROVE Goal
  <2>1. PICK caller : Join(k, "join new", caller, "new") /\ caller = <<k, "new">>
    BY <1>n17 DEF JoinNew
  <2>j. Join(k, "join new", caller, "new")
    BY <2>1
  <2>2. /\ rec[k].pc = "join new" /\ rec'[k].request = rec[k].request /\ rec'[k].listed = rec[k].listed
        /\ \/ /\ run[HeadRow(k)][caller] = "raised" /\ Same(k, "aborted")
           \/ /\ run[HeadRow(k)][caller] \in Ended \ {"raised"}
              /\ rec'[k].pc = "new" /\ rec'[k].rows = OtherRows(k) /\ rec'[k].late = rec[k].late
           \/ /\ run[HeadRow(k)][caller] = "running"
              /\ rec'[k].pc = "new" /\ rec'[k].rows = OtherRows(k)
              /\ rec'[k].late = rec[k].late \cup {HeadRow(k)}
        /\ \A i \in Recoveries \ {k} : rec'[i] = rec[i]
    BY <1>0, <2>j, JoinFields, Zenon
  <2>3. CASE k # j
    BY <1>k, <2>2, <2>3
  <2>4. CASE k = j
    <3>1. rec[j].pc = "join new" /\ rec[j].rows # {} /\ rec'[j].listed = rec[j].listed /\ Awaited(j)
      BY <1>0, <1>i, <2>2, <2>4 DEF RowsOK
    <3>2. \/ Same(j, "aborted")
          \/ /\ rec'[j].pc = "new" /\ rec'[j].rows = OtherRows(j)
             /\ run[HeadRow(j)][<<j, "new">>] \notin {"start", "raised"}
      BY <2>1, <2>2, <2>4 DEF Ended
    <3>p. PICK h \in Requests : h = HeadRow(j) /\ Tasked(h)
      BY <1>h, <3>1
    <3>3. CASE Same(j, "aborted")
      BY <1>a, <3>3 DEF Same
    <3>4. CASE /\ rec'[j].pc = "new" /\ rec'[j].rows = OtherRows(j)
               /\ run[HeadRow(j)][<<j, "new">>] \notin {"start", "raised"}
      <4>1. Settled(h)
        BY <3>1, <3>4, <3>p DEF Awaited
      <4>2. Settled(h)'
        BY <3>p, <4>1, SettledStays
      <4> QED
        BY <1>d, <3>1, <3>4, <3>p, <4>2
    <3> QED
      BY <3>2, <3>3, <3>4
  <2> QED
    BY <2>3, <2>4
<1>n18. ASSUME NEW k \in Recoveries, JoinUncompleted(k) PROVE Goal
  <2>1. PICK caller : Join(k, "join old", caller, "old") /\ caller = <<k, "again">>
    BY <1>n18 DEF JoinUncompleted
  <2>j. Join(k, "join old", caller, "old")
    BY <2>1
  <2>2. /\ rec[k].pc = "join old" /\ rec'[k].request = rec[k].request /\ rec'[k].listed = rec[k].listed
        /\ \/ /\ run[HeadRow(k)][caller] = "raised" /\ Same(k, "aborted")
           \/ /\ run[HeadRow(k)][caller] \in Ended \ {"raised"}
              /\ rec'[k].pc = "old" /\ rec'[k].rows = OtherRows(k) /\ rec'[k].late = rec[k].late
           \/ /\ run[HeadRow(k)][caller] = "running"
              /\ rec'[k].pc = "old" /\ rec'[k].rows = OtherRows(k)
              /\ rec'[k].late = rec[k].late \cup {HeadRow(k)}
        /\ \A i \in Recoveries \ {k} : rec'[i] = rec[i]
    BY <1>0, <2>j, JoinFields, Zenon
  <2>3. CASE k # j
    BY <1>k, <2>2, <2>3
  <2>4. CASE k = j
    BY <1>a, <1>o, <2>2, <2>4 DEF Same
  <2> QED
    BY <2>3, <2>4
<1>n19. ASSUME NEW k \in Recoveries, RecoveryDone(k) PROVE Goal
  <2>1. rec[k].pc = "old" /\ Proceed(k, "done")
    BY <1>n19 DEF RecoveryDone
  <2>2. CASE k # j
    BY <1>p, <2>1, <2>2
  <2>3. CASE k = j
    <3>1. rec'[j].pc = "done" /\ rec'[j].listed = rec[j].listed
      BY <1>0, <2>1, <2>3, RecFields DEF Same
    <3> QED
      BY <1>o, <2>1, <2>3, <3>1
  <2> QED
    BY <2>2, <2>3
<1>n20. ASSUME NEW k \in Recoveries, AbortOnFault(k) PROVE Goal
  <2>1. Proceed(k, "aborted")
    BY <1>n20 DEF AbortOnFault, Abort
  <2>2. CASE k # j
    BY <1>p, <2>1, <2>2
  <2>3. CASE k = j
    BY <1>0, <1>a, <2>1, <2>3, RecFields DEF Same
  <2> QED
    BY <2>2, <2>3
<1>n21. ASSUME CeleryDies PROVE Goal
  BY <1>u, <1>n21 DEF CeleryDies
<1>n22. ASSUME WebDies PROVE Goal
  BY <1>0, <1>a, <1>e, <1>n22, DyingFields DEF Same
<1>n23. ASSUME UNCHANGED vars PROVE Goal
  BY <1>u, <1>n23 DEF vars
<1>z. Goal
  BY <1>n1, <1>n2, <1>n3, <1>n4, <1>n5, <1>n6, <1>n7, <1>n8, <1>n9, <1>n10, <1>n11, <1>n12,
     <1>n13, <1>n14, <1>n15, <1>n16, <1>n17, <1>n18, <1>n19, <1>n20, <1>n21, <1>n22, <1>n23 DEF
     Next, HandlerStep, ThreadStep, RecoveryStep
<1> QED
  BY <1>z DEF Goal

(* RecoveryStartsNew, whatever else goes on beside the recoveries. *)
THEOREM EveryNewIsTakenUp == Spec => []RecoveryStartsNew
<1> DEFINE SInv == \A k \in Recoveries : SettledInv(k)
<1>1. Init => SInv
  <2>1. SUFFICES ASSUME Init, NEW k \in Recoveries PROVE SettledInv(k)
    OBVIOUS
  <2>2. rec[k].pc = "idle"
    BY <2>1 DEF Init
  <2> QED
    BY <2>2 DEF SettledInv
<1>2. BaseInv /\ SInv /\ [Next]_vars => SInv'
  BY SettledLemma
<1>3. SInv => RecoveryStartsNew
  BY DEF SettledInv, Settled, RecoveryStartsNew
<1> HIDE DEF SInv
<1> QED
  BY <1>1, <1>2, <1>3, BaseInvariance, PTL DEF Spec

----------------------------------------------------------------------------
(* Two threads of a job in one recovery. *)

LEMMA ThreadLemma ==
  ASSUME BaseInv, [Next]_vars, NEW j \in Recoveries, ThreadInv(j)
  PROVE  ThreadInv(j)'
<1>0. TypeOK /\ RowsOK(j)
  BY DEF BaseInv
<1>1. SUFFICES ASSUME NEW s \in Requests
               PROVE  /\ run'[s][<<j, "new">>] \in Live =>
                           s \in rec'[j].late \/ (rec'[j].pc = "join new" /\ HeadRow(j)' = s)
                      /\ run'[s][<<j, "again">>] # "none" => rec'[j].pc \notin {"idle", "new", "join new"}
  BY DEF ThreadInv, Live
<1> DEFINE new == <<j, "new">>
           again == <<j, "again">>
           Goal == /\ run'[s][new] \in Live => s \in rec'[j].late \/ (rec'[j].pc = "join new" /\ HeadRow(j)' = s)
                   /\ run'[s][again] # "none" => rec'[j].pc \notin {"idle", "new", "join new"}
<1>i. /\ run[s][new] \in Live => s \in rec[j].late \/ (rec[j].pc = "join new" /\ HeadRow(j) = s)
      /\ run[s][again] # "none" => rec[j].pc \notin {"idle", "new", "join new"}
  BY DEF ThreadInv
<1>c. /\ new \in Callers /\ again \in Callers /\ Celery \in Callers /\ Web \in Callers /\ new # again
      /\ {new, again} \cap {Celery, Web} = {}
      /\ \A k \in Recoveries : <<k, "new">> \in Callers /\ <<k, "again">> \in Callers
      /\ \A k \in Recoveries : /\ <<k, "again">> # new /\ (k # j => <<k, "new">> # new)
                               /\ <<k, "new">> # again /\ (k # j => <<k, "again">> # again)
  BY DEF Callers, Celery, Web
<1>t. run \in [Requests -> [Callers -> {"none", "start", "start again", "running"} \cup Ended]]
  BY <1>0 DEF TypeOK
<1>v. /\ {"start", "start again", "running"} = Live
      /\ {"none", "raised", "done", "silent", "lost"} \cap Live = {}
  BY DEF Live
<1>h. /\ \A k \in Recoveries : rec[k].rows # {} => HeadRow(k) \in Requests
      /\ rec[j].pc = "join new" => rec[j].rows # {}
  BY HeadFacts DEF BaseInv, RowsOK
<1>k. rec[j].rows # {} /\ rec'[j].rows = rec[j].rows => HeadRow(j)' = HeadRow(j)
  BY HeadStays
<1>w. ASSUME NEW r \in Requests, NEW c \in Callers, NEW how, Call(r, c, how)
      PROVE  /\ run'[s][new] = IF r = s /\ c = new THEN how ELSE run[s][new]
             /\ run'[s][again] = IF r = s /\ c = again THEN how ELSE run[s][again]
  <2>1. \A x \in Callers : run'[s][x] = IF r = s /\ c = x THEN how ELSE run[s][x]
    BY <1>t, <1>w DEF Call
  <2> QED
    BY <1>c, <2>1
<1> HIDE DEF new, again, Goal
(* No thread comes to life, and the recovery stays where it is or ends. *)
<1>e. ASSUME rec'[j] = rec[j] \/ Same(j, "aborted") \/ (rec[j].pc \notin {"idle", "new", "join new"}
                                                  /\ rec'[j].pc \notin {"idle", "new", "join new"}
                                                  /\ rec[j].late \subseteq rec'[j].late),
             run'[s][new] \in Live => run[s][new] \in Live /\ (rec[j].pc = "join new" => rec'[j] = rec[j]),
             run'[s][again] # "none" => run[s][again] # "none" \/ rec'[j].pc \notin {"idle", "new", "join new"}
      PROVE  Goal
  <2>1. CASE rec'[j] = rec[j]
    BY <1>e, <1>h, <1>i, <1>k, <2>1 DEF Goal
  <2>2. CASE Same(j, "aborted")
    BY <1>e, <1>i, <2>2 DEF Goal, Same
  <2>3. CASE /\ rec[j].pc \notin {"idle", "new", "join new"} /\ rec'[j].pc \notin {"idle", "new", "join new"}
             /\ rec[j].late \subseteq rec'[j].late
    BY <1>e, <1>i, <2>3 DEF Goal
  <2> QED
    BY <1>e, <2>1, <2>2, <2>3
<1>u. rec' = rec /\ run' = run => Goal
  BY <1>e
<1>o. \A k \in Recoveries : rec'[j] = rec[j] /\ run' = run => Goal
  BY <1>e
<1>p. \A k \in Recoveries : \A place : (Proceed(k, place) \/ RowDone(k, place)) /\ k # j => rec'[j] = rec[j]
  BY <1>0, RecFields
<1>n1. ASSUME NEW r \in Requests, InsertRequest(r) PROVE Goal
  BY <1>u, <1>n1 DEF InsertRequest
<1>n2. ASSUME NEW r \in Requests, InsertStatus(r) PROVE Goal
  BY <1>u, <1>n2 DEF InsertStatus
<1>n3. ASSUME NEW r \in Requests, CheckRequest(r) PROVE Goal
  BY <1>u, <1>n3 DEF CheckRequest
<1>n4. ASSUME NEW r \in Requests, CheckRequestRaises(r) PROVE Goal
  BY <1>u, <1>n4 DEF CheckRequestRaises
<1>n5. ASSUME NEW r \in Requests, Send(r) PROVE Goal
  BY <1>u, <1>n5 DEF Send
<1>n6. ASSUME NEW r \in Requests, Scan(r) PROVE Goal
  <2>1. PICK c \in Callers : Call(r, c, "start") /\ c \in {Celery, Web}
    BY <1>c, <1>n6 DEF Scan
  <2>2. run'[s][new] = run[s][new] /\ run'[s][again] = run[s][again]
    BY <1>c, <1>w, <2>1
  <2> QED
    BY <1>e, <1>n6, <2>2 DEF Scan
<1>n7. ASSUME NEW r \in Requests, GetAnswer(r) PROVE Goal
  BY <1>u, <1>n7 DEF GetAnswer
<1>n8. ASSUME NEW r \in Requests, AfterRequest(r) PROVE Goal
  BY <1>u, <1>n8 DEF AfterRequest
<1>n9. ASSUME NEW r \in Requests, Fetch(r) PROVE Goal
  <2>1. PICK c \in Callers : Call(r, c, "start") /\ c \in {Celery, Web}
    BY <1>c, <1>n9 DEF Fetch
  <2>2. run'[s][new] = run[s][new] /\ run'[s][again] = run[s][again]
    BY <1>c, <1>w, <2>1
  <2> QED
    BY <1>e, <1>n9, <2>2 DEF Fetch
<1>n10. ASSUME NEW r \in Requests, NEW c \in Callers, JobExecute(r, c) PROVE Goal
  <2>1. run[r][c] \in Live /\ rec' = rec /\ \E how : Call(r, c, how)
    BY <1>v, <1>n10 DEF JobExecute
  <2>2. /\ run'[s][new] = run[s][new] \/ run[s][new] \in Live
        /\ run'[s][again] = run[s][again] \/ run[s][again] # "none"
    BY <1>v, <1>w, <2>1
  <2> QED
    BY <1>e, <2>1, <2>2
<1>n11. ASSUME NEW r \in Requests, NEW c \in Callers, Report(r, c) PROVE Goal
  <2>1. run[r][c] \in Live /\ rec' = rec /\ \E how : Call(r, c, how)
    BY <1>v, <1>n11 DEF Report
  <2>2. /\ run'[s][new] = run[s][new] \/ run[s][new] \in Live
        /\ run'[s][again] = run[s][again] \/ run[s][again] # "none"
    BY <1>v, <1>w, <2>1
  <2> QED
    BY <1>e, <2>1, <2>2
<1>n12. ASSUME NEW r \in Requests, NEW c \in Callers, EndInSilence(r, c) PROVE Goal
  <2>1. run[r][c] \in Live /\ rec' = rec /\ \E how : Call(r, c, how)
    BY <1>v, <1>n12 DEF EndInSilence
  <2>2. /\ run'[s][new] = run[s][new] \/ run[s][new] \in Live
        /\ run'[s][again] = run[s][again] \/ run[s][again] # "none"
    BY <1>v, <1>w, <2>1
  <2> QED
    BY <1>e, <2>1, <2>2
<1>n13. ASSUME NEW k \in Recoveries, ListNew(k) PROVE Goal
  <2>1. rec[k].pc = "idle" /\ run' = run
    BY <1>n13 DEF ListNew
  <2>2. CASE k # j
    BY <1>0, <1>o, <1>n13, <2>1, <2>2, ListNewFields
  <2>3. CASE k = j
    <3>1. rec'[j].late = rec[j].late
      BY <1>0, <1>n13, <2>3, ListNewFields
    <3> QED
      BY <1>i, <2>1, <2>3, <3>1 DEF Goal
  <2> QED
    BY <2>2, <2>3
<1>n14. ASSUME NEW k \in Recoveries, RecoverNew(k) PROVE Goal
  <2>f. /\ rec[k].pc = "new" /\ rec[k].rows # {} /\ rec'[k].late = rec[k].late
        /\ \/ /\ run' = run /\ rec'[k].pc = "new"
           \/ /\ Call(HeadRow(k), <<k, "new">>, "start")
              /\ rec'[k].pc = "join new" /\ rec'[k].rows = rec[k].rows
        /\ \A i \in Recoveries \ {k} : rec'[i] = rec[i]
    BY <1>0, <1>n14, RecNewFields
  <2>1. CASE run' = run /\ k # j
    BY <1>o, <2>f, <2>1
  <2>2. CASE Call(HeadRow(k), <<k, "new">>, "start") /\ k # j
    <3>1. run'[s][new] = run[s][new] /\ run'[s][again] = run[s][again]
      BY <1>c, <1>h, <1>w, <2>f, <2>2
    <3> QED
      BY <1>e, <2>f, <2>2, <3>1
  <2>3. CASE run' = run /\ rec'[k].pc = "new" /\ k = j
    BY <1>i, <2>f, <2>3 DEF Goal
  <2>4. CASE Call(HeadRow(k), <<k, "new">>, "start") /\ rec'[k].pc = "join new" /\ rec'[k].rows = rec[k].rows /\ k = j
    <3>1. /\ run'[s][new] = run[s][new] \/ s = HeadRow(j)
          /\ run'[s][again] = run[s][again]
      BY <1>c, <1>h, <1>w, <2>f, <2>4
    <3>2. HeadRow(j)' = HeadRow(j)
      BY <1>k, <2>f, <2>4
    <3> QED
      BY <1>i, <2>f, <2>4, <3>1, <3>2 DEF Goal
  <2> QED
    BY <2>f, <2>1, <2>2, <2>3, <2>4
<1>n15. ASSUME NEW k \in Recoveries, ListUncompleted(k) PROVE Goal
  <2>1. rec[k].pc = "new" /\ run' = run
    BY <1>n15 DEF ListUncompleted
  <2>2. CASE k # j
    BY <1>0, <1>o, <1>n15, <2>1, <2>2, ListUncompletedFields
  <2>3. CASE k = j
    <3>1. rec'[j].late = rec[j].late
      BY <1>0, <1>n15, <2>3, ListUncompletedFields
    <3> QED
      BY <1>i, <2>1, <2>3, <3>1 DEF Goal
  <2> QED
    BY <2>2, <2>3
<1>n16. ASSUME NEW k \in Recoveries, RecoverUncompleted(k) PROVE Goal
  <2>1. /\ rec[k].pc = "old" /\ rec[k].rows # {}
        /\ \/ run' = run /\ (Proceed(k, "aborted") \/ RowDone(k, "old"))
           \/ Call(HeadRow(k), <<k, "again">>, "start again") /\ Proceed(k, "join old")
    BY <1>n16 DEF RecoverUncompleted, Abort
  <2>2. CASE run' = run /\ k # j
    BY <1>e, <1>p, <2>1, <2>2
  <2>3. CASE run' = run /\ k = j
    <3>1. rec'[j].late = rec[j].late /\ rec'[j].pc \in {"aborted", "old", "join old"}
      BY <1>0, <2>1, <2>3, RecFields DEF Same
    <3> QED
      BY <1>e, <2>1, <2>3, <3>1
  <2>4. CASE Call(HeadRow(k), <<k, "again">>, "start again") /\ Proceed(k, "join old")
    <3>1. /\ run'[s][new] = run[s][new]
          /\ k # j => run'[s][again] = run[s][again]
      BY <1>c, <1>h, <1>w, <2>1, <2>4
    <3>2. k # j => rec'[j] = rec[j]
      BY <1>p, <2>4
    <3>3. k = j => rec'[j].late = rec[j].late /\ rec'[j].pc = "join old"
      BY <1>0, <2>4, RecFields DEF Same
    <3> QED
      BY <1>e, <2>1, <3>1, <3>2, <3>3
  <2> QED
    BY <2>1, <2>2, <2>3, <2>4
<1>n17. ASSUME NEW k \in Recoveries, JoinNew(k) PROVE Goal
  <2>1. PICK caller : Join(k, "join new", caller, "new") /\ caller = <<k, "new">>
    BY <1>n17 DEF JoinNew
  <2>j. Join(k, "join new", caller, "new") /\ run' = run
    BY <1>n17, <2>1 DEF JoinNew, Join
  <2>2. /\ rec[k].pc = "join new" /\ rec'[k].request = rec[k].request /\ rec'[k].listed = rec[k].listed
        /\ \/ /\ run[HeadRow(k)][caller] = "raised" /\ Same(k, "aborted")
           \/ /\ run[HeadRow(k)][caller] \in Ended \ {"raised"}
              /\ rec'[k].pc = "new" /\ rec'[k].rows = OtherRows(k) /\ rec'[k].late = rec[k].late
           \/ /\ run[HeadRow(k)][caller] = "running"
              /\ rec'[k].pc = "new" /\ rec'[k].rows = OtherRows(k)
              /\ rec'[k].late = rec[k].late \cup {HeadRow(k)}
        /\ \A i \in Recoveries \ {k} : rec'[i] = rec[i]
    BY <1>0, <2>j, JoinFields, Zenon
  <2>3. CASE k # j
    BY <1>o, <2>j, <2>2, <2>3
  <2>4. CASE k = j
    <3>1. /\ rec[j].pc = "join new" /\ rec'[j].pc \in {"new", "aborted"} /\ rec[j].late \subseteq rec'[j].late
          /\ run[HeadRow(j)][new] \in Live => HeadRow(j) \in rec'[j].late
      BY <2>1, <2>2, <2>4 DEF Same, Ended, Live, new
    <3> QED
      BY <1>i, <2>j, <3>1 DEF Goal
  <2> QED
    BY <2>3, <2>4
<1>n18. ASSUME NEW k \in Recoveries, JoinUncompleted(k) PROVE Goal
  <2>1. PICK caller : Join(k, "join old", caller, "old") /\ caller = <<k, "again">>
    BY <1>n18 DEF JoinUncompleted
  <2>j. Join(k, "join old", caller, "old") /\ run' = run
    BY <1>n18, <2>1 DEF JoinUncompleted, Join
  <2>2. /\ rec[k].pc = "join old" /\ rec'[k].request = rec[k].request /\ rec'[k].listed = rec[k].listed
        /\ \/ /\ run[HeadRow(k)][caller] = "raised" /\ Same(k, "aborted")
           \/ /\ run[HeadRow(k)][caller] \in Ended \ {"raised"}
              /\ rec'[k].pc = "old" /\ rec'[k].rows = OtherRows(k) /\ rec'[k].late = rec[k].late
           \/ /\ run[HeadRow(k)][caller] = "running"
              /\ rec'[k].pc = "old" /\ rec'[k].rows = OtherRows(k)
              /\ rec'[k].late = rec[k].late \cup {HeadRow(k)}
        /\ \A i \in Recoveries \ {k} : rec'[i] = rec[i]
    BY <1>0, <2>j, JoinFields, Zenon
  <2>3. CASE k # j
    BY <1>o, <2>j, <2>2, <2>3
  <2>4. CASE k = j
    <3>1. rec[j].late \subseteq rec'[j].late /\ rec[j].pc = "join old" /\ rec'[j].pc \in {"old", "aborted"}
      BY <2>2, <2>4 DEF Same
    <3> QED
      BY <1>e, <2>j, <3>1
  <2> QED
    BY <2>3, <2>4
<1>n19. ASSUME NEW k \in Recoveries, RecoveryDone(k) PROVE Goal
  <2>1. rec[k].pc \in {"idle", "new", "old"} /\ run' = run /\ Proceed(k, "done")
    BY <1>n19 DEF RecoveryDone
  <2>2. CASE k # j
    BY <1>e, <1>p, <2>1, <2>2
  <2>3. CASE k = j
    <3>1. Same(j, "done")
      BY <1>0, <2>1, <2>3, RecFields
    <3> QED
      BY <1>i, <2>1, <2>3, <3>1 DEF Goal, Same
  <2> QED
    BY <2>2, <2>3
<1>n20. ASSUME NEW k \in Recoveries, AbortOnFault(k) PROVE Goal
  <2>1. rec[k].pc \in {"idle", "new", "old"} /\ run' = run /\ Proceed(k, "aborted")
    BY <1>n20 DEF AbortOnFault, Abort
  <2>2. CASE k # j
    BY <1>e, <1>p, <2>1, <2>2
  <2>3. CASE k = j
    <3>1. Same(j, "aborted")
      BY <1>0, <2>1, <2>3, RecFields
    <3> QED
      BY <1>i, <2>1, <2>3, <3>1 DEF Goal, Same
  <2> QED
    BY <2>2, <2>3
<1>n21. ASSUME CeleryDies PROVE Goal
  <2>1. run'[s][new] = run[s][new] /\ run'[s][again] = run[s][again]
    BY <1>c, <1>n21 DEF CeleryDies, Crash
  <2> QED
    BY <1>e, <1>n21, <2>1 DEF CeleryDies
<1>n22. ASSUME WebDies PROVE Goal
  <2>1. /\ run'[s][new] = IF run[s][new] \notin Ended \cup {"none"} THEN "lost" ELSE run[s][new]
        /\ run'[s][again] = IF run[s][again] \notin Ended \cup {"none"} THEN "lost" ELSE run[s][again]
    BY <1>c, <1>n22 DEF WebDies, Crash
  <2>2. run'[s][new] \notin Live
    BY <2>1 DEF Live, Ended
  <2>3. run'[s][again] # "none" => run[s][again] # "none"
    BY <2>1
  <2>4. rec'[j] = rec[j] \/ Same(j, "aborted")
    BY <1>0, <1>n22, DyingFields
  <2> QED
    BY <1>e, <2>2, <2>3, <2>4
<1>n23. ASSUME UNCHANGED vars PROVE Goal
  BY <1>u, <1>n23 DEF vars
<1>z. Goal
  BY <1>n1, <1>n2, <1>n3, <1>n4, <1>n5, <1>n6, <1>n7, <1>n8, <1>n9, <1>n10, <1>n11, <1>n12,
     <1>n13, <1>n14, <1>n15, <1>n16, <1>n17, <1>n18, <1>n19, <1>n20, <1>n21, <1>n22, <1>n23 DEF
     Next, HandlerStep, ThreadStep, RecoveryStep
<1> QED
  BY <1>z DEF Goal, new, again

(* SecondThreadNeedsTimeout, for any number of recoveries and late jobs. *)
THEOREM SecondIsLate == Spec => []SecondThreadNeedsTimeout
<1> DEFINE TInv == \A k \in Recoveries : ThreadInv(k)
<1>1. Init => TInv
  <2>1. SUFFICES ASSUME Init, NEW k \in Recoveries, NEW r \in Requests
                 PROVE  run[r][<<k, "new">>] = "none" /\ run[r][<<k, "again">>] = "none"
    BY DEF ThreadInv, Live
  <2>2. <<k, "new">> \in Callers /\ <<k, "again">> \in Callers
    BY DEF Callers
  <2> QED
    BY <2>1, <2>2 DEF Init
<1>2. BaseInv /\ TInv /\ [Next]_vars => TInv'
  BY ThreadLemma
<1>3. TInv => SecondThreadNeedsTimeout
  BY DEF ThreadInv, SecondThreadNeedsTimeout, Live
<1> HIDE DEF TInv
<1> QED
  BY <1>1, <1>2, <1>3, BaseInvariance, PTL DEF Spec
=============================================================================
