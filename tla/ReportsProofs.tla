---------------------------- MODULE ReportsProofs ----------------------------
(***************************************************************************)
(* Proofs about Reports: the steps that are published for a playbook, and  *)
(* the report of a job.                                                    *)
(***************************************************************************)
EXTENDS Reports, FiniteSetTheorems, SequenceTheorems, WellFoundedInduction, TLAPS

(***************************************************************************)
(* The types.                                                              *)
(***************************************************************************)

HostNames == {""} \cup UNION {DOMAIN j.ip : j \in Jobs}
Ips == {""} \cup UNION {{j.ip[h] : h \in DOMAIN j.ip} : j \in Jobs}
Texts == HostNames \X Int
Results == [host : Ips, success : BOOLEAN, skipped : {"no", "some"}, cost : Int, msg : Texts]
Steps == [task : Int, host : HostNames, banner : BOOLEAN, body : BOOLEAN]

TypeOK ==
  /\ job \in Jobs
  /\ play \in {"start", "running", "ended"}
  /\ task \in Int /\ task >= -1 /\ (due # {} => task >= 0)
  /\ due \subseteq Hosts /\ active \subseteq Hosts
  /\ clock \in Nat /\ data \in Seq(Results) /\ errors \in Nat
  /\ failed_msg \in Texts \cup {<<>>}
  /\ banner \in Int /\ sent \in Seq(Steps) /\ lost \subseteq Int

(***************************************************************************)
(* The steps.                                                              *)
(***************************************************************************)

(* What a callback may do to the steps. *)
KeepsBanner == banner' = task /\ banner = task /\ UNCHANGED <<sent, lost>>
SendsStep(h, body) ==
  /\ banner' = task /\ UNCHANGED lost
  /\ sent' = Append(sent, [task |-> task, host |-> h, banner |-> banner # task, body |-> body])
LosesStep == banner' = task /\ UNCHANGED sent /\ Lose(task)
SendsWhole(whole_banner) ==
  /\ UNCHANGED banner
  /\ \/ /\ UNCHANGED lost
        /\ sent' = Append(sent, [task |-> Whole, host |-> "", banner |-> whole_banner, body |-> ~whole_banner])
     \/ UNCHANGED sent /\ Lose(Whole)

(* The formatter of an answer does one of three things. *)
LEMMA SendStepCases ==
  ASSUME NEW h, NEW body \in BOOLEAN, SendStep(h, body)
  PROVE  UNCHANGED <<banner, sent, lost>> \/ KeepsBanner \/ SendsStep(h, body) \/ LosesStep
<1>1. CASE job.response # "async_playbook"
  BY <1>1 DEF SendStep, steps
<1>2. CASE job.response = "async_playbook" /\ banner = task /\ ~body
  BY <1>2 DEF SendStep, PrintTaskBanner, KeepsBanner
<1>3. CASE job.response = "async_playbook" /\ ~(banner = task /\ ~body)
  <2>1. banner' = task /\ Send([task |-> task, host |-> h, banner |-> banner # task, body |-> body])
    BY <1>3 DEF SendStep, PrintTaskBanner
  <2> QED BY <2>1 DEF Send, SendsStep, LosesStep, Lose
<1> QED BY <1>1, <1>2, <1>3

LEMMA LoseStepCases == LoseStep => UNCHANGED <<banner, sent, lost>> \/ LosesStep
  BY DEF LoseStep, steps, PrintTaskBanner, LosesStep

LEMMA SendWholeCases ==
  ASSUME NEW whole_banner \in BOOLEAN, SendWhole(whole_banner)
  PROVE  SendsWhole(whole_banner)
  BY DEF SendWhole, Send, SendsWhole, Lose

(* What a callback that publishes steps leaves of their types. *)
LEMMA StepsTyped ==
  ASSUME TypeOK, NEW h \in HostNames, NEW body \in BOOLEAN, NEW whole_banner \in BOOLEAN,
         \/ UNCHANGED <<banner, sent, lost>> \/ KeepsBanner \/ SendsStep(h, body) \/ LosesStep
         \/ SendsWhole(whole_banner)
  PROVE  banner' \in Int /\ sent' \in Seq(Steps) /\ lost' \subseteq Int
<1>0. "" \in HostNames
  BY DEF HostNames
<1>1. task \in Int /\ Whole \in Int /\ "" \in HostNames
  <2>1. task \in Int
    BY DEF TypeOK
  <2>2. Whole \in Int
    BY DEF Whole
  <2> QED BY <1>0, <2>1, <2>2
<1>2. CASE SendsStep(h, body)
  <2> DEFINE step == [task |-> task, host |-> h, banner |-> banner # task, body |-> body]
  <2>1. step \in Steps
    BY <1>1 DEF Steps
  <2> HIDE DEF step, Steps
  <2>2. sent' = Append(sent, step)
    BY <1>2 DEF SendsStep, step
  <2>3. sent' \in Seq(Steps)
    BY <2>1, <2>2, AppendProperties DEF TypeOK
  <2> QED BY <1>1, <1>2, <2>3 DEF SendsStep, TypeOK
<1>3. CASE SendsWhole(whole_banner)
  <2> DEFINE step == [task |-> Whole, host |-> "", banner |-> whole_banner, body |-> ~whole_banner]
  <2>1. step \in Steps
    BY <1>1 DEF Steps
  <2>2. CASE UNCHANGED lost /\ sent' = Append(sent, step)
    <3> HIDE DEF step, Steps
    <3>1. sent' \in Seq(Steps)
      BY <2>1, <2>2, AppendProperties DEF TypeOK
    <3> QED BY <1>3, <2>2, <3>1 DEF SendsWhole, TypeOK
  <2>3. CASE UNCHANGED sent /\ Lose(Whole)
    BY <1>1, <1>3, <2>3 DEF SendsWhole, TypeOK, Lose
  <2> QED BY <1>3, <2>2, <2>3 DEF SendsWhole
<1>4. CASE LosesStep
  BY <1>1, <1>4 DEF LosesStep, Lose, TypeOK
<1>5. CASE UNCHANGED <<banner, sent, lost>> \/ KeepsBanner
  BY <1>1, <1>5 DEF KeepsBanner, TypeOK
<1> QED BY <1>2, <1>3, <1>4, <1>5

(* The result that is inserted. *)
NewResult(host, success, skipped, msg) ==
  [host |-> host, success |-> success, skipped |-> skipped, cost |-> clock + 1, msg |-> msg]

LEMMA InsertTyped ==
  ASSUME TypeOK, NEW host \in Ips, NEW success \in BOOLEAN, NEW skipped \in {"no", "some"}, NEW msg \in Texts,
         Insert(host, success, skipped, msg)
  PROVE  /\ NewResult(host, success, skipped, msg) \in Results
         /\ clock' = clock + 1 /\ clock' \in Nat
         /\ data' = Append(data, NewResult(host, success, skipped, msg))
         /\ data' \in Seq(Results)
<1> DEFINE new == NewResult(host, success, skipped, msg)
<1>1. new \in Results
  BY DEF TypeOK, Results, NewResult
<1>2. clock' = clock + 1 /\ data' = Append(data, new)
  BY DEF Insert, NewResult
<1> HIDE DEF new, Results
<1>3. data' \in Seq(Results)
  BY <1>1, <1>2, AppendProperties DEF TypeOK
<1> QED BY <1>1, <1>2, <1>3 DEF TypeOK, new

(* The hosts that answer are known, and so are their targets. *)
LEMMA HostsKnown ==
  ASSUME TypeOK, NEW h \in due
  PROVE  h \in HostNames /\ HostOf(h) \in Ips /\ Text(h) \in Texts
<1>1. h \in DOMAIN job.ip /\ job \in Jobs /\ task \in Int
  BY DEF TypeOK, Hosts
<1>2. h \in HostNames
  BY <1>1 DEF HostNames
<1>3. job.ip[h] \in Ips
  <2> DEFINE IpsOf(j) == {j.ip[x] : x \in DOMAIN j.ip}
  <2>1. job.ip[h] \in IpsOf(job)
    BY <1>1
  <2>2. IpsOf(job) \in {IpsOf(j) : j \in Jobs}
    BY <1>1
  <2> HIDE DEF IpsOf
  <2>3. job.ip[h] \in UNION {IpsOf(j) : j \in Jobs}
    BY <2>1, <2>2
  <2> QED BY <2>3 DEF Ips, IpsOf
<1> QED BY <1>1, <1>2, <1>3 DEF HostOf, Text, Texts

(* What a callback does, whatever it is about: the hosts and the steps. *)
Answered(h) ==
  /\ play = "running" /\ UNCHANGED <<job, play, task, report>>
  /\ due' = due \ {h} /\ active' \subseteq active
  /\ \/ UNCHANGED <<banner, sent, lost>> \/ KeepsBanner \/ LosesStep
     \/ \E body \in BOOLEAN : SendsStep(h, body)

(* What it does to the results. *)
Inserted(h) ==
  \/ UNCHANGED <<clock, data, errors, failed_msg, history>>
  \/ /\ \E skipped \in {"no", "some"} : Insert(HostOf(h), TRUE, skipped, Text(h))
     /\ UNCHANGED <<errors, failed_msg>>
  \/ /\ \E skipped \in {"no", "some"} : Insert(HostOf(h), FALSE, skipped, Text(h))
     /\ errors' = errors + 1 /\ failed_msg' \in {failed_msg, <<>>, Text(h)}

Callback(h) ==
  \/ FactsOk(h) \/ RunnerUnreachable(h) \/ RunnerFailedIgnored(h)
  \/ \E kind \in {"plain", "loop", "include"} : RunnerOk(h, kind)
  \/ \E kind \in {"message", "loop", "no message"} : RunnerFailed(h, kind)
  \/ \E body \in BOOLEAN : RunnerSkipped(h, body)

LEMMA CallbackCases ==
  ASSUME NEW h \in due, Callback(h)
  PROVE  Answered(h) /\ Inserted(h)
<1> USE DEF Answer, NoResult, steps
<1>1. CASE FactsOk(h)
  BY <1>1 DEF FactsOk, Answered, Inserted
<1>2. CASE RunnerUnreachable(h)
  BY <1>2 DEF RunnerUnreachable, Answered, Inserted
<1>3. CASE RunnerFailedIgnored(h)
  BY <1>3 DEF RunnerFailedIgnored, Answered, Inserted
<1>4. ASSUME NEW kind \in {"plain", "loop", "include"}, RunnerOk(h, kind) PROVE Answered(h) /\ Inserted(h)
  <2>1. CASE kind = "include"
    BY <1>4, <2>1, LoseStepCases DEF RunnerOk, Answered, Inserted
  <2>2. CASE kind # "include"
    <3>1. SendStep(h, kind # "loop")
      BY <1>4, <2>2 DEF RunnerOk
    <3>2. PICK body \in BOOLEAN : SendStep(h, body)
      BY <3>1
    <3>3. Answered(h)
      BY <1>4, <3>2, SendStepCases DEF RunnerOk, Answered
    <3> QED BY <1>4, <3>3 DEF RunnerOk, Inserted
  <2> QED BY <2>1, <2>2
<1>5. ASSUME NEW kind \in {"message", "loop", "no message"}, RunnerFailed(h, kind) PROVE Answered(h) /\ Inserted(h)
  <2>1. failed_msg' \in {failed_msg, <<>>, Text(h)}
    BY <1>5 DEF RunnerFailed
  <2> QED BY <1>5, <2>1, LoseStepCases DEF RunnerFailed, Answered, Inserted
<1>6. ASSUME NEW body \in BOOLEAN, RunnerSkipped(h, body) PROVE Answered(h) /\ Inserted(h)
  BY <1>6, SendStepCases DEF RunnerSkipped, Answered, Inserted
<1> QED BY <1>1, <1>2, <1>3, <1>4, <1>5, <1>6 DEF Callback

(* The steps of the specification, by what they are: a callback of a host,   *)
(* the play as a whole, or nothing.                                          *)
LEMMA NextCases ==
  [Next]_vars <=>
    \/ \E h \in due : Callback(h)
    \/ PlayStart \/ NoHostsMatched \/ TaskStart \/ PlaybookStats \/ Ended \/ UNCHANGED vars
  BY DEF Next, Callback

LEMMA TypeInit == Init => TypeOK
<1> SUFFICES ASSUME Init PROVE TypeOK
  OBVIOUS
<1>1. data \in Seq(Results) /\ sent \in Seq(Steps)
  BY EmptySeq DEF Init
<1>2. task \in {-1, 0}
  BY DEF Init, GatherFacts
<1> QED BY <1>1, <1>2 DEF Init, TypeOK, NoTask

LEMMA CallbackTyped ==
  ASSUME TypeOK, NEW h \in due, Callback(h)
  PROVE  TypeOK'
<1>1. Answered(h) /\ Inserted(h)
  BY CallbackCases
<1>2. h \in HostNames /\ HostOf(h) \in Ips /\ Text(h) \in Texts
  BY HostsKnown
<1>3. banner' \in Int /\ sent' \in Seq(Steps) /\ lost' \subseteq Int
  BY <1>1, <1>2, StepsTyped DEF Answered
<1>4. clock' \in Nat /\ data' \in Seq(Results)
  BY <1>1, <1>2, InsertTyped DEF Inserted, TypeOK
<1>5. errors' \in Nat /\ failed_msg' \in Texts \cup {<<>>}
  <2>1. errors \in Nat /\ failed_msg \in Texts \cup {<<>>}
    BY DEF TypeOK
  <2>2. errors' \in {errors, errors + 1} /\ failed_msg' \in {failed_msg, <<>>, Text(h)}
    BY <1>1 DEF Inserted
  <2> HIDE DEF Texts
  <2> QED BY <1>2, <2>1, <2>2
<1>6. UNCHANGED <<job, play, task>> /\ due' \subseteq due /\ active' \subseteq active
  BY <1>1 DEF Answered
<1> HIDE DEF Results, Steps, Texts, Ips, HostNames
<1> QED BY <1>3, <1>4, <1>5, <1>6 DEF TypeOK, Hosts

LEMMA TypeNext == TypeOK /\ [Next]_vars => TypeOK'
<1> SUFFICES ASSUME TypeOK, [Next]_vars PROVE TypeOK'
  OBVIOUS
<1>0. "" \in HostNames /\ "" \in Ips /\ Text("") \in Texts
  BY DEF HostNames, Ips, Texts, Text, TypeOK
<1> USE DEF results, steps, history
<1>1. ASSUME NEW h \in due, Callback(h) PROVE TypeOK'
  BY <1>1, CallbackTyped
<1>2. CASE PlayStart
  <2>1. UNCHANGED <<banner, sent, lost>> \/ SendsWhole(TRUE)
    BY <1>2, SendWholeCases DEF PlayStart
  <2>2. banner' \in Int /\ sent' \in Seq(Steps) /\ lost' \subseteq Int
    BY <1>0, <2>1, StepsTyped
  <2> QED BY <1>2, <2>2 DEF PlayStart, TypeOK, Hosts
<1>3. CASE NoHostsMatched
  <2>1. clock' \in Nat /\ data' \in Seq(Results)
    BY <1>0, <1>3, InsertTyped DEF NoHostsMatched
  <2>2. errors' = errors + 1 /\ active' = {} /\ UNCHANGED <<job, play, task, due, failed_msg, banner, sent, lost>>
    BY <1>3 DEF NoHostsMatched
  <2> QED BY <2>1, <2>2 DEF TypeOK, Hosts
<1>4. CASE TaskStart
  BY <1>4 DEF TaskStart, TypeOK, Hosts
<1>5. CASE PlaybookStats
  <2>1. UNCHANGED <<banner, sent, lost>> \/ SendsWhole(FALSE)
    BY <1>5, SendWholeCases DEF PlaybookStats
  <2>2. banner' \in Int /\ sent' \in Seq(Steps) /\ lost' \subseteq Int
    BY <1>0, <2>1, StepsTyped
  <2> QED BY <1>5, <2>2 DEF PlaybookStats, TypeOK, Hosts
<1>6. CASE Ended \/ UNCHANGED vars
  BY <1>6 DEF Ended, vars, TypeOK, Hosts
<1> QED BY NextCases, <1>1, <1>2, <1>3, <1>4, <1>5, <1>6

(* TypeOK, the types of the callbacks' state, holds in every reachable state. *)
THEOREM TypesHold == Spec => []TypeOK
  BY TypeInit, TypeNext, PTL DEF Spec

(***************************************************************************)
(* Banners.                                                                *)
(***************************************************************************)

StepsOf(s, t) == {i \in DOMAIN s : s[i].task = t}

(* The remembered banner b, the task t, the published steps s and the tasks l *)
(* whose first steps were lost: no task to come has a step, and the banner of *)
(* this one is remembered when a step of it was published or lost.            *)
Remembered(b, t, s, l) ==
  /\ b <= t
  /\ \A i \in DOMAIN s : s[i].task <= t
  /\ \A x \in l : x <= t
  /\ t >= 0 => (b = t <=> t \in l \/ StepsOf(s, t) # {})

First(s, i) == \A j \in StepsOf(s, s[i].task) : i <= j

Published(s, l) ==
  \A i \in DOMAIN s : s[i].task # Whole => (s[i].banner <=> s[i].task \notin l /\ First(s, i))

Banners(b, t, s, l) == Remembered(b, t, s, l) /\ Published(s, l)

(* The next task. *)
LEMMA NextTaskBanners ==
  ASSUME NEW t \in Int, t >= -1, NEW b \in Int, NEW s \in Seq(Steps), NEW l \in SUBSET Int, Banners(b, t, s, l)
  PROVE  Banners(b, t + 1, s, l)
<1>1. \A i \in DOMAIN s : s[i].task \in Int
  <2> DEFINE n == Len(s)
  <2>1. n \in Nat /\ DOMAIN s = 1..n /\ \A i \in 1..n : s[i] \in Steps
    <3> HIDE DEF Steps
    <3> QED BY LenProperties
  <2> QED BY <2>1 DEF Steps
<1>2. b < t + 1 /\ t + 1 \notin l /\ StepsOf(s, t + 1) = {}
  BY <1>1 DEF Banners, Remembered, StepsOf
<1>3. Remembered(b, t + 1, s, l)
  BY <1>1, <1>2 DEF Banners, Remembered
<1> QED BY <1>3 DEF Banners

(* A step of the task, or of the whole play, is lost. *)
LEMMA LostBanners ==
  ASSUME NEW t \in Int, t >= -1, NEW b \in Int, NEW s \in Seq(Steps), NEW l \in SUBSET Int, Banners(b, t, s, l)
  PROVE  /\ t >= 0 => Banners(t, t, s, IF StepsOf(s, t) = {} THEN l \cup {t} ELSE l)
         /\ Banners(b, t, s, IF StepsOf(s, Whole) = {} THEN l \cup {Whole} ELSE l)
<1>1. ASSUME NEW x \in Int, x <= t, StepsOf(s, x) = {} PROVE Published(s, l \cup {x})
  <2>1. \A i \in DOMAIN s : s[i].task # x
    BY <1>1 DEF StepsOf
  <2> QED BY <2>1 DEF Banners, Published
<1>2. ASSUME t >= 0 PROVE Banners(t, t, s, IF StepsOf(s, t) = {} THEN l \cup {t} ELSE l)
  <2>1. Remembered(t, t, s, IF StepsOf(s, t) = {} THEN l \cup {t} ELSE l)
    BY <1>2 DEF Banners, Remembered
  <2> QED BY <1>1, <2>1 DEF Banners
<1>3. Banners(b, t, s, IF StepsOf(s, Whole) = {} THEN l \cup {Whole} ELSE l)
  <2>0. Whole \in Int /\ Whole <= t /\ (t >= 0 => Whole # t)
    BY DEF Whole
  <2> HIDE DEF Whole
  <2>1. Remembered(b, t, s, IF StepsOf(s, Whole) = {} THEN l \cup {Whole} ELSE l)
    BY <2>0 DEF Banners, Remembered
  <2> QED BY <1>1, <2>0, <2>1 DEF Banners
<1> QED BY <1>2, <1>3

(* A step of the task, or of the whole play, is published. *)
LEMMA AppendedSteps ==
  ASSUME NEW s \in Seq(Steps), NEW step \in Steps
  PROVE  LET n == Len(s) + 1 IN
         /\ n \in Nat /\ n > 0 /\ DOMAIN s = 1..(n - 1) /\ DOMAIN Append(s, step) = 1..n
         /\ \A i \in 1..(n - 1) : Append(s, step)[i] = s[i]
         /\ Append(s, step)[n] = step
         /\ \A i \in 1..(n - 1) : s[i].task \in Int
         /\ StepsOf(Append(s, step), step.task) = StepsOf(s, step.task) \cup {n}
         /\ \A t : t # step.task => StepsOf(Append(s, step), t) = StepsOf(s, t)
<1> DEFINE n == Len(s) + 1
           new == Append(s, step)
<1>1. /\ n \in Nat /\ n > 0 /\ DOMAIN s = 1..(n - 1) /\ DOMAIN new = 1..n
      /\ \A i \in 1..(n - 1) : new[i] = s[i] /\ s[i] \in Steps
      /\ new[n] = step
  <2> HIDE DEF Steps
  <2> QED BY AppendProperties, LenProperties
<1>2. \A i \in 1..(n - 1) : s[i].task \in Int
  BY <1>1 DEF Steps
<1> HIDE DEF n, new
<1>3. \A t : StepsOf(new, t) = StepsOf(s, t) \cup {i \in {n} : step.task = t}
  BY <1>1 DEF StepsOf
<1>4. StepsOf(new, step.task) = StepsOf(s, step.task) \cup {n} /\ \A t : t # step.task => StepsOf(new, t) = StepsOf(s, t)
  BY <1>3
<1> QED BY <1>1, <1>2, <1>4 DEF n, new

LEMMA PublishedBanners ==
  ASSUME NEW t \in Int, t >= -1, NEW b \in Int, NEW s \in Seq(Steps), NEW l \in SUBSET Int, Banners(b, t, s, l),
         NEW step \in Steps
  PROVE  /\ t >= 0 /\ step.task = t /\ (step.banner <=> b # t) => Banners(t, t, Append(s, step), l)
         /\ step.task = Whole => Banners(b, t, Append(s, step), l)
<1> DEFINE n == Len(s) + 1
           new == Append(s, step)
<1>1. /\ n \in Nat /\ n > 0 /\ DOMAIN s = 1..(n - 1) /\ DOMAIN new = 1..n
      /\ \A i \in 1..(n - 1) : new[i] = s[i]
      /\ new[n] = step
      /\ \A i \in 1..(n - 1) : s[i].task \in Int
      /\ StepsOf(new, step.task) = StepsOf(s, step.task) \cup {n}
      /\ \A x : x # step.task => StepsOf(new, x) = StepsOf(s, x)
  BY AppendedSteps
<1> HIDE DEF n, new
<1>2. \A i \in 1..(n - 1) : First(new, i) <=> First(s, i)
  <2> SUFFICES ASSUME NEW i \in 1..(n - 1) PROVE First(new, i) <=> First(s, i)
    OBVIOUS
  <2>1. new[i].task = s[i].task /\ i <= n
    BY <1>1
  <2>2. StepsOf(new, s[i].task) = StepsOf(s, s[i].task) \/ StepsOf(new, s[i].task) = StepsOf(s, s[i].task) \cup {n}
    BY <1>1
  <2> QED BY <2>1, <2>2 DEF First
<1>3. First(new, n) <=> StepsOf(s, step.task) = {}
  <2>1. \A j \in StepsOf(s, step.task) : j \in Nat /\ j < n
    BY <1>1 DEF StepsOf
  <2> QED BY <1>1, <2>1 DEF First
<1>4. \A i \in 1..n : i = n \/ i \in 1..(n - 1)
  BY <1>1
<1>5. \A i \in 1..(n - 1) : new[i].task # Whole => (new[i].banner <=> new[i].task \notin l /\ First(new, i))
  BY <1>1, <1>2 DEF Banners, Published
<1>6. ASSUME t >= 0, step.task = t, step.banner <=> b # t PROVE Banners(t, t, new, l)
  <2>1. Remembered(t, t, new, l)
    <3>1. \A i \in DOMAIN new : new[i].task <= t
      BY <1>1, <1>4, <1>6 DEF Banners, Remembered
    <3>2. StepsOf(new, t) # {}
      BY <1>1, <1>6
    <3> QED BY <3>1, <3>2 DEF Banners, Remembered
  <2>2. new[n].banner <=> new[n].task \notin l /\ First(new, n)
    BY <1>1, <1>3, <1>6 DEF Banners, Remembered
  <2>3. Published(new, l)
    BY <1>1, <1>4, <1>5, <2>2 DEF Published
  <2> QED BY <2>1, <2>3 DEF Banners
<1>7. ASSUME step.task = Whole PROVE Banners(b, t, new, l)
  <2>0. Whole \in Int /\ Whole <= t /\ (t >= 0 => Whole # t)
    BY DEF Whole
  <2>1. Remembered(b, t, new, l)
    <3>1. \A i \in DOMAIN new : new[i].task <= t
      BY <1>1, <1>4, <1>7, <2>0 DEF Banners, Remembered
    <3> QED BY <1>1, <1>7, <2>0, <3>1 DEF Banners, Remembered
  <2>2. Published(new, l)
    BY <1>1, <1>4, <1>5, <1>7 DEF Published
  <2> QED BY <2>1, <2>2 DEF Banners
<1> QED BY <1>6, <1>7 DEF new

BannerInv == Banners(banner, task, sent, lost)

LEMMA WholeKeepsBanners ==
  ASSUME TypeOK, BannerInv, UNCHANGED task, NEW whole_banner \in BOOLEAN, SendsWhole(whole_banner)
  PROVE  BannerInv'
<1>1. task \in Int /\ task >= -1 /\ banner \in Int /\ sent \in Seq(Steps) /\ lost \in SUBSET Int
  BY DEF TypeOK
<1>2. CASE UNCHANGED sent /\ Lose(Whole)
  <2>1. lost' = (IF StepsOf(sent, Whole) = {} THEN lost \cup {Whole} ELSE lost) /\ UNCHANGED <<banner, sent>>
    BY <1>2 DEF Lose, SentOf, StepsOf, SendsWhole
  <2> QED BY <1>1, <2>1, LostBanners DEF BannerInv
<1>3. CASE ~(UNCHANGED sent /\ Lose(Whole))
  <2> DEFINE step == [task |-> Whole, host |-> "", banner |-> whole_banner, body |-> ~whole_banner]
  <2>1. sent' = Append(sent, step) /\ UNCHANGED <<lost, banner>>
    BY <1>3 DEF SendsWhole
  <2>2. step.task = Whole
    OBVIOUS
  <2>3. step \in Steps
    <3>1. "" \in HostNames
      BY DEF HostNames
    <3>2. Whole \in Int
      BY DEF Whole
    <3> QED BY <3>1, <3>2 DEF Steps
  <2> HIDE DEF step
  <2> QED BY <1>1, <2>1, <2>2, <2>3, PublishedBanners DEF BannerInv
<1> QED BY <1>2, <1>3

LEMMA CallbackKeepsBanners ==
  ASSUME TypeOK, BannerInv, NEW h \in due, Answered(h)
  PROVE  BannerInv'
<1>1. /\ task \in Int /\ task >= -1 /\ task >= 0 /\ banner \in Int /\ sent \in Seq(Steps) /\ lost \in SUBSET Int
      /\ task' = task
  BY DEF TypeOK, Answered
<1>2. CASE UNCHANGED <<banner, sent, lost>> \/ KeepsBanner
  BY <1>1, <1>2 DEF KeepsBanner, BannerInv
<1>3. CASE LosesStep
  <2>1. lost' = (IF StepsOf(sent, task) = {} THEN lost \cup {task} ELSE lost) /\ banner' = task /\ sent' = sent
    BY <1>3 DEF Lose, SentOf, StepsOf, LosesStep
  <2> QED BY <1>1, <2>1, LostBanners DEF BannerInv
<1>4. ASSUME NEW body \in BOOLEAN, SendsStep(h, body) PROVE BannerInv'
  <2> DEFINE step == [task |-> task, host |-> h, banner |-> banner # task, body |-> body]
  <2>1. sent' = Append(sent, step) /\ UNCHANGED lost /\ banner' = task
    BY <1>4 DEF SendsStep
  <2>2. step.task = task /\ (step.banner <=> banner # task)
    OBVIOUS
  <2>3. step \in Steps
    BY <1>1, HostsKnown DEF Steps
  <2> HIDE DEF step
  <2> QED BY <1>1, <2>1, <2>2, <2>3, PublishedBanners DEF BannerInv
<1> QED BY <1>2, <1>3, <1>4 DEF Answered

LEMMA BannersNext == TypeOK /\ BannerInv /\ [Next]_vars => BannerInv'
<1> SUFFICES ASSUME TypeOK, BannerInv, [Next]_vars PROVE BannerInv'
  OBVIOUS
<1> USE DEF results, steps, history
<1>1. ASSUME NEW h \in due, Callback(h) PROVE BannerInv'
  BY <1>1, CallbackCases, CallbackKeepsBanners
<1>2. ASSUME UNCHANGED <<task, banner, sent, lost>> PROVE BannerInv'
  BY <1>2 DEF BannerInv
<1>3. CASE PlayStart
  <2>1. UNCHANGED <<task, banner, sent, lost>> \/ (UNCHANGED task /\ SendsWhole(TRUE))
    BY <1>3, SendWholeCases DEF PlayStart
  <2> QED BY <1>2, <2>1, WholeKeepsBanners
<1>4. CASE PlaybookStats
  <2>1. UNCHANGED <<task, banner, sent, lost>> \/ (UNCHANGED task /\ SendsWhole(FALSE))
    BY <1>4, SendWholeCases DEF PlaybookStats
  <2> QED BY <1>2, <2>1, WholeKeepsBanners
<1>5. CASE TaskStart
  <2>1. task' = task + 1 /\ UNCHANGED <<banner, sent, lost>>
    BY <1>5 DEF TaskStart
  <2>2. task \in Int /\ task >= -1 /\ banner \in Int /\ sent \in Seq(Steps) /\ lost \in SUBSET Int
    BY DEF TypeOK
  <2> QED BY <2>1, <2>2, NextTaskBanners DEF BannerInv
<1>6. CASE NoHostsMatched \/ Ended \/ UNCHANGED vars
  BY <1>2, <1>6 DEF NoHostsMatched, Ended, vars
<1> QED BY NextCases, <1>1, <1>3, <1>4, <1>5, <1>6

(* The banner of a task is published with its first step and with no other,  *)
(* unless that step was lost.                                                *)
THEOREM BannersComeFirst == Spec => []BannerUnlessLost
<1>1. Init => BannerInv
  <2> SUFFICES ASSUME Init PROVE BannerInv
    OBVIOUS
  <2>1. sent = <<>> /\ lost = {} /\ banner = -2 /\ task \in {-1, 0}
    BY DEF Init, GatherFacts, NoTask
  <2>2. DOMAIN sent = {}
    BY <2>1
  <2> QED BY <2>1, <2>2 DEF BannerInv, Banners, Remembered, Published, StepsOf
<1>2. BannerInv => BannerUnlessLost
  BY DEF BannerInv, Banners, Published, First, StepsOf, BannerUnlessLost, SentOf
<1> QED BY <1>1, <1>2, TypesHold, BannersNext, PTL DEF Spec

(***************************************************************************)
(* Indices and their order.                                                *)
(***************************************************************************)

LEMMA LeastNat ==
  ASSUME NEW S \in SUBSET Nat, S # {}
  PROVE  \E n \in S : \A m \in S : n <= m
<1> DEFINE R == OpToRel(<, Nat)
<1>1. IsWellFoundedOn(R, Nat)
  BY NatLessThanWellFounded
<1>2. \A m, n \in Nat : m < n => <<m, n>> \in R
  BY DEF OpToRel
<1> HIDE DEF R
<1>3. PICK n \in S : \A m \in S : <<m, n>> \notin R
  BY <1>1, WFMin
<1>4. \A m \in S : ~(m < n)
  BY <1>2, <1>3
<1> QED BY <1>4

LEMMA MinOfIndices ==
  ASSUME NEW S \in SUBSET Nat, S # {}
  PROVE  Min(S) \in S /\ \A i \in S : Min(S) <= i
  BY LeastNat DEF Min

LEMMA MaxOfIndices ==
  ASSUME NEW n \in Nat, NEW S \in SUBSET (1..n), S # {}
  PROVE  Max(S) \in S /\ \A i \in S : i <= Max(S)
<1> DEFINE Bounds == {m \in Nat : \A i \in S : i <= m}
<1>1. n \in Bounds
  OBVIOUS
<1>2. PICK m \in Bounds : \A other \in Bounds : m <= other
  BY <1>1, LeastNat
<1>3. m \in S
  <2> SUFFICES ASSUME m \notin S PROVE FALSE
    OBVIOUS
  <2>1. \A i \in S : i <= m - 1 /\ i >= 1
    OBVIOUS
  <2>2. m - 1 \in Nat
    <3>1. PICK i : i \in S
      OBVIOUS
    <3> QED BY <2>1, <3>1
  <2>3. m - 1 \in Bounds
    BY <2>1, <2>2
  <2> QED BY <1>2, <2>3
<1>4. \A i \in S : m >= i
  OBVIOUS
<1> HIDE DEF Bounds
<1>5. \E x \in S : \A y \in S : x >= y
  BY <1>3, <1>4
<1>6. Max(S) \in S /\ \A i \in S : Max(S) >= i
  BY <1>5 DEF Max
<1> QED BY <1>6

(* Of the elements of a finite set that are ordered by R, the k-th is at k. *)
LEMMA InOrderProperties ==
  ASSUME NEW D, IsFiniteSet(D), NEW R,
         \A i, j \in D : <<i, j>> \in R \/ <<j, i>> \in R,
         \A i, j \in D : <<i, j>> \in R /\ <<j, i>> \in R => i = j,
         \A i, j, k \in D : <<i, j>> \in R /\ <<j, k>> \in R => <<i, k>> \in R
  PROVE  LET place == [i \in D |-> Cardinality({j \in D : <<j, i>> \in R})] IN
         /\ Cardinality(D) \in Nat
         /\ InOrder(place) \in [1..Cardinality(D) -> D]
         /\ \A k \in 1..Cardinality(D) : place[InOrder(place)[k]] = k
         /\ \A i \in D : place[i] \in 1..Cardinality(D) /\ InOrder(place)[place[i]] = i
         /\ \A i, j \in D : <<i, j>> \in R <=> place[i] <= place[j]
<1> DEFINE place == [i \in D |-> Cardinality({j \in D : <<j, i>> \in R})]
           Upto(i) == {j \in D : <<j, i>> \in R}
           n == Cardinality(D)
<1>1. n \in Nat
  BY FS_CardinalityType
<1>2. \A i \in D : IsFiniteSet(Upto(i)) /\ Cardinality(Upto(i)) \in Nat /\ Cardinality(Upto(i)) <= n
  BY FS_Subset, FS_CardinalityType
<1>3. \A i \in D : place[i] = Cardinality(Upto(i))
  OBVIOUS
<1>4. \A i, j \in D : <<i, j>> \in R /\ i # j => place[i] < place[j]
  <2> SUFFICES ASSUME NEW i \in D, NEW j \in D, <<i, j>> \in R, i # j PROVE place[i] < place[j]
    OBVIOUS
  <2>1. Upto(i) \in SUBSET Upto(j) /\ j \in Upto(j) /\ j \notin Upto(i)
    OBVIOUS
  <2>2. Cardinality(Upto(i)) <= Cardinality(Upto(j)) /\ Cardinality(Upto(i)) # Cardinality(Upto(j))
    <3>1. IsFiniteSet(Upto(j)) /\ Upto(i) # Upto(j)
      BY <1>2, <2>1
    <3> HIDE DEF Upto
    <3> QED BY <2>1, <3>1, FS_Subset
  <2>3. \A a, b \in Nat : a <= b /\ a # b => a < b
    OBVIOUS
  <2> HIDE DEF Upto
  <2> QED BY <1>2, <1>3, <2>2, <2>3
<1>5. \A i \in D : place[i] \in 1..n
  <2> SUFFICES ASSUME NEW i \in D PROVE place[i] \in 1..n
    OBVIOUS
  <2>1. Upto(i) # {}
    <3>1. i \in Upto(i)
      OBVIOUS
    <3> QED BY <3>1
  <2>2. Cardinality(Upto(i)) # 0
    <3> HIDE DEF Upto
    <3> QED BY <1>2, <2>1, FS_EmptySet
  <2> QED BY <1>1, <1>2, <1>3, <2>2
<1>6. place \in [D -> 1..n] /\ DOMAIN place = D
  BY <1>5
<1>7. IsFiniteSet(1..n) /\ Cardinality(1..n) = n
  BY <1>1, FS_Interval
<1> HIDE DEF place, Upto
<1>8. InOrder(place) = [k \in 1..n |-> CHOOSE i \in D : place[i] = k]
  BY <1>6 DEF InOrder
<1>9. \A i \in D : place[i] \in 1..n /\ place[i] \in Int
  BY <1>1, <1>5
<1> HIDE DEF n
<1>10. \A i, j \in D : i # j => (<<i, j>> \in R /\ place[i] < place[j]) \/ (<<j, i>> \in R /\ place[j] < place[i])
  BY <1>4
<1>11. \A a, b \in Int : a < b => a # b /\ ~(b <= a)
  OBVIOUS
<1>12. \A i, j \in D : place[i] = place[j] => i = j
  BY <1>9, <1>10, <1>11
<1>13. \A i, j \in D : <<i, j>> \in R <=> place[i] <= place[j]
  <2> SUFFICES ASSUME NEW i \in D, NEW j \in D PROVE <<i, j>> \in R <=> place[i] <= place[j]
    OBVIOUS
  <2>1. CASE i = j
    <3>1. \A a \in Int : a <= a
      OBVIOUS
    <3> QED BY <1>9, <2>1, <3>1
  <2>2. CASE i # j
    <3>1. \A a, b \in Int : a < b => a <= b
      OBVIOUS
    <3> QED BY <1>9, <1>10, <1>11, <2>2, <3>1
  <2> QED BY <2>1, <2>2
<1>14. place \in Injection(D, 1..n)
  BY <1>6, <1>12 DEF Injection, IsInjective
<1>15. place \in Surjection(D, 1..n)
  <2>1. Cardinality(D) = Cardinality(1..n)
    BY <1>7 DEF n
  <2> QED BY <1>7, <1>14, <2>1, FS_Injection
<1>16. \A k \in 1..n : \E i \in D : place[i] = k
  BY <1>15 DEF Surjection
<1>17. \A k \in 1..n : InOrder(place)[k] \in D /\ place[InOrder(place)[k]] = k
  BY <1>8, <1>16
<1>18. InOrder(place) \in [1..n -> D]
  BY <1>8, <1>17
<1>19. \A i \in D : InOrder(place)[place[i]] = i
  BY <1>9, <1>12, <1>17
<1> QED BY <1>1, <1>9, <1>13, <1>17, <1>18, <1>19 DEF n, place


(***************************************************************************)
(* The results, what is recorded of them, and the report.                  *)
(***************************************************************************)

LEMMA MinIs ==
  ASSUME NEW S \in SUBSET Nat, NEW m \in S, \A i \in S : m <= i
  PROVE  Min(S) = m
<1>1. Min(S) \in S /\ Min(S) <= m /\ m <= Min(S)
  BY MinOfIndices
<1>2. Min(S) \in Nat /\ m \in Nat
  BY <1>1
<1>3. \A a, b \in Nat : a <= b /\ b <= a => a = b
  OBVIOUS
<1> QED BY <1>1, <1>2, <1>3

LEMMA MaxIs ==
  ASSUME NEW n \in Nat, NEW S \in SUBSET (1..n), NEW m \in S, \A i \in S : i <= m
  PROVE  Max(S) = m
<1>1. Max(S) \in S /\ Max(S) <= m /\ m <= Max(S)
  BY MaxOfIndices
<1>2. Max(S) \in Nat /\ m \in Nat
  <2>1. \A i \in 1..n : i \in Nat
    OBVIOUS
  <2> QED BY <1>1, <2>1
<1>3. \A a, b \in Nat : a <= b /\ b <= a => a = b
  OBVIOUS
<1> QED BY <1>1, <1>2, <1>3

HostsIn(d) == {d[i].host : i \in DOMAIN d}

Fields(r) == r = [host |-> r.host, success |-> r.success, skipped |-> r.skipped, cost |-> r.cost, msg |-> r.msg]

(* No callback inserts a result that is marked as skipped. *)
LEMMA ResultFields ==
  ASSUME NEW d \in Seq(Results)
  PROVE  /\ Len(d) \in Nat /\ DOMAIN d = 1..Len(d)
         /\ \A i \in DOMAIN d : /\ d[i] \in Results /\ Fields(d[i]) /\ ~IsSkipped(d[i]) /\ d[i].skipped # "yes"
                                /\ d[i].success \in BOOLEAN /\ d[i].cost \in Int
<1> DEFINE n == Len(d)
<1>1. n \in Nat /\ DOMAIN d = 1..n /\ \A i \in 1..n : d[i] \in Results
  <2> HIDE DEF Results
  <2> QED BY LenProperties
<1>2. \A r \in Results : Fields(r) /\ r.success \in BOOLEAN /\ r.cost \in Int
  BY DEF Fields, Results
<1>3. \A r \in Results : ~IsSkipped(r) /\ r.skipped # "yes"
  BY DEF IsSkipped, Results
<1> HIDE DEF Results
<1> QED BY <1>1, <1>2, <1>3

LEMMA FieldsKept ==
  ASSUME NEW r, Fields(r), NEW x
  PROVE  /\ [r EXCEPT !.cost = x] = [host |-> r.host, success |-> r.success, skipped |-> r.skipped, cost |-> x, msg |-> r.msg]
         /\ [r EXCEPT !.msg = x] = [host |-> r.host, success |-> r.success, skipped |-> r.skipped, cost |-> r.cost, msg |-> x]
  BY DEF Fields

(* What the indices of a host are, and those of its failures. *)
LEMMA IndicesProperties ==
  ASSUME NEW d \in Seq(Results), NEW x
  PROVE  /\ IndicesOf(x, d) \in SUBSET (1..Len(d))
         /\ x \in HostsIn(d) <=> IndicesOf(x, d) # {}
         /\ FailuresOf(x, d) = {i \in IndicesOf(x, d) : ~d[i].success}
<1>1. DOMAIN d = 1..Len(d) /\ \A i \in DOMAIN d : ~IsSkipped(d[i])
  BY ResultFields
<1>2. FailuresOf(x, d) = {i \in IndicesOf(x, d) : ~d[i].success}
  BY <1>1 DEF FailuresOf, IndicesOf
<1>3. x \in HostsIn(d) <=> IndicesOf(x, d) # {}
  BY DEF HostsIn, IndicesOf
<1> QED BY <1>1, <1>2, <1>3 DEF IndicesOf

LEMMA ChosenProperties ==
  ASSUME NEW d \in Seq(Results), NEW x \in HostsIn(d)
  PROVE  /\ Chosen(x, d) \in IndicesOf(x, d)
         /\ d[Chosen(x, d)].success <=> FailuresOf(x, d) = {}
<1>1. /\ IndicesOf(x, d) \in SUBSET (1..Len(d)) /\ IndicesOf(x, d) # {}
      /\ FailuresOf(x, d) = {i \in IndicesOf(x, d) : ~d[i].success}
      /\ Len(d) \in Nat
  BY IndicesProperties, ResultFields
<1>2. Max(IndicesOf(x, d)) \in IndicesOf(x, d)
  BY <1>1, MaxOfIndices
<1>3. CASE FailuresOf(x, d) # {}
  <2>1. FailuresOf(x, d) \in SUBSET Nat
    BY <1>1
  <2>2. Min(FailuresOf(x, d)) \in FailuresOf(x, d)
    BY <1>3, <2>1, MinOfIndices
  <2> QED BY <1>1, <1>3, <2>2 DEF Chosen
<1>4. CASE FailuresOf(x, d) = {}
  BY <1>1, <1>2, <1>4 DEF Chosen
<1> QED BY <1>3, <1>4

(* What is recorded beside the results d is what they say. *)
Tracked(d, first_failures, ends) ==
  /\ DOMAIN first_failures = HostsIn(d) /\ DOMAIN ends = HostsIn(d)
  /\ \A x \in HostsIn(d) : first_failures[x] = d[Chosen(x, d)] /\ ends[x] = d[Max(IndicesOf(x, d))].cost

Counted(d, count) == count = 0 <=> \A i \in DOMAIN d : d[i].success

LEMMA NoResultsTracked == Tracked(<<>>, <<>>, <<>>) /\ Counted(<<>>, 0)
  BY DEF Tracked, Counted, HostsIn

LEMMA AppendTracked ==
  ASSUME NEW d \in Seq(Results), NEW r \in Results, NEW first_failures, NEW ends, Tracked(d, first_failures, ends)
  PROVE  Tracked(Append(d, r),
                 [x \in DOMAIN first_failures \cup {r.host} |->
                    IF x # r.host THEN first_failures[x]
                    ELSE IF x \in DOMAIN first_failures /\ ~first_failures[x].success THEN first_failures[x] ELSE r],
                 [x \in DOMAIN ends \cup {r.host} |-> IF x = r.host THEN r.cost ELSE ends[x]])
<1> DEFINE e == Append(d, r)
           n == Len(d)
           ff == [x \in DOMAIN first_failures \cup {r.host} |->
                    IF x # r.host THEN first_failures[x]
                    ELSE IF x \in DOMAIN first_failures /\ ~first_failures[x].success THEN first_failures[x] ELSE r]
           en == [x \in DOMAIN ends \cup {r.host} |-> IF x = r.host THEN r.cost ELSE ends[x]]
<1>1. n \in Nat /\ DOMAIN d = 1..n
  BY ResultFields
<1>2. e \in Seq(Results) /\ Len(e) = n + 1 /\ DOMAIN e = 1..(n + 1) /\ e[n + 1] = r /\ \A i \in 1..n : e[i] = d[i]
  <2> HIDE DEF Results
  <2>1. e \in Seq(Results) /\ Len(e) = n + 1 /\ e[n + 1] = r /\ \A i \in 1..n : e[i] = d[i]
    BY AppendProperties
  <2> HIDE DEF e
  <2> QED BY <2>1, ResultFields
<1> HIDE DEF e, n
<1>3. HostsIn(e) = HostsIn(d) \cup {r.host}
  <2>1. 1..(n + 1) = (1..n) \cup {n + 1}
    BY <1>1
  <2>2. HostsIn(d) = {d[i].host : i \in 1..n}
    BY <1>1 DEF HostsIn
  <2>3. HostsIn(e) = {e[i].host : i \in (1..n) \cup {n + 1}}
    BY <1>2, <2>1 DEF HostsIn
  <2> QED BY <1>2, <2>2, <2>3
<1>4. \A x : IndicesOf(x, e) = IF x = r.host THEN IndicesOf(x, d) \cup {n + 1} ELSE IndicesOf(x, d)
  <2>1. 1..(n + 1) = (1..n) \cup {n + 1} /\ n + 1 \notin 1..n
    BY <1>1
  <2>2. \A x : IndicesOf(x, e) = {i \in (1..n) \cup {n + 1} : e[i].host = x}
    BY <1>2, <2>1 DEF IndicesOf
  <2>3. \A x : IndicesOf(x, d) = {i \in 1..n : d[i].host = x}
    BY <1>1 DEF IndicesOf
  <2> TAKE x
  <2>4. CASE x = r.host
    BY <1>2, <2>1, <2>2, <2>3, <2>4
  <2>5. CASE x # r.host
    <3>1. \A i \in (1..n) \cup {n + 1} : e[i].host = x <=> i \in 1..n /\ d[i].host = x
      BY <1>2, <2>1, <2>5
    <3>2. IndicesOf(x, e) = IndicesOf(x, d)
      BY <2>2, <2>3, <3>1
    <3> QED BY <2>5, <3>2
  <2> QED BY <2>4, <2>5
<1>5. \A x : IndicesOf(x, d) \in SUBSET (1..n)
  BY IndicesProperties DEF n
<1>6. \A x : FailuresOf(x, e) = IF x = r.host /\ ~r.success THEN FailuresOf(x, d) \cup {n + 1} ELSE FailuresOf(x, d)
  <2> TAKE x
  <2>1. FailuresOf(x, e) = {i \in IndicesOf(x, e) : ~e[i].success}
    BY <1>2, IndicesProperties
  <2>2. FailuresOf(x, d) = {i \in IndicesOf(x, d) : ~d[i].success}
    BY IndicesProperties
  <2>3. \A i \in IndicesOf(x, d) : e[i] = d[i]
    BY <1>2, <1>5
  <2>4. CASE x = r.host
    BY <1>2, <1>4, <2>1, <2>2, <2>3, <2>4
  <2>5. CASE x # r.host
    BY <1>4, <2>1, <2>2, <2>3, <2>5
  <2> QED BY <2>4, <2>5
<1>7. ASSUME NEW x \in HostsIn(d), x # r.host PROVE ff[x] = e[Chosen(x, e)] /\ en[x] = e[Max(IndicesOf(x, e))].cost
  <2>1. IndicesOf(x, e) = IndicesOf(x, d) /\ FailuresOf(x, e) = FailuresOf(x, d)
    BY <1>4, <1>6, <1>7
  <2>2. Chosen(x, e) = Chosen(x, d)
    BY <2>1 DEF Chosen
  <2>3. Chosen(x, d) \in 1..n
    BY <1>5, ChosenProperties
  <2>4. Max(IndicesOf(x, d)) \in 1..n
    BY <1>1, <1>5, MaxOfIndices, IndicesProperties
  <2> QED BY <1>2, <1>7, <2>1, <2>2, <2>3, <2>4 DEF Tracked
<1>8. Max(IndicesOf(r.host, e)) = n + 1
  <2>1. n + 1 \in Nat /\ IndicesOf(r.host, e) \in SUBSET (1..(n + 1)) /\ n + 1 \in IndicesOf(r.host, e)
    BY <1>1, <1>4, <1>5
  <2>2. \A i \in IndicesOf(r.host, e) : i <= n + 1
    BY <2>1
  <2> QED BY <2>1, <2>2, MaxIs
<1>9. ff[r.host] = e[Chosen(r.host, e)]
  <2> DEFINE x == r.host
  <2>1. FailuresOf(x, d) \in SUBSET (1..n)
    BY <1>5 DEF FailuresOf
  <2>2. CASE FailuresOf(x, d) # {}
    <3>1. x \in HostsIn(d)
      BY <2>2, IndicesProperties
    <3>2. Min(FailuresOf(x, d)) \in FailuresOf(x, d) /\ \A i \in FailuresOf(x, d) : Min(FailuresOf(x, d)) <= i
      BY <2>1, <2>2, MinOfIndices
    <3> DEFINE m == Min(FailuresOf(x, d))
    <3>3. m \in 1..n /\ m <= n + 1
      BY <1>1, <2>1, <3>2
    <3>4. m \in FailuresOf(x, e) /\ FailuresOf(x, e) \in SUBSET Nat
      BY <1>1, <1>6, <2>1, <3>2
    <3>5. \A i \in FailuresOf(x, e) : m <= i
      BY <1>6, <3>2, <3>3
    <3> HIDE DEF m
    <3>6. Min(FailuresOf(x, e)) = m
      BY <3>4, <3>5, MinIs
    <3>7. Chosen(x, e) = m /\ Chosen(x, d) = m
      BY <2>2, <3>4, <3>6 DEF Chosen, m
    <3>8. ~d[m].success
      BY <2>2, <3>1, <3>7, ChosenProperties
    <3>9. first_failures[x] = d[m] /\ x \in DOMAIN first_failures
      BY <3>1, <3>7 DEF Tracked
    <3> QED BY <1>2, <3>3, <3>7, <3>8, <3>9
  <2>3. CASE FailuresOf(x, d) = {}
    <3>1. x \in DOMAIN first_failures => first_failures[x].success
      BY <2>3, ChosenProperties DEF Tracked
    <3>2. Chosen(x, e) = n + 1
      <4>1. CASE r.success
        <5>1. FailuresOf(x, e) = {}
          BY <1>6, <2>3, <4>1
        <5> QED BY <1>8, <5>1 DEF Chosen
      <4>2. CASE ~r.success
        <5>1. FailuresOf(x, e) = {n + 1}
          BY <1>6, <2>3, <4>2
        <5>2. Min({n + 1}) = n + 1
          <6>1. {n + 1} \in SUBSET Nat
            BY <1>1
          <6> QED BY <6>1, MinOfIndices
        <5> QED BY <5>1, <5>2 DEF Chosen
      <4> QED BY <4>1, <4>2
    <3> QED BY <1>2, <3>1, <3>2
  <2> QED BY <2>2, <2>3
<1>10. en[r.host] = e[Max(IndicesOf(r.host, e))].cost
  BY <1>2, <1>8
<1>11. DOMAIN ff = HostsIn(e) /\ DOMAIN en = HostsIn(e)
  BY <1>3 DEF Tracked
<1> HIDE DEF ff, en
<1>12. Tracked(e, ff, en)
  BY <1>3, <1>7, <1>9, <1>10, <1>11 DEF Tracked
<1> QED BY <1>12 DEF e, ff, en

LEMMA AppendCounted ==
  ASSUME NEW d \in Seq(Results), NEW r \in Results, NEW count \in Nat, Counted(d, count)
  PROVE  IF r.success THEN Counted(Append(d, r), count) ELSE Counted(Append(d, r), count + 1)
<1> DEFINE e == Append(d, r)
           n == Len(d)
<1>1. n \in Nat /\ DOMAIN d = 1..n /\ r.success \in BOOLEAN
  BY ResultFields DEF Results
<1>2. DOMAIN e = 1..(n + 1) /\ e[n + 1] = r /\ \A i \in 1..n : e[i] = d[i]
  <2> HIDE DEF Results
  <2>1. e \in Seq(Results) /\ Len(e) = n + 1 /\ e[n + 1] = r /\ \A i \in 1..n : e[i] = d[i]
    BY AppendProperties
  <2> HIDE DEF e
  <2> QED BY <2>1, ResultFields
<1> HIDE DEF e, n
<1>3. 1..(n + 1) = (1..n) \cup {n + 1} /\ count + 1 # 0
  BY <1>1
<1>4. Counted(e, count) <=> r.success \/ count # 0
  BY <1>1, <1>2, <1>3 DEF Counted
<1>5. ~r.success => Counted(e, count + 1)
  BY <1>1, <1>2, <1>3 DEF Counted
<1> QED BY <1>4, <1>5 DEF e

(* Nothing is reported before the play ends, and then what there is. *)
ReportInv ==
  report.made => play = "ended" /\ report = IF job.response = "sync" THEN SyncReport ELSE IntegratedReport

ResultsInv == Tracked(data, expected, ended_at) /\ Counted(data, errors) /\ ReportInv

LEMMA InsertTracked ==
  ASSUME TypeOK, Tracked(data, expected, ended_at), Counted(data, errors),
         NEW host \in Ips, NEW success \in BOOLEAN, NEW skipped \in {"no", "some"}, NEW msg \in Texts,
         Insert(host, success, skipped, msg), errors' = IF success THEN errors ELSE errors + 1
  PROVE  Tracked(data', expected', ended_at') /\ Counted(data', errors')
<1> DEFINE r == NewResult(host, success, skipped, msg)
<1>1. r \in Results /\ data' = Append(data, r)
  BY InsertTyped
<1>2. r.host = host /\ r.success = success /\ r.cost = clock + 1
  BY DEF NewResult
<1>3. expected' = [x \in DOMAIN expected \cup {host} |->
                     IF x # host THEN expected[x]
                     ELSE IF x \in DOMAIN expected /\ ~expected[x].success THEN expected[x] ELSE r]
  BY DEF Insert, NewResult
<1>4. ended_at' = [x \in DOMAIN ended_at \cup {host} |-> IF x = host THEN clock + 1 ELSE ended_at[x]]
  BY DEF Insert
<1>5. data \in Seq(Results) /\ errors \in Nat
  BY DEF TypeOK
<1> HIDE DEF r, Results
<1>6. Tracked(data', expected', ended_at')
  <2>1. Tracked(Append(data, r),
                [x \in DOMAIN expected \cup {r.host} |->
                   IF x # r.host THEN expected[x]
                   ELSE IF x \in DOMAIN expected /\ ~expected[x].success THEN expected[x] ELSE r],
                [x \in DOMAIN ended_at \cup {r.host} |-> IF x = r.host THEN r.cost ELSE ended_at[x]])
    BY <1>1, <1>5, AppendTracked
  <2> QED BY <1>1, <1>2, <1>3, <1>4, <2>1
<1>7. Counted(data', errors')
  BY <1>1, <1>2, <1>5, AppendCounted
<1> QED BY <1>6, <1>7

LEMMA ResultsInit == Init => ResultsInv
<1> SUFFICES ASSUME Init PROVE ResultsInv
  OBVIOUS
<1>1. data = <<>> /\ expected = <<>> /\ ended_at = <<>> /\ errors = 0 /\ ~report.made
  BY DEF Init, NoReport
<1> QED BY <1>1, NoResultsTracked DEF ResultsInv, ReportInv

LEMMA ResultsNext == TypeOK /\ ResultsInv /\ [Next]_vars => ResultsInv'
<1> SUFFICES ASSUME TypeOK, ResultsInv, [Next]_vars PROVE ResultsInv'
  OBVIOUS
<1> USE DEF results, steps, history
<1>0. Tracked(data, expected, ended_at) /\ Counted(data, errors) /\ ReportInv
  BY DEF ResultsInv
<1>1. ASSUME NEW h \in due, Callback(h) PROVE ResultsInv'
  <2>1. Answered(h) /\ Inserted(h)
    BY <1>1, CallbackCases
  <2>2. HostOf(h) \in Ips /\ Text(h) \in Texts
    BY HostsKnown
  <2>3. ReportInv'
    <3>1. play = "running" /\ UNCHANGED <<play, report>>
      BY <2>1 DEF Answered
    <3> QED BY <1>0, <3>1 DEF ReportInv
  <2>4. Tracked(data', expected', ended_at') /\ Counted(data', errors')
    <3>1. CASE UNCHANGED <<clock, data, errors, failed_msg, history>>
      BY <1>0, <3>1
    <3>2. ASSUME NEW skipped \in {"no", "some"}, Insert(HostOf(h), TRUE, skipped, Text(h)), UNCHANGED errors
          PROVE  Tracked(data', expected', ended_at') /\ Counted(data', errors')
      BY <1>0, <2>2, <3>2, InsertTracked
    <3>3. ASSUME NEW skipped \in {"no", "some"}, Insert(HostOf(h), FALSE, skipped, Text(h)), errors' = errors + 1
          PROVE  Tracked(data', expected', ended_at') /\ Counted(data', errors')
      BY <1>0, <2>2, <3>3, InsertTracked
    <3> QED BY <2>1, <3>1, <3>2, <3>3 DEF Inserted
  <2> QED BY <2>3, <2>4 DEF ResultsInv
<1>2. CASE PlayStart
  BY <1>0, <1>2 DEF PlayStart, ResultsInv, ReportInv
<1>3. CASE NoHostsMatched
  <2>1. "" \in Ips /\ Text("") \in Texts
    BY DEF Ips, HostNames, Texts, Text, TypeOK
  <2>2. Tracked(data', expected', ended_at') /\ Counted(data', errors')
    BY <1>0, <1>3, <2>1, InsertTracked DEF NoHostsMatched
  <2>3. play = "running" /\ UNCHANGED <<play, report>>
    BY <1>3 DEF NoHostsMatched
  <2> QED BY <1>0, <2>2, <2>3 DEF ResultsInv, ReportInv
<1>4. CASE TaskStart
  BY <1>0, <1>4 DEF TaskStart, ResultsInv, ReportInv
<1>5. CASE PlaybookStats
  <2>1. UNCHANGED <<job, data, errors, failed_msg, expected, ended_at>> /\ play' = "ended"
    BY <1>5 DEF PlaybookStats
  <2>2. SyncReport' = SyncReport /\ IntegratedReport' = IntegratedReport
    BY <2>1 DEF SyncReport, IntegratedReport
  <2>3. report' = (IF job.response = "sync" THEN SyncReport ELSE IntegratedReport) \/ report' = NoReport
    BY <1>5 DEF PlaybookStats
  <2> HIDE DEF SyncReport, IntegratedReport
  <2> QED BY <1>0, <2>1, <2>2, <2>3 DEF ResultsInv, ReportInv, NoReport
<1>6. CASE Ended \/ UNCHANGED vars
  <2>1. UNCHANGED <<job, play, data, errors, failed_msg, expected, ended_at, report>>
    BY <1>6 DEF Ended, vars
  <2>2. SyncReport' = SyncReport /\ IntegratedReport' = IntegratedReport
    BY <2>1 DEF SyncReport, IntegratedReport
  <2> HIDE DEF SyncReport, IntegratedReport
  <2> QED BY <1>0, <2>1, <2>2 DEF ResultsInv, ReportInv
<1> QED BY NextCases, <1>1, <1>2, <1>3, <1>4, <1>5, <1>6

(* What is recorded of the results is what they say, errors is 0 exactly     *)
(* when none failed, and a report is made of the results of an ended play.   *)
THEOREM ResultsRecorded == Spec => [](TypeOK /\ ResultsInv)
  BY TypeInit, TypeNext, ResultsInit, ResultsNext, PTL DEF Spec

(***************************************************************************)
(* The report of a job that waits, and of one that does not.               *)
(***************************************************************************)

LEMMA FunctionIsSeq ==
  ASSUME NEW n \in Nat, NEW f, f = [i \in 1..n |-> f[i]]
  PROVE  Len(f) = n
<1> DEFINE S == {f[i] : i \in 1..n}
<1>1. f \in [1..n -> S]
  OBVIOUS
<1> HIDE DEF S
<1>2. f \in Seq(S)
  BY <1>1, SeqDef
<1>3. Len(f) \in Nat /\ DOMAIN f = 1..Len(f) /\ DOMAIN f = 1..n
  BY <1>1, <1>2, LenProperties
<1> QED BY <1>3

LEMMA FirstsProperties ==
  ASSUME NEW d \in Seq(Results)
  PROVE  /\ FirstResults(d) \in SUBSET (1..Len(d)) /\ IsFiniteSet(FirstResults(d))
         /\ \A i \in FirstResults(d) : d[i].host \in HostsIn(d)
         /\ \A i, j \in FirstResults(d) : d[i].host = d[j].host => i = j
         /\ \A x \in HostsIn(d) : \E i \in FirstResults(d) : d[i].host = x
<1>1. DOMAIN d = 1..Len(d) /\ Len(d) \in Nat
  BY ResultFields
<1>2. FirstResults(d) \in SUBSET (1..Len(d))
  BY <1>1 DEF FirstResults
<1>3. IsFiniteSet(1..Len(d))
  BY <1>1, FS_Interval
<1>4. IsFiniteSet(FirstResults(d))
  BY <1>2, <1>3, FS_Subset
<1>5. \A i \in FirstResults(d) : d[i].host \in HostsIn(d)
  BY DEF FirstResults, HostsIn
<1>6. \A i, j \in FirstResults(d) : d[i].host = d[j].host => i = j
  BY DEF FirstResults
<1>7. ASSUME NEW x \in HostsIn(d) PROVE \E i \in FirstResults(d) : d[i].host = x
  <2>1. IndicesOf(x, d) \in SUBSET Nat /\ IndicesOf(x, d) # {}
    BY <1>1, IndicesProperties
  <2>2. FirstOf(x, d) \in IndicesOf(x, d)
    BY <2>1, MinOfIndices DEF FirstOf
  <2>3. FirstOf(x, d) \in DOMAIN d /\ d[FirstOf(x, d)].host = x
    BY <2>2 DEF IndicesOf
  <2> QED BY <2>3 DEF FirstResults
<1> QED BY <1>2, <1>4, <1>5, <1>6, <1>7

(* HostsOf names each host of the results once. *)
LEMMA HostsOfProperties ==
  ASSUME NEW d \in Seq(Results)
  PROVE  /\ Cardinality(HostsIn(d)) \in Nat
         /\ HostsOf(d) = [k \in 1..Cardinality(HostsIn(d)) |-> HostsOf(d)[k]]
         /\ \A k \in 1..Cardinality(HostsIn(d)) : HostsOf(d)[k] \in HostsIn(d)
         /\ \A x \in HostsIn(d) : \E k \in 1..Cardinality(HostsIn(d)) : HostsOf(d)[k] = x
<1> DEFINE F == FirstResults(d)
           R == {p \in F \X F : p[1] <= p[2]}
           place == [i \in F |-> Cardinality({j \in F : <<j, i>> \in R})]
           c == Cardinality(F)
           ordered == InOrder(place)
           hosts == HostsOf(d)
<1>1. F \in SUBSET Nat /\ IsFiniteSet(F)
  BY FirstsProperties, ResultFields
<1>2. \A i, j \in F : <<i, j>> \in R <=> i <= j
  OBVIOUS
<1>3. place = [i \in F |-> Cardinality({j \in F : j <= i})]
  <2>1. \A i \in F : {j \in F : <<j, i>> \in R} = {j \in F : j <= i}
    BY <1>2
  <2> QED BY <2>1
<1>4. hosts = [k \in DOMAIN ordered |-> d[ordered[k]].host]
  BY <1>3 DEF HostsOf
<1>5. /\ c \in Nat /\ ordered \in [1..c -> F]
      /\ \A k \in 1..c : place[ordered[k]] = k
      /\ \A i \in F : place[i] \in 1..c /\ ordered[place[i]] = i
  <2>1. \A a, b \in Nat : (a <= b \/ b <= a) /\ (a <= b /\ b <= a => a = b)
    OBVIOUS
  <2>2. \A a, b, e \in Nat : a <= b /\ b <= e => a <= e
    OBVIOUS
  <2> HIDE DEF F, R
  <2>3. \A i, j \in F : <<i, j>> \in R \/ <<j, i>> \in R
    BY <1>1, <1>2, <2>1
  <2>4. \A i, j \in F : <<i, j>> \in R /\ <<j, i>> \in R => i = j
    BY <1>1, <1>2, <2>1
  <2>5. \A i, j, k \in F : <<i, j>> \in R /\ <<j, k>> \in R => <<i, k>> \in R
    BY <1>1, <1>2, <2>2
  <2> QED BY <1>1, <2>3, <2>4, <2>5, InOrderProperties
<1>6. /\ \A i \in F : d[i].host \in HostsIn(d)
      /\ \A i, j \in F : d[i].host = d[j].host => i = j
      /\ \A x \in HostsIn(d) : \E i \in F : d[i].host = x
  BY FirstsProperties
<1> HIDE DEF F, R, place, c, ordered, hosts
<1>7. hosts = [k \in 1..c |-> d[ordered[k]].host]
  BY <1>4, <1>5
<1>8. hosts \in [1..c -> HostsIn(d)]
  BY <1>5, <1>6, <1>7
<1>9. \A k, l \in 1..c : hosts[k] = hosts[l] => k = l
  BY <1>5, <1>6, <1>7
<1>10. \A x \in HostsIn(d) : \E k \in 1..c : hosts[k] = x
  BY <1>5, <1>6, <1>7
<1>11. ExistsBijection(1..c, HostsIn(d))
  <2>1. hosts \in Bijection(1..c, HostsIn(d))
    BY <1>8, <1>9, <1>10 DEF Bijection, Injection, Surjection, IsInjective
  <2> QED BY <2>1 DEF ExistsBijection
<1>12. Cardinality(HostsIn(d)) = c
  BY <1>5, <1>11, FS_CountingElements
<1>13. hosts = [k \in 1..c |-> hosts[k]]
  BY <1>8
<1> QED BY <1>5, <1>8, <1>10, <1>12, <1>13 DEF hosts

(* One result of each host: the one that was chosen, but for its cost. *)
LEMMA OneResultPerHostFields ==
  ASSUME NEW d \in Seq(Results)
  PROVE  LET m == OneResultPerHost(d) IN
         /\ m = [k \in 1..Cardinality(HostsIn(d)) |-> m[k]]
         /\ \A k \in 1..Cardinality(HostsIn(d)) :
              LET r == d[Chosen(HostsOf(d)[k], d)]
              IN m[k] = [host |-> r.host, success |-> r.success, skipped |-> r.skipped, msg |-> r.msg,
                         cost |-> HostCost(HostsOf(d)[k], d)]
<1> DEFINE m == OneResultPerHost(d)
           hosts == HostsOf(d)
           c == Cardinality(HostsIn(d))
           chosen(k) == d[Chosen(hosts[k], d)]
<1>1. hosts = [k \in 1..c |-> hosts[k]] /\ \A k \in 1..c : hosts[k] \in HostsIn(d)
  BY HostsOfProperties
<1> HIDE DEF c
<1>2. DOMAIN hosts = 1..c
  BY <1>1
<1>3. m = [k \in DOMAIN hosts |-> [chosen(k) EXCEPT !.cost = HostCost(hosts[k], d)]]
  BY DEF OneResultPerHost
<1>4. \A k \in 1..c : Chosen(hosts[k], d) \in DOMAIN d
  BY <1>1, ChosenProperties DEF IndicesOf
<1>5. \A k \in 1..c : Fields(chosen(k))
  BY <1>4, ResultFields
<1> HIDE DEF m, hosts, chosen
<1>6. \A k \in 1..c : m[k] = [chosen(k) EXCEPT !.cost = HostCost(hosts[k], d)]
  BY <1>2, <1>3
<1>7. ASSUME NEW k \in 1..c
      PROVE  m[k] = [host |-> chosen(k).host, success |-> chosen(k).success, skipped |-> chosen(k).skipped,
                     msg |-> chosen(k).msg, cost |-> HostCost(hosts[k], d)]
  BY <1>5, <1>6, <1>7, FieldsKept
<1>8. m = [k \in 1..c |-> m[k]]
  BY <1>2, <1>3
<1> QED BY <1>7, <1>8 DEF m, c, hosts, chosen

LEMMA OwnCostFields ==
  ASSUME NEW d \in Seq(Results), NEW i \in DOMAIN d
  PROVE  OwnCost(i, d) =
           [host |-> d[i].host, success |-> d[i].success, skipped |-> d[i].skipped, msg |-> d[i].msg,
            cost |-> IF EarlierOf(i, d) = {} THEN d[i].cost ELSE d[i].cost - d[Max(EarlierOf(i, d))].cost]
<1>1. Fields(d[i])
  BY ResultFields
<1>2. CASE EarlierOf(i, d) = {}
  BY <1>1, <1>2 DEF OwnCost, Fields
<1>3. CASE EarlierOf(i, d) # {}
  <2> DEFINE x == d[i].cost - d[Max(EarlierOf(i, d))].cost
  <2>1. OwnCost(i, d) = [d[i] EXCEPT !.cost = x]
    BY <1>3 DEF OwnCost
  <2> HIDE DEF x
  <2>2. OwnCost(i, d) = [host |-> d[i].host, success |-> d[i].success, skipped |-> d[i].skipped, cost |-> x, msg |-> d[i].msg]
    BY <1>1, <2>1, FieldsKept
  <2> QED BY <1>3, <2>2 DEF x
<1> QED BY <1>2, <1>3

(* All results, each once, and those of a host in their order. *)
LEMMA AllResultsOrdered ==
  ASSUME NEW d \in Seq(Results)
  PROVE  \E ordered, place \in [1..Len(d) -> 1..Len(d)] :
           /\ \A k \in 1..Len(d) : place[ordered[k]] = k /\ ordered[place[k]] = k
           /\ \A i, j \in 1..Len(d) : d[i].host = d[j].host => (i <= j <=> place[i] <= place[j])
           /\ AllResults(d) = [k \in 1..Len(d) |-> OwnCost(ordered[k], d)]
<1> DEFINE n == Len(d)
           D == 1..n
           R == {p \in D \X D : NotAfter(p[1], p[2], d)}
           place == [i \in D |-> Cardinality({j \in D : <<j, i>> \in R})]
           ordered == InOrder(place)
           first(i) == FirstOf(d[i].host, d)
<1>1. n \in Nat /\ DOMAIN d = D
  BY ResultFields
<1>2. IsFiniteSet(D) /\ Cardinality(D) = n
  BY <1>1, FS_Interval
<1>3. \A i \in D : first(i) \in Nat /\ first(i) \in IndicesOf(d[i].host, d)
  <2> TAKE i \in D
  <2>1. IndicesOf(d[i].host, d) \in SUBSET Nat /\ i \in IndicesOf(d[i].host, d)
    BY <1>1 DEF IndicesOf
  <2>2. Min(IndicesOf(d[i].host, d)) \in IndicesOf(d[i].host, d)
    BY <2>1, MinOfIndices
  <2> QED BY <2>1, <2>2 DEF FirstOf
<1>4. \A i, j \in D : first(i) = first(j) <=> d[i].host = d[j].host
  <2>1. \A i \in D : d[first(i)].host = d[i].host
    BY <1>3 DEF IndicesOf
  <2> QED BY <2>1
<1> HIDE DEF first
<1>5. \A i, j \in D : <<i, j>> \in R <=> first(i) < first(j) \/ (first(i) = first(j) /\ i <= j)
  BY DEF NotAfter, first
<1>6. \A i \in D : i \in Nat
  BY <1>1
<1> HIDE DEF R, D
<1>7. \A a, b, x, y \in Nat :
        /\ a < b \/ (a = b /\ x <= y) \/ b < a \/ (b = a /\ y <= x)
        /\ (a < b \/ (a = b /\ x <= y)) /\ (b < a \/ (b = a /\ y <= x)) => x = y
  OBVIOUS
<1>8. \A a, b, e, x, y, z \in Nat :
        (a < b \/ (a = b /\ x <= y)) /\ (b < e \/ (b = e /\ y <= z)) => a < e \/ (a = e /\ x <= z)
  OBVIOUS
<1>9. \A i, j \in D : <<i, j>> \in R \/ <<j, i>> \in R
  BY <1>3, <1>5, <1>6, <1>7
<1>10. \A i, j \in D : <<i, j>> \in R /\ <<j, i>> \in R => i = j
  BY <1>3, <1>5, <1>6, <1>7
<1>11. \A i, j, k \in D : <<i, j>> \in R /\ <<j, k>> \in R => <<i, k>> \in R
  BY <1>3, <1>5, <1>6, <1>8
<1>12. /\ ordered \in [1..Cardinality(D) -> D]
       /\ \A k \in 1..Cardinality(D) : place[ordered[k]] = k
       /\ \A i \in D : place[i] \in 1..Cardinality(D) /\ ordered[place[i]] = i
       /\ \A i, j \in D : <<i, j>> \in R <=> place[i] <= place[j]
  BY <1>2, <1>9, <1>10, <1>11, InOrderProperties
<1>13. AllResults(d) = [k \in DOMAIN ordered |-> OwnCost(ordered[k], d)]
  <2>1. \A i \in D : {j \in D : <<j, i>> \in R} = {j \in D : NotAfter(j, i, d)}
    BY DEF R
  <2>2. place = [i \in DOMAIN d |-> Cardinality({j \in DOMAIN d : NotAfter(j, i, d)})]
    BY <1>1, <2>1
  <2> QED BY <2>2 DEF AllResults
<1>14. place \in [D -> D] /\ ordered \in [D -> D]
  <2>1. 1..Cardinality(D) = D
    BY <1>2 DEF D
  <2>2. DOMAIN place = D
    OBVIOUS
  <2> HIDE DEF place, ordered
  <2>3. \A i \in D : place[i] \in D
    BY <1>12, <2>1
  <2>4. place = [i \in D |-> place[i]]
    BY DEF place
  <2> QED BY <1>12, <2>1, <2>3, <2>4
<1> HIDE DEF place, ordered
<1>15. \A i, j \in D : d[i].host = d[j].host => (i <= j <=> place[i] <= place[j])
  <2>1. \A a \in Nat : ~(a < a)
    OBVIOUS
  <2> QED BY <1>3, <1>4, <1>5, <1>12, <2>1
<1>16. 1..Cardinality(D) = D
  BY <1>2 DEF D
<1>17. \A k \in D : place[ordered[k]] = k /\ ordered[place[k]] = k
  BY <1>12, <1>16
<1>18. AllResults(d) = [k \in D |-> OwnCost(ordered[k], d)]
  BY <1>13, <1>14
<1> QED BY <1>14, <1>15, <1>17, <1>18 DEF D

(* instead_failed_message changes the text of the first result only. *)
HasText(w, c, m, text) ==
  /\ w = [k \in 1..c |-> w[k]]
  /\ \A k \in 1..c :
       w[k] = [host |-> m[k].host, success |-> m[k].success, skipped |-> m[k].skipped, cost |-> m[k].cost,
               msg |-> IF k = 1 /\ text # <<>> THEN text ELSE m[k].msg]

LEMMA InsteadFields ==
  ASSUME NEW c \in Nat, NEW m, m = [k \in 1..c |-> m[k]], \A k \in 1..c : Fields(m[k]), NEW text
  PROVE  HasText(instead_failed_message(m, text), c, m, text)
<1> USE DEF HasText
<1> DEFINE w == instead_failed_message(m, text)
<1>1. CASE m = <<>>
  <2>1. w = m
    BY <1>1 DEF instead_failed_message
  <2>2. 1..c = {}
    <3>1. DOMAIN m = 1..c /\ DOMAIN m = 1..0
      BY <1>1
    <3> QED BY <3>1
  <2> QED BY <2>1, <2>2
<1>2. CASE text = <<>>
  <2>1. w = m
    BY <1>2 DEF instead_failed_message
  <2> QED BY <1>2, <2>1 DEF Fields
<1>3. CASE m # <<>> /\ text # <<>>
  <2>1. w = [m EXCEPT ![1] = [m[1] EXCEPT !.msg = text]]
    BY <1>3 DEF instead_failed_message
  <2> HIDE DEF w
  <2>2. w = [k \in 1..c |-> w[k]]
    BY <2>1
  <2>3. \A k \in 1..c : k # 1 => w[k] = m[k]
    BY <2>1
  <2>4. 1 \in 1..c => w[1] = [m[1] EXCEPT !.msg = text]
    BY <2>1
  <2>5. ASSUME NEW k \in 1..c
        PROVE  w[k] = [host |-> m[k].host, success |-> m[k].success, skipped |-> m[k].skipped, cost |-> m[k].cost,
                       msg |-> IF k = 1 THEN text ELSE m[k].msg]
    <3>1. CASE k = 1
      <4>1. w[1] = [host |-> m[1].host, success |-> m[1].success, skipped |-> m[1].skipped, cost |-> m[1].cost, msg |-> text]
        BY <2>4, <2>5, <3>1, FieldsKept
      <4> QED BY <3>1, <4>1
    <3>2. CASE k # 1
      BY <2>3, <2>5, <3>2 DEF Fields
    <3> QED BY <3>1, <3>2
  <2> QED BY <1>3, <2>2, <2>5 DEF w
<1> QED BY <1>1, <1>2, <1>3

(* The results of the report of a job that does not wait. *)
Merged == instead_failed_message(intergrate_messages_by_host(data, job.playbook_script), failed_msg)

(* Of one result per host, a host has a failure exactly when it has one that *)
(* was chosen; of all results, each is there.                                *)
LEMMA MergedOfHosts ==
  ASSUME TypeOK, ~job.playbook_script
  PROVE  LET c == Cardinality(HostsIn(data)) IN
         /\ c \in Nat /\ Merged = [k \in 1..c |-> Merged[k]]
         /\ \A k \in 1..c :
              LET r == data[Chosen(HostsOf(data)[k], data)] IN
              /\ Merged[k].host = HostsOf(data)[k] /\ Merged[k].success = r.success /\ Merged[k].skipped = r.skipped
              /\ Merged[k].msg = IF k = 1 /\ failed_msg # <<>> THEN failed_msg ELSE r.msg
<1> DEFINE c == Cardinality(HostsIn(data))
           hosts == HostsOf(data)
           r(k) == data[Chosen(hosts[k], data)]
           m == OneResultPerHost(data)
<1>1. data \in Seq(Results)
  BY DEF TypeOK
<1>2. Merged = instead_failed_message(m, failed_msg)
  BY DEF Merged, intergrate_messages_by_host
<1>3. c \in Nat /\ \A k \in 1..c : hosts[k] \in HostsIn(data)
  BY <1>1, HostsOfProperties
<1>4. \A k \in 1..c : r(k).host = hosts[k]
  BY <1>1, <1>3, ChosenProperties DEF IndicesOf
<1>5. /\ m = [k \in 1..c |-> m[k]]
      /\ \A k \in 1..c : m[k] = [host |-> r(k).host, success |-> r(k).success, skipped |-> r(k).skipped,
                                 msg |-> r(k).msg, cost |-> HostCost(hosts[k], data)]
  BY <1>1, OneResultPerHostFields
<1> HIDE DEF m, c, hosts, r
<1>6. \A k \in 1..c : /\ Fields(m[k])
                      /\ m[k].host = hosts[k] /\ m[k].success = r(k).success /\ m[k].skipped = r(k).skipped
                      /\ m[k].msg = r(k).msg
  BY <1>4, <1>5 DEF Fields
<1>7. HasText(Merged, c, m, failed_msg)
  BY <1>2, <1>3, <1>5, <1>6, InsteadFields
<1>8. \A k \in 1..c :
        /\ Merged[k].host = hosts[k] /\ Merged[k].success = r(k).success /\ Merged[k].skipped = r(k).skipped
        /\ Merged[k].msg = IF k = 1 /\ failed_msg # <<>> THEN failed_msg ELSE r(k).msg
  BY <1>6, <1>7 DEF HasText
<1>9. Merged = [k \in 1..c |-> Merged[k]]
  BY <1>7 DEF HasText
<1> QED BY <1>3, <1>8, <1>9 DEF c, hosts, r

(* The results m are those of d, each at its place, with its own cost. *)
OwnCosts(d, m, ordered, place) ==
  /\ \A k \in 1..Len(d) : place[ordered[k]] = k /\ ordered[place[k]] = k
  /\ \A i, j \in 1..Len(d) : d[i].host = d[j].host => (i <= j <=> place[i] <= place[j])
  /\ \A k \in 1..Len(d) :
       /\ m[k].host = d[ordered[k]].host /\ m[k].success = d[ordered[k]].success
       /\ m[k].skipped = d[ordered[k]].skipped
       /\ m[k].cost = IF EarlierOf(ordered[k], d) = {} THEN d[ordered[k]].cost
                      ELSE d[ordered[k]].cost - d[Max(EarlierOf(ordered[k], d))].cost

LEMMA MergedOfAll ==
  ASSUME TypeOK, job.playbook_script
  PROVE  /\ Merged = [k \in 1..Len(data) |-> Merged[k]]
         /\ \E ordered, place \in [1..Len(data) -> 1..Len(data)] : OwnCosts(data, Merged, ordered, place)
<1> DEFINE n == Len(data)
           m == AllResults(data)
<1>1. data \in Seq(Results)
  BY DEF TypeOK
<1>2. n \in Nat /\ DOMAIN data = 1..n
  BY <1>1, ResultFields
<1>3. Merged = instead_failed_message(m, failed_msg)
  BY DEF Merged, intergrate_messages_by_host
<1>4. PICK ordered \in [1..n -> 1..n], place \in [1..n -> 1..n] :
        /\ \A k \in 1..n : place[ordered[k]] = k /\ ordered[place[k]] = k
        /\ \A i, j \in 1..n : data[i].host = data[j].host => (i <= j <=> place[i] <= place[j])
        /\ m = [k \in 1..n |-> OwnCost(ordered[k], data)]
  BY <1>1, AllResultsOrdered
<1> DEFINE own(i) == IF EarlierOf(i, data) = {} THEN data[i].cost
                     ELSE data[i].cost - data[Max(EarlierOf(i, data))].cost
           r(k) == data[ordered[k]]
<1>5. \A k \in 1..n : m[k] = [host |-> r(k).host, success |-> r(k).success, skipped |-> r(k).skipped, msg |-> r(k).msg,
                              cost |-> own(ordered[k])]
  <2> TAKE k \in 1..n
  <2>1. ordered[k] \in DOMAIN data
    BY <1>2, <1>4
  <2>2. m[k] = OwnCost(ordered[k], data)
    BY <1>4
  <2> QED BY <1>1, <2>1, <2>2, OwnCostFields
<1>6. m = [k \in 1..n |-> m[k]]
  BY <1>4
<1> HIDE DEF m, n, own, r
<1>7. ASSUME NEW k \in 1..n
      PROVE  /\ Fields(m[k])
             /\ m[k].host = r(k).host /\ m[k].success = r(k).success /\ m[k].skipped = r(k).skipped
             /\ m[k].cost = own(ordered[k])
  <2> DEFINE x == r(k)
             cost == own(ordered[k])
  <2>1. m[k] = [host |-> x.host, success |-> x.success, skipped |-> x.skipped, msg |-> x.msg, cost |-> cost]
    BY <1>5, <1>7
  <2> HIDE DEF x, cost
  <2>2. /\ Fields(m[k])
        /\ m[k].host = x.host /\ m[k].success = x.success /\ m[k].skipped = x.skipped /\ m[k].cost = cost
    BY <2>1 DEF Fields
  <2> QED BY <2>2 DEF x, cost
<1>8. HasText(Merged, n, m, failed_msg)
  <2>1. n \in Nat /\ \A k \in 1..n : Fields(m[k])
    BY <1>2, <1>7
  <2> QED BY <1>3, <1>6, <2>1, InsteadFields
<1>9. ASSUME NEW k \in 1..n
      PROVE  /\ Merged[k].host = r(k).host /\ Merged[k].success = r(k).success
             /\ Merged[k].skipped = r(k).skipped /\ Merged[k].cost = own(ordered[k])
  <2>1. /\ Merged[k].host = m[k].host /\ Merged[k].success = m[k].success
        /\ Merged[k].skipped = m[k].skipped /\ Merged[k].cost = m[k].cost
    BY <1>8, <1>9 DEF HasText
  <2> QED BY <1>7, <1>9, <2>1
<1>10. OwnCosts(data, Merged, ordered, place)
  BY <1>4, <1>9 DEF OwnCosts, n, own, r
<1>11. Merged = [k \in 1..n |-> Merged[k]]
  BY <1>8 DEF HasText
<1> QED BY <1>10, <1>11 DEF n

LEMMA MergedChecked ==
  ASSUME TypeOK
  PROVE  check_result(Merged) <=> \A i \in DOMAIN data : data[i].success
<1>1. data \in Seq(Results) /\ DOMAIN data = 1..Len(data)
  BY ResultFields DEF TypeOK
<1>2. \A i \in DOMAIN data : data[i].skipped # "yes"
  BY <1>1, ResultFields
<1>3. CASE job.playbook_script
  <2>1. PICK ordered \in [1..Len(data) -> 1..Len(data)], place \in [1..Len(data) -> 1..Len(data)] :
          OwnCosts(data, Merged, ordered, place)
    BY <1>3, MergedOfAll
  <2>2. DOMAIN Merged = 1..Len(data)
    <3>1. Merged = [k \in 1..Len(data) |-> Merged[k]]
      BY <1>3, MergedOfAll
    <3> QED BY <3>1
  <2>3. \A k \in 1..Len(data) : Merged[k].skipped # "yes" /\ Merged[k].success = data[ordered[k]].success
    <3>1. \A k \in 1..Len(data) : Merged[k].skipped = data[ordered[k]].skipped
      BY <2>1 DEF OwnCosts
    <3>2. \A k \in 1..Len(data) : Merged[k].success = data[ordered[k]].success
      BY <2>1 DEF OwnCosts
    <3> QED BY <1>1, <1>2, <3>1, <3>2
  <2>4. \A i \in 1..Len(data) : ordered[place[i]] = i /\ place[i] \in 1..Len(data)
    BY <2>1 DEF OwnCosts
  <2>5. check_result(Merged) <=> \A k \in 1..Len(data) : data[ordered[k]].success
    BY <2>2, <2>3 DEF check_result
  <2> QED BY <1>1, <2>4, <2>5
<1>4. CASE ~job.playbook_script
  <2> DEFINE c == Cardinality(HostsIn(data))
             chosen(k) == Chosen(HostsOf(data)[k], data)
  <2>1. \A k \in 1..c : Merged[k].success = data[chosen(k)].success /\ Merged[k].skipped = data[chosen(k)].skipped
    BY <1>4, MergedOfHosts
  <2>2. DOMAIN Merged = 1..c
    <3>1. Merged = [k \in 1..c |-> Merged[k]]
      BY <1>4, MergedOfHosts
    <3> QED BY <3>1
  <2>3. /\ \A k \in 1..c : HostsOf(data)[k] \in HostsIn(data)
        /\ \A x \in HostsIn(data) : \E k \in 1..c : HostsOf(data)[k] = x
    BY <1>1, HostsOfProperties
  <2>4. \A k \in 1..c : chosen(k) \in DOMAIN data /\ (data[chosen(k)].success <=> FailuresOf(HostsOf(data)[k], data) = {})
    BY <1>1, <2>3, ChosenProperties DEF IndicesOf
  <2> HIDE DEF c
  <2>5. check_result(Merged) <=> \A k \in 1..c : FailuresOf(HostsOf(data)[k], data) = {}
    <3>1. \A k \in 1..c : Merged[k].skipped # "yes" /\ (Merged[k].success <=> FailuresOf(HostsOf(data)[k], data) = {})
      BY <1>2, <2>1, <2>4
    <3> HIDE DEF chosen
    <3> QED BY <2>2, <3>1 DEF check_result
  <2>6. check_result(Merged) <=> \A x \in HostsIn(data) : FailuresOf(x, data) = {}
    BY <2>3, <2>5
  <2>7. \A x : FailuresOf(x, data) = {i \in IndicesOf(x, data) : ~data[i].success}
    BY <1>1, IndicesProperties
  <2>8. \A i \in DOMAIN data : data[i].host \in HostsIn(data) /\ i \in IndicesOf(data[i].host, data)
    BY DEF HostsIn, IndicesOf
  <2>9. \A x : IndicesOf(x, data) \subseteq DOMAIN data
    BY DEF IndicesOf
  <2> QED BY <2>6, <2>7, <2>8, <2>9
<1> QED BY <1>3, <1>4

LEMMA ReportCases ==
  ASSUME TypeOK, ResultsInv, report.made
  PROVE  IF job.response = "sync"
         THEN report.success = (errors = 0 /\ (\A i \in DOMAIN data : data[i].success)) /\ report.data = data
         ELSE report.success = check_result(Merged) /\ report.data = Merged
  BY DEF ResultsInv, ReportInv, SyncReport, IntegratedReport, Merged

LEMMA FailureReportedHolds == TypeOK /\ ResultsInv => FailureReported
<1> SUFFICES ASSUME TypeOK, ResultsInv, report.made PROVE report.success <=> errors = 0
  BY DEF FailureReported
<1>1. errors = 0 <=> \A i \in DOMAIN data : data[i].success
  BY DEF ResultsInv, Counted
<1> QED BY <1>1, ReportCases, MergedChecked

LEMMA ReportedResultHolds == TypeOK /\ ResultsInv => ReportedResult
<1> SUFFICES ASSUME TypeOK, ResultsInv, report.made, job.response # "sync", ~job.playbook_script PROVE ReportedResult
  BY DEF ReportedResult
<1> DEFINE c == Cardinality(HostsIn(data))
           hosts == HostsOf(data)
           r(k) == data[Chosen(hosts[k], data)]
           at(i) == report.data[i].host
<1>1. report.data = Merged
  BY ReportCases
<1>2. DOMAIN expected = HostsIn(data) /\ \A x \in HostsIn(data) : expected[x] = data[Chosen(x, data)]
  BY DEF ResultsInv, Tracked
<1>3. /\ \A k \in 1..c : hosts[k] \in HostsIn(data)
      /\ \A x \in HostsIn(data) : \E k \in 1..c : hosts[k] = x
  BY HostsOfProperties DEF TypeOK
<1>4. /\ c \in Nat /\ Merged = [k \in 1..c |-> Merged[k]]
      /\ \A k \in 1..c :
           /\ Merged[k].host = hosts[k] /\ Merged[k].success = r(k).success
           /\ Merged[k].msg = IF k = 1 /\ failed_msg # <<>> THEN failed_msg ELSE r(k).msg
  BY MergedOfHosts
<1> HIDE DEF c, hosts
<1>5. Len(Merged) = c
  BY <1>4, FunctionIsSeq
<1>6. DOMAIN report.data = 1..c
  BY <1>1, <1>4
<1>7. \A k \in 1..c : at(k) = hosts[k]
  BY <1>1, <1>4
<1>8. {at(i) : i \in DOMAIN report.data} = DOMAIN expected
  BY <1>2, <1>3, <1>6, <1>7
<1>9. Len(report.data) = Cardinality(DOMAIN expected)
  BY <1>1, <1>2, <1>5 DEF c
<1>10. \A i \in DOMAIN report.data :
         /\ report.data[i].success = expected[at(i)].success
         /\ report.data[i].msg = IF i = 1 /\ failed_msg # <<>> THEN failed_msg ELSE expected[at(i)].msg
  <2>1. \A k \in 1..c : expected[at(k)] = r(k)
    BY <1>2, <1>3, <1>7
  <2> HIDE DEF r, at
  <2> QED BY <1>1, <1>4, <1>6, <2>1
<1> QED BY <1>8, <1>9, <1>10 DEF ReportedResult

(***************************************************************************)
(* Costs.                                                                  *)
(***************************************************************************)

(* A sum that is defined from each element to the next is one. *)
LEMMA SumExists ==
  ASSUME NEW n \in Nat, NEW cost \in [1..n -> Int]
  PROVE  \E g \in [0..n -> Int] : g[0] = 0 /\ \A k \in 1..n : g[k] = g[k - 1] + cost[k]
<1> DEFINE IsSum(g, k) == g \in [0..k -> Int] /\ g[0] = 0 /\ \A l \in 1..k : g[l] = g[l - 1] + cost[l]
           Bad == {k \in 0..n : ~\E g : IsSum(g, k)}
<1>1. SUFFICES ASSUME Bad # {} PROVE FALSE
  <2>1. n \in 0..n
    OBVIOUS
  <2>2. \E g : IsSum(g, n)
    BY <1>1, <2>1
  <2> QED BY <2>2
<1>2. PICK k \in Bad : \A l \in Bad : k <= l
  <2>1. Bad \in SUBSET Nat
    OBVIOUS
  <2> HIDE DEF Bad
  <2> QED BY <1>1, <2>1, LeastNat
<1>3. CASE k = 0
  <2>1. IsSum([l \in 0..0 |-> 0], 0)
    OBVIOUS
  <2> QED BY <1>2, <1>3, <2>1
<1>4. CASE k # 0
  <2>0. k \in 0..n
    BY <1>2
  <2>1. k - 1 \in 0..n /\ k - 1 \notin Bad /\ k \in 1..n
    <3>1. k - 1 \in 0..n /\ k \in 1..n /\ ~(k <= k - 1)
      BY <1>4, <2>0
    <3> HIDE DEF Bad
    <3> QED BY <1>2, <3>1
  <2>2. PICK g : IsSum(g, k - 1)
    BY <2>1
  <2> DEFINE h == [l \in 0..k |-> IF l = k THEN g[k - 1] + cost[k] ELSE g[l]]
  <2>3. h \in [0..k -> Int]
    BY <2>1, <2>2
  <2>4. h[0] = 0 /\ \A l \in 1..k : h[l] = h[l - 1] + cost[l]
    <3>1. \A l \in 0..k : h[l] = IF l = k THEN g[k - 1] + cost[k] ELSE g[l]
      OBVIOUS
    <3>2. g[0] = 0 /\ \A l \in 1..(k - 1) : g[l] = g[l - 1] + cost[l]
      BY <2>2
    <3> HIDE DEF h
    <3>3. \A l \in 1..k : /\ l \in 0..k /\ l - 1 \in 0..k /\ l - 1 # k
                          /\ l # k => l \in 1..(k - 1)
      BY <2>1
    <3>4. 0 \in 0..k /\ 0 # k
      BY <2>1
    <3> QED BY <3>1, <3>2, <3>3, <3>4
  <2>5. IsSum(h, k)
    BY <2>3, <2>4
  <2> QED BY <1>2, <2>5
<1> QED BY <1>3, <1>4

IsTotal(g, n, m, x) ==
  /\ g[0] = 0
  /\ \A k \in 1..n : g[k] = g[k - 1] + IF m[k].host = x THEN m[k].cost ELSE 0
  /\ TotalCost(x, m) = g[n]

LEMMA TotalCostProperties ==
  ASSUME NEW n \in Nat, NEW m, m = [k \in 1..n |-> m[k]], \A k \in 1..n : m[k].cost \in Int, NEW x
  PROVE  \E g \in [0..n -> Int] : IsTotal(g, n, m, x)
<1> DEFINE total == CHOOSE g : g = [k \in 0..Len(m) |->
                      IF k = 0 THEN 0 ELSE g[k - 1] + IF m[k].host = x THEN m[k].cost ELSE 0]
           cost == [k \in 1..n |-> IF m[k].host = x THEN m[k].cost ELSE 0]
<1>1. Len(m) = n
  BY FunctionIsSeq
<1>2. TotalCost(x, m) = total[Len(m)]
  BY DEF TotalCost
<1>3. cost \in [1..n -> Int]
  OBVIOUS
<1>4. \A k \in 1..n : cost[k] = IF m[k].host = x THEN m[k].cost ELSE 0
  OBVIOUS
<1> HIDE DEF cost
<1>5. PICK g \in [0..n -> Int] : g[0] = 0 /\ \A k \in 1..n : g[k] = g[k - 1] + cost[k]
  BY <1>3, SumExists
<1>6. g = [k \in 0..n |-> IF k = 0 THEN 0 ELSE g[k - 1] + IF m[k].host = x THEN m[k].cost ELSE 0]
  BY <1>4, <1>5
<1>7. total = [k \in 0..n |-> IF k = 0 THEN 0 ELSE total[k - 1] + IF m[k].host = x THEN m[k].cost ELSE 0]
  BY <1>1, <1>6
<1> HIDE DEF total
<1>8. total[0] = 0
  BY <1>7
<1>9. \A k \in 1..n : total[k] = total[k - 1] + IF m[k].host = x THEN m[k].cost ELSE 0
  <2>1. \A k \in 1..n : k \in 0..n /\ k # 0
    OBVIOUS
  <2> QED BY <1>7, <2>1
<1>10. total \in [0..n -> Int]
  <2> DEFINE Bad == {k \in 0..n : total[k] \notin Int}
  <2>1. SUFFICES ASSUME Bad # {} PROVE FALSE
    BY <1>7, <2>1
  <2>2. PICK k \in Bad : \A l \in Bad : k <= l
    <3>1. Bad \in SUBSET Nat
      OBVIOUS
    <3> HIDE DEF Bad
    <3> QED BY <2>1, <3>1, LeastNat
  <2>3. k \in 1..n /\ k - 1 \in 0..n /\ k - 1 \notin Bad
    BY <1>8, <2>2
  <2>4. total[k - 1] \in Int
    BY <2>3
  <2>5. total[k] \in Int
    BY <1>9, <2>3, <2>4
  <2> QED BY <2>2, <2>5
<1>11. IsTotal(total, n, m, x)
  BY <1>1, <1>2, <1>8, <1>9 DEF IsTotal
<1> QED BY <1>10, <1>11

(* The costs of a host among the first k add up to the cost of its last one. *)
LEMMA CostsTelescope ==
  ASSUME NEW d \in Seq(Results), NEW m, m = [k \in 1..Len(d) |-> m[k]],
         NEW ordered \in [1..Len(d) -> 1..Len(d)], NEW place \in [1..Len(d) -> 1..Len(d)],
         OwnCosts(d, m, ordered, place),
         NEW x \in HostsIn(d)
  PROVE  TotalCost(x, m) = d[Max(IndicesOf(x, d))].cost
<1> DEFINE n == Len(d)
           X == IndicesOf(x, d)
           Upto(k) == {i \in X : place[i] <= k}
           CostAt(k) == IF Upto(k) = {} THEN 0 ELSE d[Max(Upto(k))].cost
<1>1. n \in Nat /\ DOMAIN d = 1..n /\ \A i \in 1..n : d[i].cost \in Int
  BY ResultFields
<1>2. X \in SUBSET (1..n) /\ X # {} /\ \A i \in 1..n : i \in X <=> d[i].host = x
  BY <1>1, IndicesProperties DEF IndicesOf
<1>3. ASSUME NEW i \in 1..n PROVE EarlierOf(i, d) \in SUBSET (1..n)
  BY <1>1 DEF EarlierOf, IndicesOf
<1>4. \A k \in 1..n : m[k].cost \in Int
  <2> TAKE k \in 1..n
  <2> DEFINE i == ordered[k]
  <2>1. i \in 1..n
    OBVIOUS
  <2>2. EarlierOf(i, d) # {} => Max(EarlierOf(i, d)) \in 1..n
    BY <1>1, <1>3, <2>1, MaxOfIndices
  <2>3. m[k].cost = IF EarlierOf(i, d) = {} THEN d[i].cost ELSE d[i].cost - d[Max(EarlierOf(i, d))].cost
    BY DEF OwnCosts
  <2> HIDE DEF i, n
  <2>4. d[i].cost \in Int /\ (EarlierOf(i, d) # {} => d[Max(EarlierOf(i, d))].cost \in Int)
    BY <1>1, <2>1, <2>2
  <2>5. \A a, b \in Int : a - b \in Int
    OBVIOUS
  <2> QED BY <2>3, <2>4, <2>5
<1> HIDE DEF n
<1>5. PICK g \in [0..n -> Int] : IsTotal(g, n, m, x)
  <2>1. m = [k \in 1..n |-> m[k]]
    BY DEF n
  <2> QED BY <1>1, <1>4, <2>1, TotalCostProperties
<1> USE DEF n
<1>6. ASSUME NEW k \in 1..n, g[k - 1] = CostAt(k - 1) PROVE g[k] = CostAt(k)
  <2> DEFINE i == ordered[k]
  <2>1. i \in 1..n /\ place[i] = k /\ m[k].host = d[i].host
    BY DEF OwnCosts
  <2>2. \A j \in 1..n : place[j] = k => j = i
    BY DEF OwnCosts
  <2>3. \A j \in X : j \in 1..n /\ place[j] \in 1..n
    BY <1>2
  <2>4. \A a \in 1..n : a <= k <=> a <= k - 1 \/ a = k
    BY <1>1
  <2>5. m[k].cost = IF EarlierOf(i, d) = {} THEN d[i].cost ELSE d[i].cost - d[Max(EarlierOf(i, d))].cost
    BY DEF OwnCosts
  <2>6. g[k] = g[k - 1] + IF m[k].host = x THEN m[k].cost ELSE 0
    BY <1>5 DEF IsTotal
  <2> HIDE DEF i, n, X
  <2>7. CASE d[i].host # x
    <3>1. i \notin X
      BY <1>2, <2>1, <2>7
    <3>2. Upto(k) = Upto(k - 1)
      BY <2>2, <2>3, <2>4, <3>1
    <3>3. CostAt(k) = CostAt(k - 1)
      BY <3>2
    <3>4. k - 1 \in 0..n
      BY <1>1
    <3>5. g[k - 1] \in Int
      BY <1>5, <3>4
    <3> QED BY <1>6, <2>1, <2>6, <2>7, <3>3, <3>5
  <2>8. CASE d[i].host = x
    <3>1. i \in X
      BY <1>2, <2>1, <2>8
    <3>2. Upto(k) = Upto(k - 1) \cup {i}
      BY <2>1, <2>2, <2>3, <2>4, <3>1
    <3>3. \A j \in X : j < i <=> place[j] <= k - 1
      <4> TAKE j \in X
      <4>1. d[j].host = d[i].host /\ j \in 1..n
        BY <1>2, <2>3, <2>8
      <4>2. j <= i <=> place[j] <= k
        BY <2>1, <4>1 DEF n, OwnCosts
      <4>3. j = i <=> place[j] = k
        BY <2>1, <2>2, <4>1
      <4>4. j \in Nat /\ i \in Nat /\ place[j] \in Nat /\ k \in Nat
        BY <1>1, <2>1, <2>3, <4>1
      <4>5. \A a, b \in Nat : a < b <=> a <= b /\ a # b
        OBVIOUS
      <4>6. \A a, b \in Nat : a <= b - 1 <=> a <= b /\ a # b
        OBVIOUS
      <4> QED BY <4>2, <4>3, <4>4, <4>5, <4>6
    <3>4. EarlierOf(i, d) = Upto(k - 1)
      BY <2>8, <3>3 DEF EarlierOf, X
    <3>5. Max(Upto(k)) = i
      <4>1. Upto(k) \in SUBSET (1..n) /\ i \in Upto(k)
        BY <1>2, <3>2
      <4>2. \A j \in Upto(k) : j <= i
        <5>1. \A j \in Upto(k - 1) : j < i /\ j \in 1..n
          BY <2>3, <3>3
        <5>2. \A a, b \in 1..n : a < b => a <= b
          BY <1>1
        <5>3. i <= i
          BY <1>1, <2>1
        <5> HIDE DEF Upto
        <5> QED BY <2>1, <3>2, <5>1, <5>2, <5>3
      <4> HIDE DEF Upto
      <4> QED BY <1>1, <4>1, <4>2, MaxIs
    <3>6. CostAt(k) = d[i].cost /\ d[i].cost \in Int
      <4>1. Upto(k) # {}
        BY <3>2
      <4> HIDE DEF Upto
      <4> QED BY <1>1, <2>1, <3>5, <4>1
    <3> HIDE DEF Upto
    <3>7. CASE Upto(k - 1) = {}
      <4>1. CostAt(k - 1) = 0 /\ m[k].cost = d[i].cost
        BY <2>5, <3>4, <3>7
      <4> QED BY <1>6, <2>1, <2>6, <2>8, <3>6, <4>1
    <3>8. CASE Upto(k - 1) # {}
      <4> DEFINE e == d[Max(Upto(k - 1))].cost
      <4>1. CostAt(k - 1) = e /\ m[k].cost = d[i].cost - e
        BY <2>5, <3>4, <3>8
      <4>2. Max(Upto(k - 1)) \in 1..n
        BY <1>1, <1>3, <2>1, <3>4, <3>8, MaxOfIndices
      <4>3. e \in Int
        BY <1>1, <4>2
      <4> HIDE DEF e, CostAt
      <4>4. g[k] = e + (d[i].cost - e)
        BY <1>6, <2>1, <2>6, <2>8, <4>1
      <4> QED BY <3>6, <4>3, <4>4
    <3> QED BY <3>7, <3>8
  <2> QED BY <2>7, <2>8
<1>7. \A k \in 0..n : g[k] = CostAt(k)
  <2> DEFINE Bad == {k \in 0..n : g[k] # CostAt(k)}
  <2>1. SUFFICES ASSUME Bad # {} PROVE FALSE
    BY <2>1
  <2> HIDE DEF CostAt
  <2>2. PICK k \in Bad : \A l \in Bad : k <= l
    <3>1. Bad \in SUBSET Nat
      BY <1>1
    <3> HIDE DEF Bad
    <3> QED BY <2>1, <3>1, LeastNat
  <2>3. CostAt(0) = 0
    <3>1. \A i \in X : place[i] \in 1..n
      BY <1>2
    <3>2. Upto(0) = {}
      BY <1>1, <3>1
    <3> QED BY <3>2 DEF CostAt
  <2>4. k # 0
    BY <1>5, <2>2, <2>3 DEF IsTotal
  <2>5. k \in 1..n /\ k - 1 \in 0..n /\ k - 1 \notin Bad
    BY <1>1, <2>2, <2>4
  <2>6. g[k - 1] = CostAt(k - 1)
    BY <2>5
  <2>7. g[k] = CostAt(k)
    BY <1>6, <2>5, <2>6
  <2> QED BY <2>2, <2>7
<1>8. CostAt(n) = d[Max(X)].cost
  <2>1. \A i \in X : place[i] <= n
    BY <1>1, <1>2
  <2> HIDE DEF X, n
  <2>2. Upto(n) = X
    BY <2>1
  <2> HIDE DEF Upto
  <2> QED BY <1>2, <2>2
<1>9. TotalCost(x, m) = g[n] /\ n \in 0..n
  BY <1>1, <1>5 DEF IsTotal
<1> HIDE DEF CostAt
<1>10. g[n] = CostAt(n)
  BY <1>7, <1>9
<1> QED BY <1>8, <1>9, <1>10 DEF X

LEMMA CostsAddUpHolds == TypeOK /\ ResultsInv => CostsAddUp
<1> SUFFICES ASSUME TypeOK, ResultsInv, report.made, job.response # "sync", job.playbook_script PROVE CostsAddUp
  BY DEF CostsAddUp
<1>1. data \in Seq(Results) /\ Len(data) \in Nat
  BY ResultFields DEF TypeOK
<1>2. report.data = Merged
  BY ReportCases
<1>3. Merged = [k \in 1..Len(data) |-> Merged[k]]
  BY MergedOfAll
<1>4. Len(Merged) = Len(data)
  BY <1>1, <1>3, FunctionIsSeq
<1>5. PICK ordered \in [1..Len(data) -> 1..Len(data)], place \in [1..Len(data) -> 1..Len(data)] :
        OwnCosts(data, Merged, ordered, place)
  BY MergedOfAll
<1>6. \A x \in HostsIn(data) : TotalCost(x, Merged) = data[Max(IndicesOf(x, data))].cost
  BY <1>1, <1>3, <1>5, CostsTelescope
<1>7. DOMAIN ended_at = HostsIn(data) /\ \A x \in HostsIn(data) : ended_at[x] = data[Max(IndicesOf(x, data))].cost
  BY DEF ResultsInv, Tracked
<1> QED BY <1>2, <1>4, <1>6, <1>7 DEF CostsAddUp

(* The report of a job says "success" exactly when no callback counted an    *)
(* error, whatever the hosts, the targets they share and the tasks.          *)
THEOREM FailuresAreReported == Spec => []FailureReported
<1>1. TypeOK /\ ResultsInv => FailureReported
  BY FailureReportedHolds
<1> QED BY <1>1, ResultsRecorded, PTL

(* Each target that has a result has one in the report: its first failure or *)
(* its last result, with its own message, but for the first of the report.   *)
THEOREM ResultsAreReported == Spec => []ReportedResult
<1>1. TypeOK /\ ResultsInv => ReportedResult
  BY ReportedResultHolds
<1> QED BY <1>1, ResultsRecorded, PTL

(* The costs that are worked out of the results of a playbook script add up, *)
(* for each target, to the time at which its last task ended.                *)
THEOREM CostsAreOwn == Spec => []CostsAddUp
<1>1. TypeOK /\ ResultsInv => CostsAddUp
  BY CostsAddUpHolds
<1> QED BY <1>1, ResultsRecorded, PTL
=============================================================================
