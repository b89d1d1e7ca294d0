------------------------ MODULE ThreadsMonitorProofs ------------------------
(***************************************************************************)
(* Proofs about ThreadsMonitor, for any number of threads.  The inductive  *)
(* invariant is                                                            *)
(*                                                                         *)
(*   Inv == TypeOK /\ PoolInv /\ NoThreadForgotten /\ TerminatedOnce        *)
(***************************************************************************)
EXTENDS ThreadsMonitor, TLAPS, FiniteSetTheorems

(* Only started threads are in the pool; what was terminated is taken out   *)
(* by the very next step of the monitor; and the monitor terminates or pops *)
(* only what its tests of the thread allow.                                 *)
PoolInv ==
  /\ \A t \in Added : state[t] # "none"
  /\ Range(terminated) \subseteq Added
  /\ \A t \in Range(terminated) : t \in pool => pc = "pop" /\ t = Current
  /\ pc = "terminate" => stop \/ Current \in late
  /\ pc = "pop" => state[Current] = "ended" \/ Current \in Range(terminated)

Inv == TypeOK /\ PoolInv /\ NoThreadForgotten /\ TerminatedOnce

(* Appending adds one element at the end. *)
LEMMA AppendFacts ==
  ASSUME NEW S, NEW s \in Seq(S), NEW e \in S
  PROVE  /\ Append(s, e) \in Seq(S)
         /\ Range(Append(s, e)) = Range(s) \cup {e}
         /\ Len(Append(s, e)) = Len(s) + 1
         /\ \A i \in DOMAIN s : i \in DOMAIN Append(s, e) /\ Append(s, e)[i] = s[i]
<1>1. /\ Append(s, e) \in Seq(S)
      /\ Len(Append(s, e)) = Len(s) + 1
      /\ DOMAIN Append(s, e) = 1 .. Len(s) + 1
      /\ DOMAIN s = 1 .. Len(s)
      /\ Len(s) \in Nat
      /\ \A i \in 1 .. Len(s) : Append(s, e)[i] = s[i]
      /\ Append(s, e)[Len(s) + 1] = e
  OBVIOUS
<1>2. Range(Append(s, e)) = Range(s) \cup {e}
  <2>1. ASSUME NEW x \in Range(Append(s, e)) PROVE x \in Range(s) \cup {e}
    BY <1>1 DEF Range
  <2>2. ASSUME NEW x \in Range(s) PROVE x \in Range(Append(s, e))
    BY <1>1 DEF Range
  <2>3. e \in Range(Append(s, e))
    BY <1>1 DEF Range
  <2> QED BY <2>1, <2>2, <2>3
<1> QED BY <1>1, <1>2

LEMMA InitInv == Init => Inv
<1> SUFFICES ASSUME Init PROVE Inv
  OBVIOUS
<1>1. Range(<<>>) = {}
  BY DEF Range
<1>2. IsFiniteSet({})
  BY FS_EmptySet
<1>3. entries \in Seq(Threads) /\ terminated \in Seq(Threads) /\ Len(entries) = 0
  BY DEF Init
<1>4. pool \subseteq Added /\ IsFiniteSet(pool)
  BY <1>2 DEF Init
<1>5. stop \in BOOLEAN /\ final \in BOOLEAN
  BY DEF Init
<1>6. TypeOK
  BY <1>3, <1>4, <1>5 DEF Init, TypeOK
<1> QED
  BY <1>1, <1>6 DEF Init, Inv, PoolInv, NoThreadForgotten, TerminatedOnce, Added

(* The steps of the threads and of job_exec. *)
LEMMA ThreadsInv ==
  ASSUME Inv, NEW t \in Threads, StartThread(t) \/ EndThread(t) \/ BecomeLate(t)
  PROVE  Inv'
<1> USE DEF Inv, Added, Current, dict, iterator
<1>1. UNCHANGED <<entries, pool, stop, pc, position, size, final, terminated>>
  BY DEF StartThread, EndThread, BecomeLate
<1>2. /\ state' \in [Threads -> {"none", "alive", "ended"}]
      /\ late \subseteq late' /\ late' \subseteq Threads
      /\ \A u \in Threads : state[u] # "none" => state'[u] # "none"
      /\ \A u \in Threads : state[u] = "ended" => state'[u] = "ended"
  BY DEF StartThread, EndThread, BecomeLate, TypeOK
<1>3. Range(entries) \subseteq Threads
  BY DEF TypeOK, Range
<1>4. TypeOK'
  BY <1>1, <1>2 DEF TypeOK
<1>5. PoolInv'
  BY <1>1, <1>2, <1>3 DEF PoolInv, TypeOK
<1>6. NoThreadForgotten' /\ TerminatedOnce'
  BY <1>1, <1>2, <1>3 DEF NoThreadForgotten, TerminatedOnce
<1> QED BY <1>4, <1>5, <1>6

(* job_exec adds a thread it started. *)
LEMMA AddThreadInv ==
  ASSUME Inv, NEW t \in Threads, AddThread(t)
  PROVE  Inv'
<1> USE DEF Inv, Added
<1>1. /\ state[t] # "none" /\ t \notin Range(entries)
      /\ entries' = Append(entries, t) /\ pool' = pool \cup {t}
      /\ UNCHANGED <<state, late, stop, pc, position, size, final, terminated>>
  BY DEF AddThread, iterator
<1>2. /\ entries' \in Seq(Threads)
      /\ Range(entries') = Range(entries) \cup {t}
      /\ Len(entries') = Len(entries) + 1
      /\ \A i \in DOMAIN entries : entries'[i] = entries[i]
  BY <1>1, AppendFacts DEF TypeOK
<1>3. DOMAIN entries = 1 .. Len(entries) /\ Len(entries) \in Nat
  BY DEF TypeOK
<1>4. pc \in {"look", "terminate", "pop"} => Current' = Current /\ position \in DOMAIN entries
  BY <1>1, <1>2, <1>3 DEF TypeOK, Current
<1>5. IsFiniteSet(pool')
  BY <1>1, FS_AddElement DEF TypeOK
<1>6. TypeOK'
  BY <1>1, <1>2, <1>3, <1>4, <1>5 DEF TypeOK
<1>7. PoolInv'
  BY <1>1, <1>2, <1>4 DEF PoolInv
<1>8. NoThreadForgotten' /\ TerminatedOnce'
  BY <1>1, <1>2 DEF NoThreadForgotten, TerminatedOnce
<1> QED BY <1>6, <1>7, <1>8

(* main() stops the monitor. *)
LEMMA TerminateInv == ASSUME Inv, Terminate PROVE Inv'
BY DEF Inv, Terminate, TypeOK, PoolInv, NoThreadForgotten, TerminatedOnce, Added, Current, dict, iterator

(* A pass begins, or the iterator comes to the next thread in the pool. *)
LEMMA IterateInv == ASSUME Inv, BeginPass \/ NextThread PROVE Inv'
<1> USE DEF Inv, Added
<1>1. UNCHANGED <<state, late, entries, pool, stop, terminated>>
  BY DEF BeginPass, NextThread, dict
<1>2. pc \in {"sleep", "next"} /\ pc' \in {"sleep", "next", "look", "done", "dead"}
  BY DEF BeginPass, NextThread, Begin, EndPass
<1>3. Cardinality(pool) \in Nat
  BY FS_CardinalityType DEF TypeOK
<1>4. /\ size' \in Nat /\ final' \in BOOLEAN
      /\ position' \in 0 .. Len(entries)
      /\ pc' = "look" => position' # 0 /\ entries[position'] \in pool
  <2>1. Len(entries) \in Nat
    BY DEF TypeOK
  <2>2. position \in 0 .. Len(entries) /\ size \in Nat /\ final \in BOOLEAN
    BY DEF TypeOK
  <2>3. CASE BeginPass
    BY <1>3, <2>1, <2>2, <2>3 DEF BeginPass, Begin
  <2>4. CASE NextThread /\ pc' # "look"
    <3>1. \/ position' = position /\ size' = size /\ final' = final
          \/ position' = 0 /\ size' = Cardinality(pool) /\ final' = TRUE
      BY <2>4 DEF NextThread, Begin, EndPass, iterator
    <3>2. final' \in BOOLEAN
      BY <2>2, <3>1, Zenon
    <3>3. size' \in Nat
      BY <1>3, <2>2, <3>1
    <3>4. position' \in 0 .. Len(entries)
      BY <2>1, <2>2, <3>1
    <3> QED BY <2>4, <3>2, <3>3, <3>4
  <2>5. CASE NextThread /\ pc' = "look"
    <3>1. /\ \E i \in Left : position' = i
          /\ size' = size /\ final' = final
      BY <1>2, <2>5 DEF NextThread, Begin, EndPass, iterator
    <3> QED BY <2>1, <2>2, <3>1 DEF Left
  <2> QED BY <2>3, <2>4, <2>5
<1>5. TypeOK'
  BY <1>1, <1>2, <1>4 DEF TypeOK, Current
<1>6. PoolInv'
  BY <1>1, <1>2 DEF PoolInv
<1>7. NoThreadForgotten' /\ TerminatedOnce'
  BY <1>1 DEF NoThreadForgotten, TerminatedOnce
<1> QED BY <1>5, <1>6, <1>7

(* The monitor looks at the thread it has come to. *)
LEMMA LookInv == ASSUME Inv, Look PROVE Inv'
<1> USE DEF Inv, Added
<1>1. UNCHANGED <<state, late, entries, pool, stop, position, size, final, terminated>>
  BY DEF Look, dict, iterator
<1>2. /\ pc = "look" /\ Current \in pool /\ Current' = Current
      /\ pc' = "pop" => state[Current] # "alive"
      /\ pc' = "terminate" => stop \/ Current \in late
      /\ pc' \in {"pop", "terminate", "next"}
  BY <1>1 DEF Look, TypeOK, Current
<1>3. Range(entries) \subseteq Threads
  BY DEF TypeOK, Range
<1>4. state[Current] \in {"none", "alive", "ended"} /\ state[Current] # "none"
  BY <1>2, <1>3 DEF TypeOK, PoolInv
<1>5. TypeOK'
  BY <1>1, <1>2 DEF TypeOK
<1>6. PoolInv'
  BY <1>1, <1>2, <1>4 DEF PoolInv
<1>7. NoThreadForgotten' /\ TerminatedOnce'
  BY <1>1 DEF NoThreadForgotten, TerminatedOnce
<1> QED BY <1>5, <1>6, <1>7

(* The thread is sent a SystemExit, or the monitor dies. *)
LEMMA TerminateThreadInv == ASSUME Inv, TerminateThread PROVE Inv'
<1> USE DEF Inv, Added
<1>1. UNCHANGED <<state, late, entries, pool, stop, position, size, final>>
  BY DEF TerminateThread, dict, iterator
<1>2. pc = "terminate" /\ Current \in pool /\ Current' = Current
  BY <1>1 DEF TerminateThread, TypeOK, Current
<1>3. Current \in Threads /\ Current \notin Range(terminated) /\ (stop \/ Current \in late)
  BY <1>2 DEF PoolInv, TypeOK, Range
<1>4. CASE state[Current] = "alive"
  <2>1. pc' = "pop" /\ terminated' = Append(terminated, Current)
    BY <1>4 DEF TerminateThread
  <2>2. /\ terminated' \in Seq(Threads)
        /\ Range(terminated') = Range(terminated) \cup {Current}
        /\ Len(terminated') = Len(terminated) + 1
        /\ \A i \in DOMAIN terminated : terminated'[i] = terminated[i]
    BY <1>3, <2>1, AppendFacts DEF TypeOK
  <2>3. terminated'[Len(terminated) + 1] = Current
    BY <1>3, <2>1 DEF TypeOK
  <2>4. TypeOK'
    BY <1>1, <1>2, <2>1, <2>2 DEF TypeOK
  <2>5. PoolInv'
    BY <1>1, <1>2, <2>1, <2>2 DEF PoolInv, TypeOK
  <2>6. NoThreadForgotten'
    BY <1>1, <2>2 DEF NoThreadForgotten
  <2>7. \A i, j \in DOMAIN terminated' : terminated'[i] = terminated'[j] => i = j
    <3>1. /\ DOMAIN terminated = 1 .. Len(terminated)
          /\ DOMAIN terminated' = 1 .. Len(terminated) + 1
          /\ Len(terminated) \in Nat
      BY <2>2 DEF TypeOK
    <3>2. \A i \in DOMAIN terminated : terminated[i] # Current
      BY <1>3 DEF Range
    <3> QED BY <2>2, <2>3, <3>1, <3>2 DEF TerminatedOnce
  <2>8. TerminatedOnce'
    BY <1>1, <1>3, <2>2, <2>7 DEF TerminatedOnce
  <2> QED BY <2>4, <2>5, <2>6, <2>8
<1>5. CASE state[Current] # "alive"
  <2>1. pc' = "dead" /\ UNCHANGED terminated
    BY <1>5 DEF TerminateThread
  <2> QED
    BY <1>1, <1>2, <2>1 DEF TypeOK, PoolInv, NoThreadForgotten, TerminatedOnce
<1> QED BY <1>4, <1>5

(* The thread is taken out of the pool. *)
LEMMA PopThreadInv == ASSUME Inv, PopThread PROVE Inv'
<1> USE DEF Inv, Added
<1>1. /\ UNCHANGED <<state, late, entries, stop, position, size, final, terminated>>
      /\ pc = "pop" /\ pc' = "next" /\ pool' = pool \ {Current}
  BY DEF PopThread, iterator
<1>2. IsFiniteSet(pool')
  BY <1>1, FS_RemoveElement DEF TypeOK
<1>3. TypeOK'
  BY <1>1, <1>2 DEF TypeOK
<1>4. PoolInv'
  BY <1>1 DEF PoolInv
<1>5. NoThreadForgotten' /\ TerminatedOnce'
  BY <1>1 DEF NoThreadForgotten, TerminatedOnce, PoolInv
<1> QED BY <1>3, <1>4, <1>5

LEMMA StutterInv == ASSUME Inv, UNCHANGED vars PROVE Inv'
BY DEF Inv, vars, TypeOK, PoolInv, NoThreadForgotten, TerminatedOnce, Added, Current, dict, iterator

(* Inv holds in every reachable state. *)
THEOREM Invariance == Spec => []Inv
<1>1. Inv /\ [Next]_vars => Inv'
  <2> SUFFICES ASSUME Inv, [Next]_vars PROVE Inv'
    OBVIOUS
  <2>1. CASE UNCHANGED vars
    BY <2>1, StutterInv
  <2>2. ASSUME NEW t \in Threads, StartThread(t) \/ AddThread(t) \/ EndThread(t) \/ BecomeLate(t) PROVE Inv'
    BY <2>2, ThreadsInv, AddThreadInv
  <2>3. CASE Terminate
    BY <2>3, TerminateInv
  <2>4. CASE MonitorStep
    BY <2>4, IterateInv, LookInv, TerminateThreadInv, PopThreadInv DEF MonitorStep
  <2> QED BY <2>1, <2>2, <2>3, <2>4 DEF Next
<1> QED BY <1>1, InitInv, PTL DEF Spec

(* The variables keep their types, and the monitor only ever looks at,       *)
(* terminates or pops a thread that is in threads_pool.                      *)
THEOREM TypeCorrect == Spec => []TypeOK
BY Invariance, PTL DEF Inv

(* Whatever the interleaving of the monitor's pass with job_exec and with    *)
(* the ends of the threads, force_stop_thread takes out of the pool only     *)
(* what has ended or was terminated.                                         *)
THEOREM NoneForgotten == Spec => []NoThreadForgotten
BY Invariance, PTL DEF Inv

(* A thread is terminated once, and only when late or when the service stops. *)
THEOREM EachTerminatedOnce == Spec => []TerminatedOnce
BY Invariance, PTL DEF Inv
=============================================================================
