--------------------------- MODULE ThreadsMonitor ---------------------------
(***************************************************************************)
(* The ThreadsMonitor of a web server (common/threads_monitor.py) and the  *)
(* threads of jobs that job_exec puts into threads_pool.  The monitor      *)
(* takes out what has ended and terminates what is late; job_exec adds     *)
(* threads meanwhile, threads end whenever they like, and the monitor      *)
(* holds the lock for a single pop, not for its pass over the pool.        *)
(*                                                                         *)
(* The iterator of a dictionary is Python 3's (external): it visits the    *)
(* entries in the order of their insertion and raises RuntimeError when    *)
(* the dictionary has not the size any more that it had when it began.     *)
(***************************************************************************)
EXTENDS Integers, Sequences, FiniteSets, Functions

CONSTANT Threads

VARIABLES
  state,       \* of a thread: none, alive, ended
  late,        \* the threads that have been running for thread.timeout
  entries,     \* the threads in the order they were added to threads_pool
  pool,        \* those that are still in threads_pool
  stop,        \* self.stop
  pc,          \* the monitor: sleep, next, look, terminate, pop; done, dead
  position, size,   \* its iterator: the entry it has come to, the size it expects
  final,       \* the pass after the loop
  terminated   \* history: the threads that were sent a SystemExit, in order

dict == <<entries, pool>>
iterator == <<position, size>>
vars == <<state, late, dict, stop, pc, iterator, final, terminated>>

Added == Range(entries)
Current == entries[position]

Init ==
  /\ state = [t \in Threads |-> "none"]
  /\ late = {} /\ pool = {}
  /\ entries = <<>> /\ terminated = <<>>
  /\ stop = FALSE /\ final = FALSE
  /\ pc = "sleep"
  /\ position = 0 /\ size = 0

----------------------------------------------------------------------------
(* The threads, and job_exec: start(), then global_dict_update("append"). *)

StartThread(t) ==
  /\ state[t] = "none"
  /\ state' = [state EXCEPT ![t] = "alive"]
  /\ UNCHANGED <<late, dict, stop, pc, iterator, final, terminated>>

AddThread(t) ==
  /\ state[t] # "none" /\ t \notin Added
  /\ entries' = Append(entries, t)
  /\ pool' = pool \cup {t}
  /\ UNCHANGED <<state, late, stop, pc, iterator, final, terminated>>

(* A thread that was sent a SystemExit may end later, or never. *)
EndThread(t) ==
  /\ state[t] = "alive"
  /\ state' = [state EXCEPT ![t] = "ended"]
  /\ UNCHANGED <<late, dict, stop, pc, iterator, final, terminated>>

BecomeLate(t) ==
  /\ state[t] = "alive" /\ t \notin late
  /\ late' = late \cup {t}
  /\ UNCHANGED <<state, dict, stop, pc, iterator, final, terminated>>

(* main() at its end: monitor.terminate(). *)
Terminate ==
  /\ ~stop
  /\ stop' = TRUE
  /\ UNCHANGED <<state, late, dict, pc, iterator, final, terminated>>

----------------------------------------------------------------------------
(* run(), force_stop_thread(). *)

Begin(place) == pc' = place /\ position' = 0 /\ size' = Cardinality(pool)

(* time.sleep(5), then for thread in threads_pool.keys(). *)
BeginPass ==
  /\ pc = "sleep"
  /\ Begin("next")
  /\ UNCHANGED <<state, late, dict, stop, final, terminated>>

(* Mutant: every pass is followed by another one. *)
EndPassUnstopped == pc' = "sleep" /\ UNCHANGED <<iterator, final>>

(* while not self.stop, and the final pass. *)
EndPass ==
  IF final THEN pc' = "done" /\ UNCHANGED <<iterator, final>>
  ELSE IF stop THEN Begin("next") /\ final' = TRUE
  ELSE pc' = "sleep" /\ UNCHANGED <<iterator, final>>

Left == {i \in position + 1 .. Len(entries) : entries[i] \in pool}

NextThread ==
  /\ pc = "next"
  /\ IF Cardinality(pool) # size THEN pc' = "dead" /\ UNCHANGED <<iterator, final>>
     ELSE IF Left = {} THEN EndPass
     ELSE /\ \E i \in Left : (\A j \in Left : i <= j) /\ position' = i
          /\ pc' = "look"
          /\ UNCHANGED <<size, final>>
  /\ UNCHANGED <<state, late, dict, stop, terminated>>

(* Mutant: the test of the duration is for threads that ended. *)
LookSwapped ==
  /\ pc = "look"
  /\ pc' = IF state[Current] = "alive" THEN "pop"
           ELSE IF stop \/ Current \in late THEN "terminate"
           ELSE "next"
  /\ UNCHANGED <<state, late, dict, stop, iterator, final, terminated>>

(* isAlive(), and the duration of a thread that is. *)
Look ==
  /\ pc = "look"
  /\ pc' = IF state[Current] # "alive" THEN "pop"
           ELSE IF stop \/ Current \in late THEN "terminate"
           ELSE "next"
  /\ UNCHANGED <<state, late, dict, stop, iterator, final, terminated>>

(* Mutant: what was terminated is left for the next pass. *)
TerminateOnly ==
  /\ pc = "terminate"
  /\ IF state[Current] = "alive"
     THEN pc' = "next" /\ terminated' = Append(terminated, Current)
     ELSE pc' = "dead" /\ UNCHANGED terminated
  /\ UNCHANGED <<state, late, dict, stop, iterator, final>>

(* thread.terminate(): ThreadError or ValueError when it has ended meanwhile. *)
TerminateThread ==
  /\ pc = "terminate"
  /\ IF state[Current] = "alive"
     THEN pc' = "pop" /\ terminated' = Append(terminated, Current)
     ELSE pc' = "dead" /\ UNCHANGED terminated
  /\ UNCHANGED <<state, late, dict, stop, iterator, final>>

(* global_dict_update("pop"). *)
PopThread ==
  /\ pc = "pop"
  /\ pool' = pool \ {Current}
  /\ pc' = "next"
  /\ UNCHANGED <<state, late, entries, stop, iterator, final, terminated>>

MonitorStep == BeginPass \/ NextThread \/ Look \/ TerminateThread \/ PopThread

Next ==
  \/ \E t \in Threads : StartThread(t) \/ AddThread(t) \/ EndThread(t) \/ BecomeLate(t)
  \/ Terminate
  \/ MonitorStep

Spec == Init /\ [][Next]_vars

(* The thread of the monitor runs on. *)
FairSpec == Spec /\ WF_vars(MonitorStep)

----------------------------------------------------------------------------
(* The properties. *)

(* The variables keep their types; the monitor looks at a thread it found in the pool. *)
TypeOK ==
  /\ state \in [Threads -> {"none", "alive", "ended"}]
  /\ late \subseteq Threads
  /\ entries \in Seq(Threads) /\ terminated \in Seq(Threads)
  /\ pool \subseteq Added /\ IsFiniteSet(pool)
  /\ stop \in BOOLEAN /\ final \in BOOLEAN
  /\ pc \in {"sleep", "next", "look", "terminate", "pop", "done", "dead"}
  /\ position \in 0 .. Len(entries) /\ size \in Nat
  /\ pc \in {"look", "terminate", "pop"} => position # 0 /\ Current \in pool

(* A thread is out of the pool only when it has ended or was told to. *)
NoThreadForgotten ==
  \A t \in Added \ pool : state[t] = "ended" \/ t \in Range(terminated)

(* A job is terminated once, however long it takes to end, and only when it  *)
(* is late or the service stops.                                              *)
TerminatedOnce ==
  /\ \A i, j \in DOMAIN terminated : terminated[i] = terminated[j] => i = j
  /\ ~stop => Range(terminated) \subseteq late

(* A service that stops is not kept by its monitor, "Final force cleanup the *)
(* unfinished threads": the monitor ends, though it may have died.           *)
MonitorEnds == stop ~> pc \in {"done", "dead"}

(* "The class monitor all bocloud_worker threads. It regularly check threads *)
(* status": the monitor does not die.                                        *)
MonitorSurvives == pc # "dead"
=============================================================================
