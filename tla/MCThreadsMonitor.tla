-------------------------- MODULE MCThreadsMonitor --------------------------
(* Instances of ThreadsMonitor for TLC. *)
EXTENDS ThreadsMonitor

CONSTANTS t1, t2, t3

=============================================================================
