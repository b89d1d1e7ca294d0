----------------------------- MODULE MCJobExec -----------------------------
(* Instances of JobExec for TLC. *)
EXTENDS JobExec, TLC

CONSTANTS q1, q2, t1, t2, t3, h1, h2

(* Two jobs of two queues on common hosts, or a job executed by celery, by the *)
(* recovery that found it NEW and by one that found it RUNNING.                *)
TwoQueues == (t1 :> q1) @@ (t2 :> q2)
OneQueue == [t \in {t1, t2, t3} |-> q1]

BothHosts == [t \in Threads |-> <<h1, h2>>]
OneHost == [t \in Threads |-> <<h1>>]
TwoAndOne == (t1 :> <<h1, h2>>) @@ (t2 :> <<h2>>)

(* Bound: two executions of a job, celery's and the recovery's of the NEW row, *)
(* which are alike, or one of these and that of the RUNNING row.               *)
Symmetry == Permutations({t1, t2})
TwoExecutions == Cardinality({t \in Threads : caller[t] # "idle"}) <= 2
=============================================================================
