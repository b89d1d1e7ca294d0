---------------------------- MODULE MCTaskTables ----------------------------
(* Instances of TaskTables for TLC. *)
EXTENDS TaskTables, TLC

CONSTANTS q1, q2, h1, h2

Symmetry == Permutations(Conns)

(* Bound: four calls with two locked commits, or three with four, which use up *)
(* both retry loops of a statement.                                            *)
FewCallsOrLocks == calls <= 3 \/ busy <= 2

CommonHost == (q1 :> <<h1, h2>>) @@ (q2 :> <<h2>>)
=============================================================================
