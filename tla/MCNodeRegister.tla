--------------------------- MODULE MCNodeRegister ---------------------------
(* Instances of NodeRegister for TLC. *)
EXTENDS NodeRegister, TLC

CONSTANTS w1, w2, w3

Symmetry == Permutations({w1, w2, w3})
=============================================================================
