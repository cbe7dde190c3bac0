------------------------------ MODULE MCEngine ------------------------------
(* One engine for TLC, over one supervisor in one process that may crash. *)
EXTENDS Engine, TLC

CONSTANTS s1, p1

Alone    == s1 :> p1
Symmetry == Permutations(Workers)
=============================================================================
