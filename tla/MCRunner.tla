------------------------------ MODULE MCRunner ------------------------------
(***************************************************************************)
(* Instances of Runner for model checking.                                 *)
(***************************************************************************)
EXTENDS Runner, TLC

LoopSymmetry == Permutations(Loop)
=============================================================================
