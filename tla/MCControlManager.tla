-------------------------- MODULE MCControlManager --------------------------
(* Model checking of ControlManager: interchangeable requests.             *)
EXTENDS ControlManager, TLC

Symmetry == Permutations(Req)
=============================================================================
