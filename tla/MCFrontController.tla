-------------------------- MODULE MCFrontController --------------------------
(***************************************************************************)
(* Model checking of concurrent requests, which are interchangeable.       *)
(***************************************************************************)
EXTENDS FrontController, TLC

Symmetry == Permutations(Requests)
=============================================================================
