-------------------------- MODULE MCVisibleServices --------------------------
(***************************************************************************)
(* Model checking of the list of the visible services.  Services and       *)
(* requests are interchangeable.                                           *)
(***************************************************************************)
EXTENDS VisibleServices, TLC

Symmetry == Permutations(Services) \cup Permutations(Requests)
=============================================================================
