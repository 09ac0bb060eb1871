------------------------------ MODULE MCProfiles ------------------------------
(***************************************************************************)
(* Model checking of the profile.  Requests, and welcome messages, are     *)
(* interchangeable.                                                        *)
(***************************************************************************)
EXTENDS Profiles, TLC

Symmetry == Permutations(Requests) \cup Permutations(WelcomeMessages)
===============================================================================
