-------------------------- MODULE MCStripeBilling --------------------------
(***************************************************************************)
(* Small instances of StripeBilling for TLC.                               *)
(***************************************************************************)
EXTENDS StripeBilling, TLC

\* Requests are interchangeable, and so are the plans.
Symmetry == Permutations(Reqs) \cup Permutations(Plans)
=============================================================================
