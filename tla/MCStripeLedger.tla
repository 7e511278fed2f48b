--------------------------- MODULE MCStripeLedger --------------------------
(* StripeLedger on one event: its BullMQ job, the jobs of the sweeps, a    *)
(* delivery that may be repeated, and a newer event that fills the page.   *)
(* No symmetry: the run checks liveness.                                   *)
EXTENDS StripeLedger
=============================================================================
