--------------------------- MODULE MCIdempotency ---------------------------
(* Idempotency on a few requests that compete for one key.  No symmetry:   *)
(* the same run checks KeyUnlocks, and symmetry is unsound for liveness.   *)
EXTENDS Idempotency
=============================================================================
