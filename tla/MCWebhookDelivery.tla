------------------------- MODULE MCWebhookDelivery -------------------------
(* One delivery, two workers, one fault.  A job has two attempts, a dead   *)
(* letter one automatic replay, and the sweeper takes one row at a time.   *)
EXTENDS WebhookDelivery
=============================================================================
