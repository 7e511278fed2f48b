---------------------------- MODULE MCMailOutbox ----------------------------
(* Instances of MailOutbox for TLC. *)
EXTENDS MailOutbox
=============================================================================
