---------------------------- MODULE MCWebhooks ----------------------------
(* Webhooks with a user, two hooks and a call, whose two deliveries run side by
   side.  Deadlock is not checked: with the ids used up, every hook deleted and
   every delivery ended, nothing is left to do. *)
EXTENDS Webhooks
=============================================================================
