--------------------------- MODULE MCControlPlane ---------------------------
(* ControlPlane with a pool of one connection. *)
EXTENDS ControlPlane
=============================================================================
