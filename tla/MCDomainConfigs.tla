--------------------------- MODULE MCDomainConfigs ---------------------------
(* DomainConfigs on every sorted result of a few rows.  The function returns:
   deadlock is not checked. *)
EXTENDS DomainConfigs, TLC

CONSTANTS x, y     (* two origins                                          *)
=============================================================================
