---------------------------- MODULE MCConfigPush ----------------------------
(* ConfigPush on small sets.  Finished is the only state of an instance in
   which nothing is left to do. *)
EXTENDS ConfigPush, TLC

Finished ==
  /\ Quiet
  /\ \A s \in Streams : pc[s] = "returned"
  /\ \A s \in Fetchers : fetch[s] \in {"replied", "failed"}
  /\ UNCHANGED pushVars

MCPushSpec == PushInit /\ [][PushNext \/ Finished]_pushVars
=============================================================================
