---------------------------- MODULE MCEdgeServer ----------------------------
(* EdgeServer on small sets.  The calls of an instance are finite in number:
   Finished is its only state without a further step. *)
EXTENDS EdgeServer, TLC

Finished ==
  /\ \A s \in Streams : pc[s] = "returned"
  /\ \A b \in Broadcasts : bpc[b] = "done"
  /\ UNCHANGED vars

MCSpec == Init /\ [][Next \/ Finished]_vars

Interchangeable ==
  Permutations(Nodes) \cup Permutations(Streams) \cup Permutations(Updates)
=============================================================================
