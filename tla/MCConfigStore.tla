--------------------------- MODULE MCConfigStore ---------------------------
(* ConfigStore with few ids in each table.  Deadlock is not checked in its
   instances: once the ids of domains are used up and every domain is deleted,
   no request has anything left to do. *)
EXTENDS ConfigStore, TLC

CONSTANTS MaxDomains, MaxOrigins

MCMaxId ==
  [t \in Tables |-> CASE t = "domains" -> MaxDomains
                      [] t = "origins" -> MaxOrigins
                      [] OTHER -> MaxAttached]

Interchangeable == Permutations(Addrs)
=============================================================================
