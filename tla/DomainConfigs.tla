--------------------------- MODULE DomainConfigs ---------------------------
(***************************************************************************)
(* LoadDomainConfigs (grpc/service.go): how the rows of its SELECT, one    *)
(* per origin of an active domain, become one DomainConfig per domain.     *)
(*                                                                         *)
(* The loop reads rows while rows.Next() is true and appends each origin   *)
(* to the entry of its host in a map, remembering in order the hosts it    *)
(* meets first.  rows.Next() is false at the end of the result and also    *)
(* when the connection breaks; the loop does not ask which (rows.Err).     *)
(***************************************************************************)
EXTENDS Integers, Sequences, SequencesExt

CONSTANTS
  Hosts,       (* domain names, as numbers in the order of the collation   *)
  Origins,     (* what a row says of an origin but its priority            *)
  Priorities,  (* origin priorities                                        *)
  MaxRows      (* bound on the length of a result                          *)

ASSUME HostsAssumption == Hosts \subseteq Nat
ASSUME PrioritiesAssumption == Priorities \subseteq Int
ASSUME MaxRowsAssumption == MaxRows \in Nat

Row == [host : Hosts, origin : Origins, priority : Priorities]

(* ORDER BY d.domain, o.priority: rows that tie come in any order.         *)
Before(r, t) == r.host < t.host \/ (r.host = t.host /\ r.priority =< t.priority)
Result(rows) == \A i, j \in DOMAIN rows : i < j => Before(rows[i], rows[j])

VARIABLES
  rows,        (* the result of the SELECT                                 *)
  read,        (* how many rows the loop has read                          *)
  order,       (* hosts in the order of their first row                    *)
  domainMap,   (* host -> its origins so far, a sequence of rows           *)
  pc,          (* "loop", then "return" or "error"                         *)
  configs      (* what is returned: a sequence of [host, origins]          *)

loadVars == <<rows, read, order, domainMap, pc, configs>>

LoadInit ==
  /\ rows \in {r \in BoundedSeq(Row, MaxRows) : Result(r)}
  /\ read = 0
  /\ order = <<>>
  /\ domainMap = [h \in {} |-> <<>>]
  /\ pc = "loop"
  /\ configs = <<>>

(* A bug: the entry of the host is made again for each of its rows.        *)
EntryMadeAnew(h) == <<>>

(* The entry of a host: the one there is, or a new one.                    *)
Entry(h) == IF h \in DOMAIN domainMap THEN domainMap[h] ELSE <<>>

(* rows.Next, Scan, and the body of the loop.                              *)
ScanRow ==
  /\ pc = "loop"
  /\ read < Len(rows)
  /\ LET r == rows[read + 1] IN
     /\ domainMap' = [h \in DOMAIN domainMap \cup {r.host} |->
                        IF h = r.host THEN Append(Entry(h), r) ELSE domainMap[h]]
     /\ order' = IF r.host \in DOMAIN domainMap THEN order ELSE Append(order, r.host)
  /\ read' = read + 1
  /\ UNCHANGED <<rows, pc, configs>>

(* The second loop, over order. *)
Configs == [i \in DOMAIN order |-> [host |-> order[i], origins |-> domainMap[order[i]]]]

(* A bug: what was read so far is returned along with the error.           *)
ScanErrorPartial ==
  /\ pc = "loop"
  /\ read < Len(rows)
  /\ configs' = Configs
  /\ pc' = "error"
  /\ UNCHANGED <<rows, read, order, domainMap>>

(* Scan refuses a row (a NULL column, say): nothing is returned.           *)
ScanError ==
  /\ pc = "loop"
  /\ read < Len(rows)
  /\ pc' = "error"
  /\ UNCHANGED <<rows, read, order, domainMap, configs>>

(* rows.Next() is false.                                                   *)
EndOfRows ==
  /\ pc = "loop"
  /\ read = Len(rows)
  /\ configs' = Configs
  /\ pc' = "return"
  /\ UNCHANGED <<rows, read, order, domainMap>>

(* rows.Next() is false because the connection broke.                      *)
ConnectionLost ==
  /\ pc = "loop"
  /\ read < Len(rows)
  /\ configs' = Configs
  /\ pc' = "return"
  /\ UNCHANGED <<rows, read, order, domainMap>>

LoadNext == ScanRow \/ ScanError \/ EndOfRows \/ ConnectionLost

LoadSpec == LoadInit /\ [][LoadNext]_loadVars
-----------------------------------------------------------------------------
(* Properties.                                                             *)

Flattened == FlattenSeq([i \in DOMAIN configs |-> configs[i].origins])

LoadTypeOK ==
  /\ rows \in Seq(Row)
  /\ read \in 0 .. Len(rows)
  /\ order \in Seq(Hosts)
  /\ DOMAIN domainMap = Range(order)
  /\ \A h \in DOMAIN domainMap : domainMap[h] \in Seq(Row)
  /\ pc \in {"loop", "return", "error"}
  /\ pc # "return" => configs = <<>>

(* One entry per host, hosts in the order of the result, and in the entries
   one after the other every row that was read, each once, each under its
   own host, by priority: the grouping loses and reorders nothing. *)
GroupedInOrder ==
  pc = "return" =>
    /\ \A i, j \in DOMAIN configs : i < j => configs[i].host < configs[j].host
    /\ \A i \in DOMAIN configs :
         /\ configs[i].origins # <<>>
         /\ \A k \in DOMAIN configs[i].origins : configs[i].origins[k].host = configs[i].host
    /\ Flattened = SubSeq(rows, 1, read)

(* "GetFullConfig returns the complete domain configuration" (service.go:83):
   what is returned without an error has every row of the result.  A broken
   connection in the middle of the rows refutes it, rows.Err() is not asked. *)
ReturnedIsComplete == pc = "return" => Flattened = rows
=============================================================================
