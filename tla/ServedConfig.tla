---------------------------- MODULE ServedConfig ----------------------------
(***************************************************************************)
(* What the REST side promises about the configuration it serves, without  *)
(* tables, ids or handlers: it changes one host at a time, a change is     *)
(* announced or else recorded among what the edges missed, and every       *)
(* notification is answered once, by the configuration of that moment, a   *)
(* part of it or not at all, and not at all after a restart.               *)
(***************************************************************************)
EXTENDS Naturals

CONSTANT Hosts   (* the names the configuration is about                   *)

VARIABLES
  served,    (* what LoadDomainConfigs would return now: rows with a host  *)
  owed,      (* notifications that no load has answered yet                *)
  pushed,    (* the configuration that was loaded last to be broadcast     *)
  missed     (* what the edges may have missed since they got all of it    *)

servedVars == <<served, owed, pushed, missed>>

ServedInit == served = {} /\ owed = 0 /\ pushed = {} /\ missed = {}

(* A configuration without the rows of a host.                             *)
But(config, h) == {r \in config : r.host # h}

(* A change, or none, of what is served under one name.                    *)
Alter(h) == But(served', h) = But(served, h)

(* A request whose client is told that it succeeded.                       *)
Announce(h) ==
  /\ owed' = owed + 1
  /\ UNCHANGED <<pushed, missed>>
  /\ Alter(h)

(* A request whose client is told that it failed, though it did not.       *)
Unheard(h) ==
  /\ missed' = missed \cup {"error"}
  /\ UNCHANGED <<owed, pushed>>
  /\ Alter(h)

(* A CNAME verification: the host leaves as a whole and nobody is told.    *)
TakeOut(h) ==
  /\ missed' = missed \cup {"verified"}
  /\ UNCHANGED <<owed, pushed>>
  /\ served' = But(served, h)

(* A notification is answered by the configuration of that moment.         *)
Answer ==
  /\ owed > 0
  /\ owed' = owed - 1
  /\ pushed' = served
  /\ missed' = {}
  /\ UNCHANGED served

(* The connection broke before the last row, which nobody noticed.         *)
AnswerPart ==
  /\ owed > 0
  /\ owed' = owed - 1
  /\ pushed' \subseteq served
  /\ missed' = {"cut"}
  /\ UNCHANGED served

(* The database could not be read.                                         *)
Lose ==
  /\ owed > 0
  /\ owed' = owed - 1
  /\ missed' = missed \cup {"error"}
  /\ UNCHANGED <<served, pushed>>

(* The process is another one: it owes nothing.                            *)
Restart ==
  /\ owed' = 0
  /\ missed' = missed \cup {"error"}
  /\ UNCHANGED <<served, pushed>>

ServedNext ==
  \/ \E h \in Hosts : Announce(h) \/ Unheard(h) \/ TakeOut(h)
  \/ Answer
  \/ AnswerPart
  \/ Lose
  \/ Restart

ServedSpec == ServedInit /\ [][ServedNext]_servedVars
=============================================================================
