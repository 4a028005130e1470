---------------------------- MODULE EventDelivery ----------------------------
(***************************************************************************)
(* What SendWebhook promises of an event and a receiver, without rows,     *)
(* goroutines or the fates of single posts: copies are sent until the last *)
(* one is known to have been accepted or there are no attempts left.  The  *)
(* receiver may accept any of them, at any time, even afterwards.          *)
(***************************************************************************)
EXTENDS Naturals

CONSTANTS
  Deliveries,   (* an event and the receiver it is for                     *)
  Attempts      (* copies of one event                                     *)

VARIABLES
  outcome,    (* of each delivery: none, open, confirmed or failed         *)
  sent,       (* how many copies were sent                                 *)
  accepted    (* which of them the receiver accepted                       *)

eventVars == <<outcome, sent, accepted>>

EventInit ==
  /\ outcome = [d \in Deliveries |-> "none"]
  /\ sent = [d \in Deliveries |-> 0]
  /\ accepted = [d \in Deliveries |-> {}]

Open(some) ==
  /\ \A d \in some : outcome[d] = "none"
  /\ outcome' = [d \in Deliveries |-> IF d \in some THEN "open" ELSE outcome[d]]
  /\ UNCHANGED <<sent, accepted>>

SendCopy(d) ==
  /\ outcome[d] = "open"
  /\ sent[d] < Attempts
  /\ sent' = [sent EXCEPT ![d] = @ + 1]
  /\ UNCHANGED <<outcome, accepted>>

AcceptCopy(d, k) ==
  /\ k \notin accepted[d]
  /\ accepted' = [accepted EXCEPT ![d] = @ \cup {k}]
  /\ UNCHANGED <<outcome, sent>>

(* Only what the receiver has is confirmed.                                *)
Confirm(d) ==
  /\ outcome[d] = "open"
  /\ sent[d] \in accepted[d]
  /\ outcome' = [outcome EXCEPT ![d] = "confirmed"]
  /\ UNCHANGED <<sent, accepted>>

(* Nothing is given up with an attempt left.                               *)
GiveUp(d) ==
  /\ outcome[d] = "open"
  /\ sent[d] = Attempts
  /\ outcome' = [outcome EXCEPT ![d] = "failed"]
  /\ UNCHANGED <<sent, accepted>>

EventNext ==
  \/ \E some \in SUBSET Deliveries : Open(some)
  \/ \E d \in Deliveries : \/ SendCopy(d)
                           \/ \E k \in 1 .. sent[d] : AcceptCopy(d, k)
                           \/ Confirm(d)
                           \/ GiveUp(d)

EventSpec == EventInit /\ [][EventNext]_eventVars
=============================================================================
