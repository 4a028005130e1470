------------------------------ MODULE Webhooks ------------------------------
(***************************************************************************)
(* The webhooks table, its handlers and SendWebhook (handler/webhook.go):  *)
(* an event is posted to every URL registered for it, by a goroutine per   *)
(* URL that tries up to Attempts times.                                    *)
(*                                                                         *)
(* A delivery is named by the call of SendWebhook and the id of the hook.  *)
(* Each Post is a copy of the event that travels on its own: the receiver  *)
(* may accept it long after the sender has given it up and posted another. *)
(* No code sets active to false, so a row is active as long as it is there; *)
(* the pauses between attempts are steps that take as long as they like.   *)
(***************************************************************************)
EXTENDS Naturals, Sequences, Functions

CONSTANTS
  Users,     (* owners of webhooks                                         *)
  Events,    (* event names                                                *)
  Sends,     (* calls of SendWebhook                                       *)
  MaxHook,   (* bound on the ids of the table                              *)
  Attempts   (* posts of one delivery, 3 in the code                       *)

ASSUME AttemptsAssumption == Attempts \in Nat \ {0}
ASSUME MaxHookAssumption == MaxHook \in Nat

HookIds == 1 .. MaxHook
Deliveries == Sends \X HookIds

VARIABLES
  hooks,       (* id -> [owner, events]                                    *)
  lastHook,    (* the last id the sequence gave                            *)
  delivery     (* of each delivery, pc: none, due, posted or ended; post: its
                  copies, oldest first, each travelling, accepted, rejected or
                  lost; and, read by the properties only, unanswered: the
                  attempts client.Post returned an error for; confirmed: a
                  2xx was received                                         *)

(* History, read by the properties only. *)
VARIABLES
  matched,     (* of each call, {} before it: the hooks of its event       *)
  cut          (* calls that serve fewer hooks than matched                *)

calls    == <<matched, cut>>
hookVars == <<hooks, lastHook, delivery, calls>>

HooksInit ==
  /\ hooks = [h \in {} |-> <<>>]
  /\ lastHook = 0
  /\ delivery = [d \in Deliveries |-> [pc |-> "none", post |-> <<>>,
                                       unanswered |-> {}, confirmed |-> FALSE]]
  /\ matched = [s \in Sends |-> {}]
  /\ cut = {}
-----------------------------------------------------------------------------
(* The handlers.                                                           *)

Create(u, events) ==
  /\ lastHook < MaxHook
  /\ lastHook' = lastHook + 1
  /\ hooks' = [h \in DOMAIN hooks \cup {lastHook'} |->
                 IF h = lastHook' THEN [owner |-> u, events |-> events] ELSE hooks[h]]
  /\ UNCHANGED <<delivery, calls>>

(* DELETE ... WHERE id = $1 AND user_id = $2.  Deliveries go on.           *)
Delete(u, h) ==
  /\ h \in DOMAIN hooks
  /\ hooks[h].owner = u
  /\ hooks' = Restrict(hooks, DOMAIN hooks \ {h})
  /\ UNCHANGED <<lastHook, delivery, calls>>
-----------------------------------------------------------------------------
(* SendWebhook.                                                            *)

Matching(e) == {h \in DOMAIN hooks : e \in hooks[h].events}

(* The rows of one SELECT, in no particular order, as far as they are read: a
   Scan that fails or a connection that breaks ends the loop early, a query or
   a Marshal that fails leaves nobody to post to.  Then the goroutines start. *)
SendWebhook(s, e) ==
  /\ matched[s] = {}
  /\ matched' = [matched EXCEPT ![s] = Matching(e)]
  /\ \E rows \in SUBSET Matching(e) :
       /\ cut' = IF rows = Matching(e) THEN cut ELSE cut \cup {s}
       /\ delivery' = [d \in Deliveries |-> IF d[1] = s /\ d[2] \in rows
                                            THEN [delivery[d] EXCEPT !.pc = "due"]
                                            ELSE delivery[d]]
  /\ UNCHANGED <<hooks, lastHook>>

Tried(d) == Len(delivery[d].post)

OneAttemptMore(d) == IF Tried(d) > Attempts THEN "ended" ELSE "due"  \* a bug: <= 3

(* The loop goes on, or has had its attempts.                              *)
NextAttempt(d) == IF Tried(d) >= Attempts THEN "ended" ELSE "due"

AfterSuccess(d) == "ended"

(* A status other than 2xx is tried again like an error.                   *)
AfterRefusal(d) == NextAttempt(d)

Goroutine(d, pc, new) ==
  /\ delivery[d].pc = pc
  /\ delivery' = [delivery EXCEPT ![d] = new]
  /\ UNCHANGED <<hooks, lastHook, calls>>

Post(d) ==
  Goroutine(d, "due", [delivery[d] EXCEPT !.pc = "posted",
                                          !.post = Append(@, "travelling")])

(* client.Post returns the status of the copy it posted.                   *)
Answered(d) ==
  /\ delivery[d].pc = "posted"
  /\ \/ /\ delivery[d].post[Tried(d)] = "accepted"
        /\ Goroutine(d, "posted", [delivery[d] EXCEPT !.pc = AfterSuccess(d),
                                                      !.confirmed = TRUE])
     \/ /\ delivery[d].post[Tried(d)] = "rejected"
        /\ Goroutine(d, "posted", [delivery[d] EXCEPT !.pc = AfterRefusal(d)])

NoTimeout(d) == delivery[d].post[Tried(d)] = "lost"   \* a bug: no client Timeout

(* client.Post may fail at any moment: no connection, or Timeout.          *)
MayFail(d) == TRUE

(* The copy may have been accepted all the same, or be on its way still.   *)
PostError(d) ==
  /\ Goroutine(d, "posted", [delivery[d] EXCEPT !.pc = NextAttempt(d),
                                                !.unanswered = @ \cup {Tried(d)}])
  /\ MayFail(d)

(* What becomes of a copy: the receiver is not this program's.             *)
Receive(d, k, fate) ==
  /\ delivery[d].post[k] = "travelling"
  /\ delivery' = [delivery EXCEPT ![d].post[k] = fate]
  /\ UNCHANGED <<hooks, lastHook, calls>>
-----------------------------------------------------------------------------
TableNext ==
  \E u \in Users : \/ \E events \in SUBSET Events : Create(u, events)
                   \/ \E h \in HookIds : Delete(u, h)

DeliveryNext(d) ==
  \/ Post(d)
  \/ Answered(d)
  \/ PostError(d)
  \/ \E k \in 1 .. Tried(d), fate \in {"accepted", "rejected", "lost"} :
       Receive(d, k, fate)

HooksNext ==
  \/ TableNext
  \/ \E s \in Sends, e \in Events : SendWebhook(s, e)
  \/ \E d \in Deliveries : DeliveryNext(d)

HooksSpec == HooksInit /\ [][HooksNext]_hookVars

(* A goroutine runs, and client.Post returns: Timeout is set.  Nothing is
   owed by the receivers and the network. *)
DeliveryFairness(d) ==
  /\ WF_hookVars(Post(d))
  /\ WF_hookVars(Answered(d) \/ PostError(d))

FairHooksSpec == HooksSpec /\ \A d \in Deliveries : DeliveryFairness(d)
-----------------------------------------------------------------------------
(* Properties.                                                             *)

Fates == {"travelling", "accepted", "rejected", "lost"}

DeliveryRecords == [pc : {"none", "due", "posted", "ended"},
                    post : Seq(Fates),
                    unanswered : SUBSET (1 .. Attempts),
                    confirmed : BOOLEAN]

(* Rows and deliveries are of their types, no delivery posts more than
   Attempts times, and one that is due has an attempt left. *)
HooksTypeOK ==
  /\ lastHook \in 0 .. MaxHook
  /\ DOMAIN hooks \subseteq 1 .. lastHook
  /\ \A h \in DOMAIN hooks : hooks[h] \in [owner : Users, events : SUBSET Events]
  /\ delivery \in [Deliveries -> DeliveryRecords]
  /\ matched \in [Sends -> SUBSET HookIds]
  /\ cut \subseteq Sends
  /\ \A d \in Deliveries : /\ Tried(d) =< Attempts
                           /\ delivery[d].pc = "none" => Tried(d) = 0
                           /\ delivery[d].pc = "due" => Tried(d) < Attempts
                           /\ delivery[d].pc = "posted" => Tried(d) > 0

(* A receiver gets an event twice only through lost answers: every copy it
   accepted but the last one posted is one the sender never had an answer to.
   A retry of what was confirmed or refused would break it. *)
DuplicatesLostAnswers ==
  \A d \in Deliveries : \A k \in 1 .. Tried(d) - 1 :
    delivery[d].post[k] = "accepted" => k \in delivery[d].unanswered

(* "SendWebhook sends a webhook event to all registered URLs matching the
   event" (handler/webhook.go:114), as far as it is true: when the rows were
   read to the end, every hook that matched at the call is being served, or was
   confirmed, or had all of its attempts, whatever became of the others and of
   its row. *)
MatchedAreTried ==
  \A s \in Sends \ cut : \A h \in matched[s] :
    LET d == <<s, h>>
    IN  \/ delivery[d].pc \in {"due", "posted"}
        \/ delivery[d].confirmed
        \/ Tried(d) = Attempts

(* A delivery ends, even when the receiver never answers.                  *)
DeliveriesEnd ==
  \A d \in Deliveries : delivery[d].pc = "due" ~> delivery[d].pc = "ended"

(* A delivery as EventDelivery has it.                                     *)
Outcome(r) ==
  CASE r.confirmed -> "confirmed"
    [] r.pc = "none" -> "none"
    [] r.pc \in {"due", "posted"} -> "open"
    [] OTHER -> "failed"

AcceptedCopies(r) == {k \in 1 .. Len(r.post) : r.post[k] = "accepted"}

Outcomes == [d \in Deliveries |-> Outcome(delivery[d])]
Sent     == [d \in Deliveries |-> Tried(d)]
Accepted == [d \in Deliveries |-> AcceptedCopies(delivery[d])]

Event == INSTANCE EventDelivery
  WITH outcome <- Outcomes, sent <- Sent, accepted <- Accepted

(* The goroutines of SendWebhook implement the delivery of an event to each
   receiver: they stop only over a copy that was accepted or after the last
   attempt, and send nothing once they have stopped. *)
ImplementsDelivery == Event!EventSpec
=============================================================================
