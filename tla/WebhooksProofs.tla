--------------------------- MODULE WebhooksProofs ---------------------------
(***************************************************************************)
(* Safety of Webhooks for any owners, events, calls and hooks, and any     *)
(* number of attempts.                                                     *)
(*                                                                         *)
(* HooksInv is inductive.  It is stated one delivery at a time, since only *)
(* SendWebhook touches several.  Settled is DuplicatesLostAnswers made     *)
(* inductive: a copy that is only on its way may be accepted at any later  *)
(* moment, so it too must be unanswered before the sender goes on.         *)
(*                                                                         *)
(* The last part is the refinement of EventDelivery, an action at a time.  *)
(***************************************************************************)
EXTENDS Webhooks, SequenceTheorems, TLAPS

(* What HooksTypeOK says of a single delivery, and that one that was confirmed
   has ended. *)
Proper(r) ==
  /\ r \in DeliveryRecords
  /\ Len(r.post) =< Attempts
  /\ r.pc = "none" => Len(r.post) = 0
  /\ r.pc = "due" => Len(r.post) < Attempts
  /\ r.pc = "posted" => Len(r.post) > 0
  /\ r.confirmed => r.pc = "ended"

(* A copy the sender has gone on from, and that was or may yet be accepted,
   had no answer. *)
Settled(r) ==
  \A k \in 1 .. Len(r.post) :
    (/\ k < Len(r.post) \/ r.pc = "due"
     /\ r.post[k] \in {"accepted", "travelling"})
      => k \in r.unanswered

(* What MatchedAreTried says of a delivery that is served. *)
Served(r) == r.pc \in {"due", "posted"} \/ r.confirmed \/ Len(r.post) = Attempts
HooksInv ==
  /\ lastHook \in 0 .. MaxHook
  /\ DOMAIN hooks \subseteq 1 .. lastHook
  /\ \A h \in DOMAIN hooks : hooks[h] \in [owner : Users, events : SUBSET Events]
  /\ matched \in [Sends -> SUBSET HookIds]
  /\ cut \subseteq Sends
  /\ delivery \in [Deliveries -> DeliveryRecords]
  /\ \A d \in Deliveries : /\ Proper(delivery[d])
                           /\ Settled(delivery[d])
                           /\ delivery[d].pc # "none" => d[2] \in matched[d[1]]
  /\ \A s \in Sends \ cut : \A h \in matched[s] : Served(delivery[<<s, h>>])
-----------------------------------------------------------------------------
(* Posting a copy. *)
LEMMA PostKeeps ==
  ASSUME NEW r, Proper(r), Settled(r), r.pc = "due",
         NEW n, n = [r EXCEPT !.pc = "posted", !.post = Append(@, "travelling")]
  PROVE  Proper(n) /\ Settled(n) /\ Served(n)
<1>1. n \in [pc : {"posted"}, post : {Append(r.post, "travelling")},
             unanswered : {r.unanswered}, confirmed : {r.confirmed}]
  BY DEF Proper, DeliveryRecords
<1>2. /\ n.pc = "posted" /\ n.post = Append(r.post, "travelling")
      /\ n.unanswered = r.unanswered
  BY <1>1
<1>3. r.post \in Seq(Fates) /\ "travelling" \in Fates
  BY DEF Proper, DeliveryRecords, Fates
<1>4. /\ n.post \in Seq(Fates)
      /\ Len(n.post) = Len(r.post) + 1
      /\ \A k \in 1 .. Len(r.post) : n.post[k] = r.post[k]
  BY <1>2, <1>3, AppendProperties
<1>5. n \in DeliveryRecords
  BY <1>1, <1>2, <1>4 DEF Proper, DeliveryRecords
<1>6. Len(r.post) \in Nat
  BY <1>3
<1>7. Proper(n)
  BY <1>2, <1>4, <1>5, <1>6, AttemptsAssumption DEF Proper
<1>8. Settled(n)
  BY <1>2, <1>4, <1>6 DEF Settled
<1>9. QED
  BY <1>2, <1>7, <1>8 DEF Served

(* The attempt has come to its end: what the loop does next. *)
LEMMA AttemptEnds ==
  ASSUME NEW r, Proper(r), Settled(r), r.pc = "posted",
         NEW n \in DeliveryRecords, n.post = r.post,
         r.unanswered \subseteq n.unanswered,
         \/ n.pc = "ended" /\ n.confirmed
         \/ /\ n.pc = IF Len(r.post) >= Attempts THEN "ended" ELSE "due"
            /\ ~ n.confirmed
            /\ \/ r.post[Len(r.post)] = "rejected"
               \/ Len(r.post) \in n.unanswered
  PROVE  Proper(n) /\ Settled(n) /\ Served(n)
<1>1. Len(r.post) \in Nat /\ Len(r.post) =< Attempts /\ Attempts \in Nat
  BY AttemptsAssumption DEF Proper, DeliveryRecords
<1>2. Proper(n)
  BY <1>1 DEF Proper
<1>3. Settled(n)
  <2>1. SUFFICES ASSUME NEW k \in 1 .. Len(n.post),
                        k < Len(n.post) \/ n.pc = "due",
                        n.post[k] \in {"accepted", "travelling"}
                 PROVE  k \in n.unanswered
    BY DEF Settled
  <2>2. CASE k < Len(r.post)
    BY <2>1, <2>2 DEF Settled
  <2>3. CASE k = Len(r.post)
    BY <1>1, <2>1, <2>3
  <2>4. QED
    BY <1>1, <2>1, <2>2, <2>3
<1>4. Served(n)
  BY <1>1 DEF Served
<1>5. QED
  BY <1>2, <1>3, <1>4

(* A copy on its way arrives or is lost. *)
LEMMA ReceiveKeeps ==
  ASSUME NEW r, Proper(r), Settled(r),
         NEW k \in 1 .. Len(r.post), r.post[k] = "travelling", NEW fate \in Fates,
         NEW n, n = [r EXCEPT !.post[k] = fate]
  PROVE  Proper(n) /\ Settled(n) /\ (Served(r) => Served(n))
<1>1. r.post \in Seq(Fates) /\ Len(r.post) \in Nat
  BY DEF Proper, DeliveryRecords
<1>2. /\ [r.post EXCEPT ![k] = fate] \in Seq(Fates)
      /\ Len([r.post EXCEPT ![k] = fate]) = Len(r.post)
      /\ \A i \in 1 .. Len(r.post) :
           [r.post EXCEPT ![k] = fate][i] = IF i = k THEN fate ELSE r.post[i]
  BY <1>1, ExceptSeq
<1>3. n = [r EXCEPT !.post = [r.post EXCEPT ![k] = fate]]
  BY DEF Proper, DeliveryRecords
<1>4. /\ n.pc = r.pc /\ n.post = [r.post EXCEPT ![k] = fate]
      /\ n.unanswered = r.unanswered /\ n.confirmed = r.confirmed
  BY <1>3 DEF Proper, DeliveryRecords
<1>5. n \in DeliveryRecords
  BY <1>2, <1>3 DEF Proper, DeliveryRecords
<1>6. Proper(n)
  BY <1>2, <1>4, <1>5 DEF Proper
<1>7. Settled(n)
  BY <1>1, <1>2, <1>4 DEF Settled
<1>8. Served(r) => Served(n)
  BY <1>2, <1>4 DEF Served
<1>9. QED
  BY <1>6, <1>7, <1>8
-----------------------------------------------------------------------------
(* A step of one delivery that keeps what is said of it keeps HooksInv. *)
LEMMA OneDelivery ==
  ASSUME HooksInv, NEW d \in Deliveries, NEW n,
         Proper(n), Settled(n), Served(delivery[d]) => Served(n),
         n.pc # "none" => delivery[d].pc # "none",
         delivery' = [delivery EXCEPT ![d] = n],
         UNCHANGED <<hooks, lastHook, calls>>
  PROVE  HooksInv'
<1>1. /\ delivery' \in [Deliveries -> DeliveryRecords]
      /\ \A c \in Deliveries : delivery'[c] = IF c = d THEN n ELSE delivery[c]
  BY DEF HooksInv, Proper
<1>2. \A c \in Deliveries : /\ Proper(delivery'[c])
                            /\ Settled(delivery'[c])
                            /\ delivery'[c].pc # "none" => c[2] \in matched'[c[1]]
  BY <1>1 DEF HooksInv, calls
<1>3. \A s \in Sends \ cut' : \A h \in matched'[s] : Served(delivery'[<<s, h>>])
  <2>1. SUFFICES ASSUME NEW s \in Sends \ cut, NEW h \in matched[s]
                 PROVE  Served(delivery'[<<s, h>>])
    BY DEF calls
  <2>2. <<s, h>> \in Deliveries /\ Served(delivery[<<s, h>>])
    BY <2>1 DEF HooksInv, Deliveries
  <2>3. QED
    BY <1>1, <2>2
<1>4. QED
  BY <1>1, <1>2, <1>3 DEF HooksInv, calls
-----------------------------------------------------------------------------
(* Registrations come and go without a delivery noticing. *)
LEMMA TableKeeps ==
  ASSUME HooksInv, TableNext
  PROVE  HooksInv'
<1>1. CASE \E u \in Users, events \in SUBSET Events : Create(u, events)
  <2>1. PICK u \in Users, events \in SUBSET Events : Create(u, events)
    BY <1>1
  <2>2. lastHook' \in 0 .. MaxHook /\ lastHook' = lastHook + 1 /\ lastHook \in Nat
    BY <2>1, MaxHookAssumption DEF HooksInv, Create
  <2>3. /\ DOMAIN hooks' = DOMAIN hooks \cup {lastHook'}
        /\ \A h \in DOMAIN hooks' :
             hooks'[h] = IF h = lastHook' THEN [owner |-> u, events |-> events] ELSE hooks[h]
    BY <2>1 DEF Create
  <2>4. /\ DOMAIN hooks' \subseteq 1 .. lastHook'
        /\ \A h \in DOMAIN hooks' : hooks'[h] \in [owner : Users, events : SUBSET Events]
    BY <2>2, <2>3 DEF HooksInv
  <2>5. QED
    BY <2>1, <2>2, <2>4 DEF HooksInv, Create, calls
<1>2. CASE \E u \in Users, h \in HookIds : Delete(u, h)
  <2>1. PICK u \in Users, h \in HookIds : Delete(u, h)
    BY <1>2
  <2>2. /\ DOMAIN hooks' \subseteq DOMAIN hooks
        /\ \A i \in DOMAIN hooks' : hooks'[i] = hooks[i]
    BY <2>1 DEF Delete, Restrict
  <2>3. QED
    BY <2>1, <2>2 DEF HooksInv, Delete, calls
<1>3. QED
  BY <1>1, <1>2 DEF TableNext

(* A call makes deliveries of the rows it has read; the others are cut. *)
LEMMA SendKeeps ==
  ASSUME HooksInv, NEW s \in Sends, NEW e \in Events, SendWebhook(s, e)
  PROVE  HooksInv'
<1>1. PICK rows \in SUBSET Matching(e) :
        /\ cut' = IF rows = Matching(e) THEN cut ELSE cut \cup {s}
        /\ delivery' = [d \in Deliveries |-> IF d[1] = s /\ d[2] \in rows
                                             THEN [delivery[d] EXCEPT !.pc = "due"]
                                             ELSE delivery[d]]
  BY DEF SendWebhook
<1>2. matched[s] = {} /\ matched' = [matched EXCEPT ![s] = Matching(e)]
  BY DEF SendWebhook
<1>3. Matching(e) \subseteq HookIds
  BY MaxHookAssumption DEF HooksInv, Matching, HookIds
<1>4. matched' \in [Sends -> SUBSET HookIds] /\ cut' \subseteq Sends
  BY <1>1, <1>2, <1>3 DEF HooksInv
<1>5. ASSUME NEW d \in Deliveries, d[1] = s
      PROVE  /\ [delivery[d] EXCEPT !.pc = "due"] \in DeliveryRecords
             /\ Proper([delivery[d] EXCEPT !.pc = "due"])
             /\ Settled([delivery[d] EXCEPT !.pc = "due"])
             /\ Served([delivery[d] EXCEPT !.pc = "due"])
  <2>1. delivery[d] \in DeliveryRecords /\ Proper(delivery[d])
    BY DEF HooksInv
  <2>2. delivery[d].pc = "none" /\ ~ delivery[d].confirmed
    BY <1>2, <1>5, <2>1 DEF HooksInv, Proper, DeliveryRecords
  <2>3. Len(delivery[d].post) = 0
    BY <2>1, <2>2 DEF Proper
  <2>4. /\ [delivery[d] EXCEPT !.pc = "due"] \in DeliveryRecords
        /\ [delivery[d] EXCEPT !.pc = "due"].pc = "due"
        /\ [delivery[d] EXCEPT !.pc = "due"].post = delivery[d].post
        /\ ~ [delivery[d] EXCEPT !.pc = "due"].confirmed
    BY <2>1, <2>2 DEF DeliveryRecords
  <2>5. QED
    BY <2>3, <2>4, AttemptsAssumption DEF Proper, Settled, Served
<1>6. \A d \in Deliveries : /\ delivery'[d] \in DeliveryRecords
                            /\ Proper(delivery'[d])
                            /\ Settled(delivery'[d])
  BY <1>1, <1>5 DEF HooksInv
<1>7. \A d \in Deliveries : delivery'[d].pc # "none" => d[2] \in matched'[d[1]]
  <2>1. SUFFICES ASSUME NEW d \in Deliveries, delivery'[d].pc # "none"
                 PROVE  d[2] \in matched'[d[1]]
    OBVIOUS
  <2>2. CASE d[1] = s
    <3>1. delivery[d].pc = "none"
      BY <1>2, <2>2 DEF HooksInv
    <3>2. d[2] \in rows
      BY <1>1, <2>1, <2>2, <3>1
    <3>3. QED
      BY <1>2, <2>2, <3>2 DEF HooksInv
  <2>3. CASE d[1] # s
    <3>1. d[1] \in Sends /\ delivery'[d] = delivery[d]
      BY <1>1, <2>3 DEF Deliveries
    <3>2. QED
      BY <1>2, <2>1, <2>3, <3>1 DEF HooksInv
  <2>4. QED
    BY <2>2, <2>3
<1>8. \A c \in Sends \ cut' : \A h \in matched'[c] : Served(delivery'[<<c, h>>])
  <2>1. SUFFICES ASSUME NEW c \in Sends \ cut', NEW h \in matched'[c]
                 PROVE  Served(delivery'[<<c, h>>])
    OBVIOUS
  <2>2. <<c, h>> \in Deliveries /\ c \notin cut
    BY <1>1, <1>4, <2>1 DEF Deliveries
  <2>3. CASE c = s
    <3>1. h \in rows
      BY <1>1, <1>2, <2>1, <2>3 DEF HooksInv
    <3>2. delivery'[<<c, h>>] = [delivery[<<c, h>>] EXCEPT !.pc = "due"]
      BY <1>1, <2>2, <2>3, <3>1
    <3>3. QED
      BY <1>5, <2>2, <2>3, <3>2
  <2>4. CASE c # s
    <3>1. delivery'[<<c, h>>] = delivery[<<c, h>>] /\ h \in matched[c]
      BY <1>1, <1>2, <2>1, <2>2, <2>4 DEF HooksInv
    <3>2. QED
      BY <2>1, <2>2, <3>1 DEF HooksInv
  <2>5. QED
    BY <2>3, <2>4
<1>9. delivery' \in [Deliveries -> DeliveryRecords]
  BY <1>1, <1>6
<1>10. QED
  BY <1>4, <1>6, <1>7, <1>8, <1>9 DEF HooksInv, SendWebhook

(* The goroutine of a delivery and the copies it has posted. *)
LEMMA DeliveryKeeps ==
  ASSUME HooksInv, NEW d \in Deliveries, DeliveryNext(d)
  PROVE  HooksInv'
<1>1. /\ delivery[d] \in DeliveryRecords
      /\ Proper(delivery[d])
      /\ Settled(delivery[d])
      /\ delivery \in [Deliveries -> DeliveryRecords]
  BY DEF HooksInv
<1>2. Tried(d) \in Nat /\ Tried(d) =< Attempts
  BY <1>1 DEF Tried, Proper, DeliveryRecords
<1>3. CASE Post(d)
  <2> DEFINE n == [delivery[d] EXCEPT !.pc = "posted",
                                      !.post = Append(@, "travelling")]
  <2>1. /\ delivery[d].pc = "due"
        /\ delivery' = [delivery EXCEPT ![d] = n]
        /\ UNCHANGED <<hooks, lastHook, calls>>
    BY <1>3 DEF Post, Goroutine
  <2>2. Proper(n) /\ Settled(n) /\ Served(n)
    BY <1>1, <2>1, PostKeeps
  <2>3. QED
    BY <2>1, <2>2, OneDelivery
<1>4. CASE Answered(d) /\ delivery[d].post[Tried(d)] = "accepted"
  <2> DEFINE n == [delivery[d] EXCEPT !.pc = "ended", !.confirmed = TRUE]
  <2>1. /\ delivery[d].pc = "posted"
        /\ delivery' = [delivery EXCEPT ![d] = n]
        /\ UNCHANGED <<hooks, lastHook, calls>>
    BY <1>4 DEF Answered, Goroutine, AfterSuccess
  <2>2. /\ n \in DeliveryRecords
        /\ n.pc = "ended" /\ n.confirmed
        /\ n.post = delivery[d].post /\ n.unanswered = delivery[d].unanswered
    BY <1>1 DEF DeliveryRecords
  <2>3. Proper(n) /\ Settled(n) /\ Served(n)
    BY <1>1, <2>1, <2>2, AttemptEnds
  <2>4. QED
    BY <2>1, <2>3, OneDelivery
<1>5. CASE Answered(d) /\ delivery[d].post[Tried(d)] = "rejected"
  <2> DEFINE n == [delivery[d] EXCEPT !.pc = NextAttempt(d)]
  <2>1. /\ delivery[d].pc = "posted"
        /\ delivery' = [delivery EXCEPT ![d] = n]
        /\ UNCHANGED <<hooks, lastHook, calls>>
    BY <1>5 DEF Answered, Goroutine, AfterRefusal
  <2>2. /\ n \in DeliveryRecords
        /\ n.pc = IF Tried(d) >= Attempts THEN "ended" ELSE "due"
        /\ n.post = delivery[d].post /\ n.unanswered = delivery[d].unanswered
        /\ ~ n.confirmed
    BY <1>1, <2>1 DEF DeliveryRecords, Proper, NextAttempt
  <2>3. Proper(n) /\ Settled(n) /\ Served(n)
    BY <1>1, <1>5, <2>1, <2>2, AttemptEnds DEF Tried
  <2>4. QED
    BY <2>1, <2>3, OneDelivery
<1>6. CASE PostError(d)
  <2> DEFINE n == [delivery[d] EXCEPT !.pc = NextAttempt(d),
                                      !.unanswered = @ \cup {Tried(d)}]
  <2>1. /\ delivery[d].pc = "posted"
        /\ delivery' = [delivery EXCEPT ![d] = n]
        /\ UNCHANGED <<hooks, lastHook, calls>>
    BY <1>6 DEF PostError, Goroutine
  <2>2. Tried(d) \in 1 .. Attempts
    BY <1>1, <1>2, <2>1, AttemptsAssumption DEF Proper, Tried
  <2>3. /\ n \in DeliveryRecords
        /\ n.pc = IF Tried(d) >= Attempts THEN "ended" ELSE "due"
        /\ n.post = delivery[d].post
        /\ n.unanswered = delivery[d].unanswered \cup {Tried(d)}
        /\ ~ n.confirmed
    BY <1>1, <2>1, <2>2 DEF DeliveryRecords, Proper, NextAttempt
  <2>4. Proper(n) /\ Settled(n) /\ Served(n)
    BY <1>1, <2>1, <2>3, AttemptEnds DEF Tried
  <2>5. QED
    BY <2>1, <2>4, OneDelivery
<1>7. CASE \E k \in 1 .. Tried(d), fate \in {"accepted", "rejected", "lost"} :
             Receive(d, k, fate)
  <2>1. PICK k \in 1 .. Tried(d), fate \in {"accepted", "rejected", "lost"} :
          Receive(d, k, fate)
    BY <1>7
  <2> DEFINE n == [delivery[d] EXCEPT !.post[k] = fate]
  <2>2. /\ delivery[d].post[k] = "travelling"
        /\ delivery' = [delivery EXCEPT ![d] = n]
        /\ UNCHANGED <<hooks, lastHook, calls>>
    BY <1>1, <2>1 DEF Receive
  <2>3. fate \in Fates /\ k \in 1 .. Len(delivery[d].post)
    BY <2>1 DEF Fates, Tried
  <2>4. Proper(n) /\ Settled(n) /\ (Served(delivery[d]) => Served(n))
    BY <1>1, <2>2, <2>3, ReceiveKeeps
  <2>5. delivery[d].pc # "none"
    BY <1>1, <2>3 DEF Proper
  <2>6. QED
    BY <2>2, <2>4, <2>5, OneDelivery
<1>8. QED
  BY <1>3, <1>4, <1>5, <1>6, <1>7 DEF DeliveryNext, Answered
-----------------------------------------------------------------------------
(* At first nothing is registered, called or posted. *)
LEMMA HooksInvInit == HooksInit => HooksInv
<1>1. SUFFICES ASSUME HooksInit
               PROVE  HooksInv
  OBVIOUS
<1>2. /\ lastHook \in 0 .. MaxHook
      /\ DOMAIN hooks = {}
      /\ matched \in [Sends -> SUBSET HookIds]
      /\ cut \subseteq Sends
      /\ \A s \in Sends : matched[s] = {}
  BY <1>1, MaxHookAssumption DEF HooksInit
<1>3. \A d \in Deliveries :
        delivery[d] = [pc |-> "none", post |-> <<>>, unanswered |-> {}, confirmed |-> FALSE]
  BY <1>1 DEF HooksInit
<1>4. \A d \in Deliveries : /\ delivery[d] \in DeliveryRecords
                            /\ Proper(delivery[d])
                            /\ Settled(delivery[d])
                            /\ delivery[d].pc = "none"
  <2>1. SUFFICES ASSUME NEW d \in Deliveries
                 PROVE  /\ delivery[d] \in DeliveryRecords
                        /\ Proper(delivery[d])
                        /\ Settled(delivery[d])
                        /\ delivery[d].pc = "none"
    OBVIOUS
  <2>2. <<>> \in Seq(Fates) /\ {} \in SUBSET (1 .. Attempts)
    OBVIOUS
  <2>3. [pc |-> "none", post |-> <<>>, unanswered |-> {}, confirmed |-> FALSE]
          \in DeliveryRecords
    BY <2>2 DEF DeliveryRecords
  <2>4. /\ delivery[d].pc = "none" /\ delivery[d].post = <<>>
        /\ ~ delivery[d].confirmed
        /\ delivery[d] \in DeliveryRecords
    BY <1>3, <2>3
  <2>5. Len(delivery[d].post) = 0
    BY <2>4
  <2>6. QED
    BY <2>4, <2>5, AttemptsAssumption DEF Proper, Settled
<1>5. delivery \in [Deliveries -> DeliveryRecords]
  BY <1>1, <1>4 DEF HooksInit
<1>6. QED
  BY <1>2, <1>4, <1>5 DEF HooksInv

(* HooksInv holds in every state of every behaviour. *)
THEOREM HooksInductive == HooksSpec => []HooksInv
<1>1. HooksInv /\ [HooksNext]_hookVars => HooksInv'
  <2>1. SUFFICES ASSUME HooksInv, [HooksNext]_hookVars
                 PROVE  HooksInv'
    OBVIOUS
  <2>2. CASE TableNext
    BY <2>1, <2>2, TableKeeps
  <2>3. CASE \E s \in Sends, e \in Events : SendWebhook(s, e)
    BY <2>1, <2>3, SendKeeps
  <2>4. CASE \E d \in Deliveries : DeliveryNext(d)
    BY <2>1, <2>4, DeliveryKeeps
  <2>5. CASE UNCHANGED hookVars
    BY <2>1, <2>5 DEF HooksInv, hookVars, calls
  <2>6. QED
    BY <2>1, <2>2, <2>3, <2>4, <2>5 DEF HooksNext
<1>2. QED
  BY HooksInvInit, <1>1, PTL DEF HooksSpec

(* Type correctness; no delivery posts more often than Attempts says, and one
   that goes on has an attempt left. *)
THEOREM HooksTypeCorrect == HooksSpec => []HooksTypeOK
<1>1. HooksInv => HooksTypeOK
  BY DEF HooksInv, HooksTypeOK, Proper, Tried
<1>2. QED
  BY HooksInductive, <1>1, PTL

(* The loop of SendWebhook posts again only what had no 2xx answer: what a
   receiver accepted twice is one whose answer never came. *)
THEOREM DuplicatesExplained == HooksSpec => []DuplicatesLostAnswers
<1>1. ASSUME HooksInv
      PROVE  DuplicatesLostAnswers
  <2>1. SUFFICES ASSUME NEW d \in Deliveries, NEW k \in 1 .. Tried(d) - 1,
                        delivery[d].post[k] = "accepted"
                 PROVE  k \in delivery[d].unanswered
    BY DEF DuplicatesLostAnswers
  <2>2. Tried(d) \in Nat
    BY <1>1 DEF HooksInv, Tried, DeliveryRecords
  <2>3. k \in 1 .. Tried(d) /\ k < Tried(d)
    BY <2>1, <2>2
  <2>4. QED
    BY <1>1, <2>1, <2>3 DEF HooksInv, Settled, Tried
<1>2. QED
  BY HooksInductive, <1>1, PTL

(* Every hook that matched a call whose rows were all read is served until it
   confirms or its attempts are used up, whatever the other deliveries and the
   table go through. *)
THEOREM MatchedServed == HooksSpec => []MatchedAreTried
<1>1. ASSUME HooksInv, NEW s \in Sends \ cut, NEW h \in matched[s]
      PROVE  Served(delivery[<<s, h>>])
  BY <1>1 DEF HooksInv
<1>2. HooksInv => MatchedAreTried
  BY <1>1 DEF MatchedAreTried, Served, Tried
<1>3. QED
  BY HooksInductive, <1>2, PTL
-----------------------------------------------------------------------------
(* The refinement of EventDelivery. *)

(* What a step of one delivery shows of it. *)
LEMMA OneShown ==
  ASSUME delivery \in [Deliveries -> DeliveryRecords], NEW d \in Deliveries, NEW n,
         delivery' = [delivery EXCEPT ![d] = n]
  PROVE  /\ Outcomes[d] = Outcome(delivery[d])
         /\ Sent[d] = Len(delivery[d].post)
         /\ Accepted[d] = AcceptedCopies(delivery[d])
         /\ Outcomes' = [Outcomes EXCEPT ![d] = Outcome(n)]
         /\ Sent' = [Sent EXCEPT ![d] = Len(n.post)]
         /\ Accepted' = [Accepted EXCEPT ![d] = AcceptedCopies(n)]
<1>1. /\ delivery'[d] = n
      /\ \A c \in Deliveries : c # d => delivery'[c] = delivery[c]
  OBVIOUS
<1>2. Outcomes' = [c \in Deliveries |-> Outcome(delivery'[c])]
  BY DEF Outcomes, Outcome
<1>3. Sent' = [c \in Deliveries |-> Len(delivery'[c].post)]
  BY DEF Sent, Tried
<1>4. Accepted' = [c \in Deliveries |-> AcceptedCopies(delivery'[c])]
  BY DEF Accepted, AcceptedCopies
<1>5. Outcomes' = [Outcomes EXCEPT ![d] = Outcome(n)]
  BY <1>1, <1>2 DEF Outcomes
<1>6. Sent' = [Sent EXCEPT ![d] = Len(n.post)]
  BY <1>1, <1>3 DEF Sent, Tried
<1>7. Accepted' = [Accepted EXCEPT ![d] = AcceptedCopies(n)]
  BY <1>1, <1>4 DEF Accepted
<1>8. QED
  BY <1>5, <1>6, <1>7 DEF Outcomes, Sent, Accepted, Tried

(* A post is a copy more, of a delivery that is open. *)
LEMMA PostSends ==
  ASSUME HooksInv, NEW d \in Deliveries, Post(d)
  PROVE  Event!SendCopy(d)
<1> DEFINE n == [delivery[d] EXCEPT !.pc = "posted", !.post = Append(@, "travelling")]
<1>1. /\ delivery \in [Deliveries -> DeliveryRecords]
      /\ delivery[d] \in DeliveryRecords
      /\ Proper(delivery[d])
  BY DEF HooksInv
<1>2. delivery[d].pc = "due" /\ delivery' = [delivery EXCEPT ![d] = n]
  BY DEF Post, Goroutine
<1>3. ~ delivery[d].confirmed /\ Len(delivery[d].post) < Attempts
  BY <1>1, <1>2 DEF Proper
<1>4. /\ n.pc = "posted" /\ n.post = Append(delivery[d].post, "travelling")
      /\ n.confirmed = delivery[d].confirmed
  BY <1>1 DEF DeliveryRecords
<1>5. Outcome(delivery[d]) = "open" /\ Outcome(n) = "open"
  BY <1>2, <1>3, <1>4 DEF Outcome
<1>6. delivery[d].post \in Seq(Fates) /\ "travelling" \in Fates
  BY <1>1 DEF DeliveryRecords, Fates
<1>7. /\ Len(n.post) = Len(delivery[d].post) + 1
      /\ n.post[Len(delivery[d].post) + 1] = "travelling"
      /\ \A k \in 1 .. Len(delivery[d].post) : n.post[k] = delivery[d].post[k]
  BY <1>4, <1>6, AppendProperties
<1>8. AcceptedCopies(n) = AcceptedCopies(delivery[d])
  BY <1>6, <1>7 DEF AcceptedCopies
<1> HIDE DEF n
<1>9. /\ Outcomes[d] = Outcome(delivery[d])
      /\ Sent[d] = Len(delivery[d].post)
      /\ Accepted[d] = AcceptedCopies(delivery[d])
      /\ Outcomes' = [Outcomes EXCEPT ![d] = Outcome(n)]
      /\ Sent' = [Sent EXCEPT ![d] = Len(n.post)]
      /\ Accepted' = [Accepted EXCEPT ![d] = AcceptedCopies(n)]
  BY <1>1, <1>2, OneShown
<1>10. /\ Outcomes[d] = "open" /\ Sent[d] < Attempts
      /\ Outcomes' = [Outcomes EXCEPT ![d] = Outcomes[d]]
      /\ Sent' = [Sent EXCEPT ![d] = Sent[d] + 1]
      /\ Accepted' = [Accepted EXCEPT ![d] = Accepted[d]]
  BY <1>1, <1>2, <1>3, <1>5, <1>7, <1>8, <1>9
<1>11. UNCHANGED <<Outcomes, Accepted>>
  BY <1>10 DEF Outcomes, Accepted
<1>12. QED
  BY <1>10, <1>11 DEF Event!SendCopy

(* A 2xx confirms: the copy it answers is the last one, and was accepted. *)
LEMMA SuccessConfirms ==
  ASSUME HooksInv, NEW d \in Deliveries, Answered(d),
         delivery[d].post[Tried(d)] = "accepted"
  PROVE  Event!Confirm(d)
<1> DEFINE n == [delivery[d] EXCEPT !.pc = "ended", !.confirmed = TRUE]
<1>1. /\ delivery \in [Deliveries -> DeliveryRecords]
      /\ delivery[d] \in DeliveryRecords
      /\ Proper(delivery[d])
  BY DEF HooksInv
<1>2. delivery[d].pc = "posted" /\ delivery' = [delivery EXCEPT ![d] = n]
  BY DEF Answered, Goroutine, AfterSuccess
<1>3. ~ delivery[d].confirmed /\ Len(delivery[d].post) > 0
  BY <1>1, <1>2 DEF Proper
<1>4. n.confirmed /\ n.post = delivery[d].post
  BY <1>1 DEF DeliveryRecords
<1>5. Outcome(delivery[d]) = "open" /\ Outcome(n) = "confirmed"
  BY <1>2, <1>3, <1>4 DEF Outcome
<1>6. Len(delivery[d].post) \in AcceptedCopies(delivery[d])
  BY <1>1, <1>3 DEF AcceptedCopies, Tried, DeliveryRecords
<1>7. AcceptedCopies(n) = AcceptedCopies(delivery[d])
  BY <1>4 DEF AcceptedCopies
<1> HIDE DEF n
<1>8. /\ Outcomes[d] = Outcome(delivery[d])
      /\ Sent[d] = Len(delivery[d].post)
      /\ Accepted[d] = AcceptedCopies(delivery[d])
      /\ Outcomes' = [Outcomes EXCEPT ![d] = Outcome(n)]
      /\ Sent' = [Sent EXCEPT ![d] = Len(n.post)]
      /\ Accepted' = [Accepted EXCEPT ![d] = AcceptedCopies(n)]
  BY <1>1, <1>2, OneShown
<1>9. /\ Outcomes[d] = "open" /\ Sent[d] \in Accepted[d]
      /\ Outcomes' = [Outcomes EXCEPT ![d] = "confirmed"]
      /\ Sent' = [Sent EXCEPT ![d] = Sent[d]]
      /\ Accepted' = [Accepted EXCEPT ![d] = Accepted[d]]
  BY <1>1, <1>2, <1>4, <1>5, <1>6, <1>7, <1>8
<1>10. UNCHANGED <<Sent, Accepted>>
  BY <1>9 DEF Sent, Accepted
<1>11. QED
  BY <1>9, <1>10 DEF Event!Confirm

(* A refusal or an error is the end after the last attempt, and nothing that
   shows before it. *)
LEMMA FailureGoesOn ==
  ASSUME HooksInv, NEW d \in Deliveries, delivery[d].pc = "posted",
         NEW n, delivery' = [delivery EXCEPT ![d] = n],
         n.pc = NextAttempt(d), n.post = delivery[d].post, ~ n.confirmed
  PROVE  Event!GiveUp(d) \/ UNCHANGED Event!eventVars
<1>1. /\ delivery \in [Deliveries -> DeliveryRecords]
      /\ Proper(delivery[d])
  BY DEF HooksInv
<1>2. /\ ~ delivery[d].confirmed
      /\ Len(delivery[d].post) =< Attempts /\ Len(delivery[d].post) \in Nat
  BY <1>1 DEF Proper, DeliveryRecords
<1>3. Outcome(delivery[d]) = "open"
  BY <1>2 DEF Outcome
<1>4. AcceptedCopies(n) = AcceptedCopies(delivery[d])
  BY DEF AcceptedCopies
<1>5. /\ Outcomes[d] = Outcome(delivery[d])
      /\ Sent[d] = Len(delivery[d].post)
      /\ Accepted[d] = AcceptedCopies(delivery[d])
      /\ Outcomes' = [Outcomes EXCEPT ![d] = Outcome(n)]
      /\ Sent' = [Sent EXCEPT ![d] = Len(n.post)]
      /\ Accepted' = [Accepted EXCEPT ![d] = AcceptedCopies(n)]
  BY <1>1, OneShown
<1>6. /\ Outcomes[d] = "open" /\ Sent[d] = Len(delivery[d].post)
      /\ Outcomes' = [Outcomes EXCEPT ![d] = Outcome(n)]
      /\ Sent' = [Sent EXCEPT ![d] = Sent[d]]
      /\ Accepted' = [Accepted EXCEPT ![d] = Accepted[d]]
  BY <1>1, <1>3, <1>4, <1>5
<1>7. UNCHANGED <<Sent, Accepted>>
  BY <1>6 DEF Sent, Accepted
<1>8. CASE Len(delivery[d].post) >= Attempts
  <2>1. Outcome(n) = "failed" /\ Sent[d] = Attempts
    BY <1>2, <1>6, <1>8, AttemptsAssumption DEF Outcome, NextAttempt, Tried
  <2>2. QED
    BY <1>6, <1>7, <2>1 DEF Event!GiveUp
<1>9. CASE ~ (Len(delivery[d].post) >= Attempts)
  <2>1. Outcome(n) = Outcomes[d]
    BY <1>6, <1>9 DEF Outcome, NextAttempt, Tried
  <2>2. UNCHANGED Outcomes
    BY <1>6, <2>1 DEF Outcomes
  <2>3. QED
    BY <1>7, <2>2 DEF Event!eventVars
<1>10. QED
  BY <1>8, <1>9

(* A copy that arrives is accepted, or nothing the sender promises changes. *)
LEMMA ReceiveAccepts ==
  ASSUME HooksInv, NEW d \in Deliveries, NEW k \in 1 .. Tried(d),
         NEW fate \in Fates, Receive(d, k, fate)
  PROVE  Event!AcceptCopy(d, k) \/ UNCHANGED Event!eventVars
<1> DEFINE n == [delivery[d] EXCEPT !.post[k] = fate]
<1>1. /\ delivery \in [Deliveries -> DeliveryRecords]
      /\ delivery[d] \in DeliveryRecords
  BY DEF HooksInv
<1>2. /\ delivery[d].post[k] = "travelling"
      /\ delivery' = [delivery EXCEPT ![d] = n]
  BY <1>1 DEF Receive
<1>3. delivery[d].post \in Seq(Fates) /\ k \in 1 .. Len(delivery[d].post)
  BY <1>1 DEF DeliveryRecords, Tried
<1>4. /\ n.pc = delivery[d].pc /\ n.confirmed = delivery[d].confirmed
      /\ n.post = [delivery[d].post EXCEPT ![k] = fate]
  BY <1>1 DEF DeliveryRecords
<1>5. /\ Len(n.post) = Len(delivery[d].post)
      /\ \A i \in 1 .. Len(delivery[d].post) :
           n.post[i] = IF i = k THEN fate ELSE delivery[d].post[i]
  BY <1>3, <1>4, ExceptSeq
<1>6. Outcome(n) = Outcome(delivery[d])
  BY <1>4 DEF Outcome
<1>7. k \notin AcceptedCopies(delivery[d])
  BY <1>2 DEF AcceptedCopies
<1>8. AcceptedCopies(n) = IF fate = "accepted" THEN AcceptedCopies(delivery[d]) \cup {k}
                                               ELSE AcceptedCopies(delivery[d])
  BY <1>2, <1>3, <1>5 DEF AcceptedCopies
<1> HIDE DEF n
<1>9. /\ Outcomes[d] = Outcome(delivery[d])
      /\ Sent[d] = Len(delivery[d].post)
      /\ Accepted[d] = AcceptedCopies(delivery[d])
      /\ Outcomes' = [Outcomes EXCEPT ![d] = Outcome(n)]
      /\ Sent' = [Sent EXCEPT ![d] = Len(n.post)]
      /\ Accepted' = [Accepted EXCEPT ![d] = AcceptedCopies(n)]
  BY <1>1, <1>2, OneShown
<1>10. /\ k \notin Accepted[d]
      /\ Outcomes' = [Outcomes EXCEPT ![d] = Outcomes[d]]
      /\ Sent' = [Sent EXCEPT ![d] = Sent[d]]
      /\ Accepted' = [Accepted EXCEPT ![d] = AcceptedCopies(n)]
      /\ Accepted[d] = AcceptedCopies(delivery[d])
  BY <1>1, <1>2, <1>5, <1>6, <1>7, <1>9
<1>11. UNCHANGED <<Outcomes, Sent>>
  BY <1>10 DEF Outcomes, Sent
<1>12. CASE fate = "accepted"
  BY <1>8, <1>10, <1>11, <1>12 DEF Event!AcceptCopy
<1>13. CASE fate # "accepted"
  <2>1. UNCHANGED Accepted
    BY <1>8, <1>10, <1>13 DEF Accepted
  <2>2. QED
    BY <1>11, <2>1 DEF Event!eventVars
<1>14. QED
  BY <1>12, <1>13

(* The rows of a call are deliveries that were not open before. *)
LEMMA CallOpens ==
  ASSUME HooksInv, NEW s \in Sends, NEW e \in Events, SendWebhook(s, e)
  PROVE  \E some \in SUBSET Deliveries : Event!Open(some)
<1>1. PICK rows \in SUBSET Matching(e) :
        delivery' = [d \in Deliveries |-> IF d[1] = s /\ d[2] \in rows
                                          THEN [delivery[d] EXCEPT !.pc = "due"]
                                          ELSE delivery[d]]
  BY DEF SendWebhook
<1> DEFINE some == {d \in Deliveries : d[1] = s /\ d[2] \in rows}
<1>2. ASSUME NEW d \in some
      PROVE  /\ Outcome(delivery[d]) = "none"
             /\ Outcome(delivery'[d]) = "open"
             /\ delivery'[d].post = delivery[d].post
  <2>1. delivery[d] \in DeliveryRecords /\ Proper(delivery[d])
    BY <1>2 DEF HooksInv
  <2>2. delivery[d].pc = "none"
    BY <1>2 DEF HooksInv, SendWebhook
  <2>3. ~ delivery[d].confirmed
    BY <2>1, <2>2 DEF Proper
  <2>4. delivery'[d] = [delivery[d] EXCEPT !.pc = "due"]
    BY <1>1, <1>2
  <2>5. /\ delivery'[d].pc = "due" /\ delivery'[d].post = delivery[d].post
        /\ delivery'[d].confirmed = delivery[d].confirmed
    BY <2>1, <2>4 DEF DeliveryRecords
  <2>6. QED
    BY <2>2, <2>3, <2>5 DEF Outcome
<1>3. \A d \in Deliveries \ some : delivery'[d] = delivery[d]
  BY <1>1
<1>4. Outcomes' = [d \in Deliveries |-> Outcome(delivery'[d])]
  BY DEF Outcomes, Outcome
<1>5. Sent' = [d \in Deliveries |-> Len(delivery'[d].post)]
  BY DEF Sent, Tried
<1>6. Accepted' = [d \in Deliveries |-> AcceptedCopies(delivery'[d])]
  BY DEF Accepted, AcceptedCopies
<1>7. some \in SUBSET Deliveries
  OBVIOUS
<1> HIDE DEF some
<1>8. \A d \in some : Outcomes[d] = "none"
  BY <1>2, <1>7 DEF Outcomes
<1>9. Outcomes' = [d \in Deliveries |-> IF d \in some THEN "open" ELSE Outcomes[d]]
  BY <1>2, <1>3, <1>4 DEF Outcomes
<1>10. UNCHANGED Sent
  BY <1>2, <1>3, <1>5 DEF Sent, Tried
<1>11. \A d \in Deliveries : AcceptedCopies(delivery'[d]) = AcceptedCopies(delivery[d])
  BY <1>2, <1>3 DEF AcceptedCopies
<1>12. UNCHANGED Accepted
  BY <1>6, <1>11 DEF Accepted
<1>13. QED
  BY <1>7, <1>8, <1>9, <1>10, <1>12 DEF Event!Open

(* Every step of the webhooks is a step of the deliveries or shows nothing. *)
LEMMA DeliveryStep ==
  ASSUME HooksInv, [HooksNext]_hookVars
  PROVE  [Event!EventNext]_Event!eventVars
<1>1. CASE UNCHANGED delivery
  <2>1. UNCHANGED Outcomes
    BY <1>1 DEF Outcomes, Outcome
  <2>2. UNCHANGED Sent
    BY <1>1 DEF Sent, Tried
  <2>3. UNCHANGED Accepted
    BY <1>1 DEF Accepted, AcceptedCopies
  <2>4. QED
    BY <2>1, <2>2, <2>3 DEF Event!eventVars
<1>2. CASE TableNext
  BY <1>1, <1>2 DEF TableNext, Create, Delete
<1>3. CASE \E s \in Sends, e \in Events : SendWebhook(s, e)
  BY <1>3, CallOpens DEF Event!EventNext
<1>4. ASSUME NEW d \in Deliveries, DeliveryNext(d)
      PROVE  [Event!EventNext]_Event!eventVars
  <2>1. /\ delivery[d] \in DeliveryRecords
        /\ Proper(delivery[d])
    BY DEF HooksInv
  <2>2. CASE Post(d)
    BY <2>2, PostSends DEF Event!EventNext
  <2>3. CASE Answered(d) /\ delivery[d].post[Tried(d)] = "accepted"
    BY <2>3, SuccessConfirms DEF Event!EventNext
  <2>4. CASE Answered(d) /\ delivery[d].post[Tried(d)] = "rejected"
    <3> DEFINE n == [delivery[d] EXCEPT !.pc = NextAttempt(d)]
    <3>1. delivery[d].pc = "posted" /\ delivery' = [delivery EXCEPT ![d] = n]
      BY <2>4 DEF Answered, Goroutine, AfterRefusal
    <3>2. n.pc = NextAttempt(d) /\ n.post = delivery[d].post /\ ~ n.confirmed
      BY <2>1, <3>1 DEF Proper, DeliveryRecords
    <3>3. QED
      BY <3>1, <3>2, FailureGoesOn DEF Event!EventNext
  <2>5. CASE PostError(d)
    <3> DEFINE n == [delivery[d] EXCEPT !.pc = NextAttempt(d),
                                        !.unanswered = @ \cup {Tried(d)}]
    <3>1. delivery[d].pc = "posted" /\ delivery' = [delivery EXCEPT ![d] = n]
      BY <2>5 DEF PostError, Goroutine
    <3>2. n.pc = NextAttempt(d) /\ n.post = delivery[d].post /\ ~ n.confirmed
      BY <2>1, <3>1 DEF Proper, DeliveryRecords
    <3>3. QED
      BY <3>1, <3>2, FailureGoesOn DEF Event!EventNext
  <2>6. CASE \E k \in 1 .. Tried(d), fate \in {"accepted", "rejected", "lost"} :
               Receive(d, k, fate)
    <3>1. PICK k \in 1 .. Tried(d), fate \in Fates : Receive(d, k, fate)
      BY <2>6 DEF Fates
    <3>2. Tried(d) = Sent[d]
      BY DEF Sent
    <3>3. QED
      BY <3>1, <3>2, ReceiveAccepts DEF Event!EventNext
  <2>7. QED
    BY <1>4, <2>2, <2>3, <2>4, <2>5, <2>6 DEF DeliveryNext, Answered
<1>5. QED
  BY <1>1, <1>2, <1>3, <1>4 DEF HooksNext, hookVars

(* The goroutines of SendWebhook implement the delivery of an event: a receiver
   is given up only after the last attempt and confirmed only over a copy it
   has, and nothing is sent to it afterwards. *)
THEOREM HooksImplementDelivery == HooksSpec => ImplementsDelivery
<1>1. HooksInit => Event!EventInit
  <2>1. SUFFICES ASSUME HooksInit
                 PROVE  Event!EventInit
    OBVIOUS
  <2>2. \A d \in Deliveries : /\ delivery[d].pc = "none" /\ ~ delivery[d].confirmed
                              /\ delivery[d].post = <<>>
    BY <2>1 DEF HooksInit
  <2>3. \A d \in Deliveries : Outcome(delivery[d]) = "none"
    BY <2>2 DEF Outcome
  <2>4. \A d \in Deliveries : Tried(d) = 0
    BY <2>2 DEF Tried
  <2>5. \A d \in Deliveries : AcceptedCopies(delivery[d]) = {}
    BY <2>2 DEF AcceptedCopies
  <2>6. QED
    BY <2>3, <2>4, <2>5 DEF Event!EventInit, Outcomes, Sent, Accepted
<1>2. HooksInv /\ [HooksNext]_hookVars => [Event!EventNext]_Event!eventVars
  BY DeliveryStep
<1>3. QED
  BY HooksInductive, <1>1, <1>2, PTL DEF HooksSpec, ImplementsDelivery, Event!EventSpec
=============================================================================
