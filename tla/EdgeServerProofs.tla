-------------------------- MODULE EdgeServerProofs --------------------------
(***************************************************************************)
(* Safety of EdgeServer for any number of nodes, streams and broadcasts    *)
(* and any channel capacity.                                               *)
(*                                                                         *)
(* IInv is inductive.  TypeOK and LiveHasNode make the other conjuncts     *)
(* meaningful; RivalsOverlap and SoleRegistered say why a stream without a *)
(* rival stays in the registry; FanoutProgress carries that through the    *)
(* iterations of the fan-out loop, which no conjunct about finished        *)
(* broadcasts could do; CarriedBounded is what EnvelopeNotOlder needs of   *)
(* the messages that are not delivered yet.                                *)
(***************************************************************************)
EXTENDS EdgeServer, SequenceTheorems, TLAPS

(* A stream that runs knows its node. *)
LiveHasNode == \A s \in Streams : Live(s) => nodeOf[s] \in Nodes

(* Two streams of a node that run at once are both marked. *)
RivalsOverlap ==
  \A s, t \in Streams :
    (s # t /\ Live(s) /\ Live(t) /\ nodeOf[s] = nodeOf[t]) => s \in overlapped

(* A stream that never had a rival owns the registration of its node. *)
SoleRegistered ==
  \A s \in Streams :
    (Live(s) /\ s \notin overlapped) => edges[nodeOf[s]] = s

Registry ==
  LiveHasNode /\ NoDeadRegistration /\ RivalsOverlap /\ SoleRegistered

(* The versions broadcasts hold: none before UpdateStamp, then a past one. *)
StampBounded ==
  /\ version >= 1
  /\ \A b \in Broadcasts :
       /\ stamp[b] =< version
       /\ bpc[b] = "idle" => stamp[b] = 0

(* A stream registered at a past version. *)
SinceBounded == \A s \in Streams : since[s] =< version

(* Between RLock and RUnlock or after, a sole stream that registered in time
   has had its offer or is still to be visited. *)
FanoutProgress ==
  \A b \in Updates, s \in Streams :
    (/\ bpc[b] \in {"fanout", "done"}
     /\ Open(s) /\ s \notin overlapped /\ since[s] < stamp[b])
      => \/ Carries(s, b)
         \/ b \in dropped[s]
         \/ bpc[b] = "fanout" /\ nodeOf[s] \in targets[b]

(* Messages on their way are not newer than the server, and the one in hand
   not newer than the version read at its receive. *)
CarriedBounded ==
  \A s \in Streams :
    /\ \A i \in DOMAIN ch[s] : ch[s][i].version =< version
    /\ pc[s] = "sending" => hand[s][1].version =< seen[s]

IInv ==
  /\ TypeOK
  /\ Registry
  /\ StampBounded
  /\ SinceBounded
  /\ FanoutProgress
  /\ CarriedBounded
  /\ EnvelopeNotOlder
  /\ VersionsDense
-----------------------------------------------------------------------------
(* Appending keeps every element of a sequence and adds one.               *)
LEMMA AppendElements ==
  ASSUME NEW S, NEW q \in Seq(S), NEW e \in S
  PROVE  /\ Append(q, e) \in Seq(S)
         /\ Len(Append(q, e)) = Len(q) + 1
         /\ DOMAIN Append(q, e) = 1 .. Len(q) + 1
         /\ \A i \in DOMAIN q : i \in DOMAIN Append(q, e) /\ Append(q, e)[i] = q[i]
         /\ \A i \in DOMAIN Append(q, e) :
              Append(q, e)[i] = e \/ (i \in DOMAIN q /\ Append(q, e)[i] = q[i])
         /\ Len(q) + 1 \in DOMAIN Append(q, e)
         /\ Append(q, e)[Len(q) + 1] = e
<1>1. /\ Append(q, e) \in Seq(S)
      /\ Len(Append(q, e)) = Len(q) + 1
      /\ \A i \in 1 .. Len(q) : Append(q, e)[i] = q[i]
      /\ Append(q, e)[Len(q) + 1] = e
  BY AppendProperties
<1>2. DOMAIN Append(q, e) = 1 .. Len(q) + 1 /\ DOMAIN q = 1 .. Len(q) /\ Len(q) \in Nat
  BY <1>1
<1> QED  BY <1>1, <1>2

(* The elements of a sequence.                                             *)
LEMMA ElementsTyped ==
  ASSUME NEW S, NEW q \in Seq(S)
  PROVE  \A i \in DOMAIN q : q[i] \in S
BY LenProperties, ElementOfSeq

(* A message leaves the head of a sequence: nothing else is lost.          *)
LEMMA TailElements ==
  ASSUME NEW S, NEW q \in Seq(S), q # <<>>
  PROVE  /\ Head(q) \in S
         /\ Tail(q) \in Seq(S)
         /\ Len(Tail(q)) = Len(q) - 1
         /\ Head(q) = q[1] /\ 1 \in DOMAIN q
         /\ \A i \in DOMAIN Tail(q) : i + 1 \in DOMAIN q /\ Tail(q)[i] = q[i + 1]
         /\ \A i \in DOMAIN q : i # 1 => i - 1 \in DOMAIN Tail(q) /\ Tail(q)[i - 1] = q[i]
<1>1. /\ Head(q) \in S
      /\ Tail(q) \in Seq(S)
      /\ Len(Tail(q)) = Len(q) - 1
      /\ \A i \in 1 .. Len(Tail(q)) : Tail(q)[i] = q[i + 1]
  BY HeadTailProperties
<1>2. Head(q) = q[1] /\ Len(q) \in Nat \ {0}
  OBVIOUS
<1>3. DOMAIN q = 1 .. Len(q) /\ DOMAIN Tail(q) = 1 .. Len(q) - 1
  BY <1>1, <1>2
<1>4. ASSUME NEW i \in DOMAIN q, i # 1
      PROVE  i - 1 \in DOMAIN Tail(q) /\ Tail(q)[i - 1] = q[i]
  <2>1. i - 1 \in 1 .. Len(Tail(q)) /\ (i - 1) + 1 = i
    BY <1>1, <1>2, <1>3, <1>4
  <2> QED  BY <2>1, <1>1, <1>3
<1>5. ASSUME NEW i \in DOMAIN Tail(q)
      PROVE  i + 1 \in DOMAIN q /\ Tail(q)[i] = q[i + 1]
  BY <1>1, <1>2, <1>3
<1> QED  BY <1>1, <1>2, <1>3, <1>4, <1>5

LEMMA MessageTyped == TypeOK => \A b \in Broadcasts : Message(b) \in Messages
BY DEF TypeOK, Messages, Message

LEMMA InitTypeOK == Init => TypeOK
BY CapAssumption DEF Init, TypeOK, Messages, Broadcasts

(* Every step keeps the types; only the steps of a channel need an argument. *)
LEMMA NextTypeOK == TypeOK /\ [Next]_vars => TypeOK'
<1> SUFFICES ASSUME TypeOK, [Next]_vars  PROVE TypeOK'
  OBVIOUS
<1> USE CapAssumption, NamesAssumption
<1>1. ASSUME NEW s \in Streams, NEW n \in Nodes, WatchRegister(s, n)  PROVE TypeOK'
  BY <1>1 DEF TypeOK, WatchRegister, Rivals, bcasts
<1>2. ASSUME NEW s \in Streams, WatchReceive(s)  PROVE TypeOK'
  <2> DEFINE m == Head(ch[s])
  <2>1. /\ m \in Messages
        /\ Tail(ch[s]) \in Seq(Messages)
        /\ Len(Tail(ch[s])) = Len(ch[s]) - 1
    BY <1>2, TailElements DEF WatchReceive, TypeOK
  <2>2. <<m>> \in Seq(Messages) /\ Len(<<m>>) = 1
    BY <2>1
  <2>3. hand' \in [Streams -> Seq(Messages)] /\ ch' \in [Streams -> Seq(Messages)]
    BY <1>2, <2>1, <2>2 DEF WatchReceive, TypeOK
  <2>4. ASSUME NEW t \in Streams
        PROVE  /\ Len(ch'[t]) =< Cap
               /\ pc'[t] \in {"idle", "select"} => hand'[t] = <<>>
               /\ pc'[t] = "sending" => Len(hand'[t]) = 1
    BY <1>2, <2>1, <2>2 DEF WatchReceive, TypeOK
  <2>5. seen' \in [Streams -> Nat]
    BY <1>2 DEF WatchReceive, VersionAtReceive, TypeOK
  <2> QED  BY <1>2, <2>3, <2>4, <2>5 DEF WatchReceive, TypeOK, server, bcasts, history
<1>3. ASSUME NEW s \in Streams, WatchSend(s)  PROVE TypeOK'
  <2> DEFINE Response == [update : Messages, version : Nat]
  <2>1. PICK v \in seen[s] .. version :
          delivered' = [delivered EXCEPT ![s] =
                          Append(@, [update |-> hand[s][1], version |-> v])]
    BY <1>3 DEF WatchSend
  <2>2. hand[s] \in Seq(Messages) /\ Len(hand[s]) = 1
    BY <1>3 DEF WatchSend, TypeOK
  <2>3. hand[s][1] \in Messages
    BY <2>2
  <2>a. v \in Nat
    BY DEF TypeOK
  <2>4. [update |-> hand[s][1], version |-> v] \in Response
    BY <2>3, <2>a
  <2>5. delivered \in [Streams -> Seq(Response)]
    BY DEF TypeOK
  <2>6. Append(delivered[s], [update |-> hand[s][1], version |-> v]) \in Seq(Response)
    BY <2>4, <2>5, AppendElements
  <2>7. delivered' \in [Streams -> Seq(Response)]
    BY <2>1, <2>5, <2>6
  <2>8. ASSUME NEW t \in Streams
        PROVE  /\ pc'[t] \in {"idle", "select"} => hand'[t] = <<>>
               /\ pc'[t] = "sending" => Len(hand'[t]) = 1
    BY <1>3 DEF WatchSend, TypeOK
  <2>9. pc' \in [Streams -> {"idle", "select", "sending", "closing", "returned"}]
        /\ hand' \in [Streams -> Seq(Messages)]
    BY <1>3 DEF WatchSend, TypeOK
  <2>10. UNCHANGED <<edges, version, nodeOf, cancelled, ch, seen, bpc, stamp, targets,
                     since, overlapped, dropped>>
    BY <1>3 DEF WatchSend, server, bcasts, history
  <2> QED  BY <2>7, <2>8, <2>9, <2>10 DEF TypeOK
<1>4. ASSUME NEW s \in Streams, WatchSendError(s) \/ WatchContextDone(s) \/ Disconnect(s)
      PROVE  TypeOK'
  BY <1>4 DEF WatchSendError, WatchContextDone, Disconnect, TypeOK, server, bcasts, history
<1>5. ASSUME NEW s \in Streams, WatchUnregister(s)  PROVE TypeOK'
  BY <1>5 DEF WatchUnregister, EdgesWithout, TypeOK, bcasts, history
<1>6. ASSUME NEW b \in Broadcasts, UpdateStamp(b)  PROVE TypeOK'
  <2>1. version' \in Nat /\ stamp' \in [Broadcasts -> Nat]
    BY <1>6 DEF UpdateStamp, NextVersion, TypeOK
  <2>2. bpc' \in [Broadcasts -> {"idle", "stamped", "fanout", "done"}]
    BY <1>6 DEF UpdateStamp, TypeOK
  <2> QED  BY <1>6, <2>1, <2>2 DEF UpdateStamp, TypeOK, streams, history
<1>7. ASSUME NEW b \in Broadcasts, FanoutBegin(b) \/ FanoutEnd(b)  PROVE TypeOK'
  <2>1. bpc' \in [Broadcasts -> {"idle", "stamped", "fanout", "done"}]
    BY <1>7 DEF FanoutBegin, FanoutEnd, TypeOK
  <2>2. targets' \in [Broadcasts -> SUBSET Nodes]
    <3>1. {n \in Nodes : edges[n] # None} \in SUBSET Nodes
      OBVIOUS
    <3> QED  BY <1>7, <3>1 DEF FanoutBegin, FanoutEnd, TypeOK
  <2> QED
    BY <1>7, <2>1, <2>2 DEF FanoutBegin, FanoutEnd, TypeOK, server, streams, history
<1>8. ASSUME NEW b \in Broadcasts, NEW n \in Nodes, FanoutOffer(b, n)  PROVE TypeOK'
  <2>1. ASSUME NEW s \in Streams, HasRoom(s)
        PROVE  /\ Append(ch[s], Message(b)) \in Seq(Messages)
               /\ Len(Append(ch[s], Message(b))) =< Cap
    <3>1. ch[s] \in Seq(Messages) /\ Message(b) \in Messages
      BY MessageTyped DEF TypeOK
    <3>2. Len(Append(ch[s], Message(b))) = Len(ch[s]) + 1
      BY <3>1, AppendElements
    <3> QED  BY <2>1, <3>1, <3>2, AppendElements DEF HasRoom
  <2>2. ASSUME NEW t \in Streams
        PROVE  ch'[t] \in Seq(Messages) /\ Len(ch'[t]) =< Cap
    <3>1. CASE t = edges[n] /\ HasRoom(t)
      <4>1. ch'[t] = Append(ch[t], Message(b))
        BY <1>8, <3>1 DEF FanoutOffer, TypeOK
      <4> QED  BY <2>1, <3>1, <4>1
    <3>2. CASE ~(t = edges[n] /\ HasRoom(t))
      <4>1. ch'[t] = ch[t]
        BY <1>8, <3>2 DEF FanoutOffer, TypeOK
      <4> QED  BY <4>1 DEF TypeOK
    <3> QED  BY <3>1, <3>2
  <2>3. ch' \in [Streams -> Seq(Messages)]
    <3>1. ch' = [t \in Streams |-> ch'[t]]
      BY <1>8 DEF FanoutOffer, TypeOK
    <3> QED  BY <2>2, <3>1
  <2>4. targets' \in [Broadcasts -> SUBSET Nodes]
    BY <1>8 DEF FanoutOffer, TypeOK
  <2>5. dropped' \in [Streams -> SUBSET Broadcasts]
    <3>1. dropped' = dropped \/ dropped' = [dropped EXCEPT ![edges[n]] = @ \cup {b}]
      BY <1>8 DEF FanoutOffer
    <3>2. dropped \in [Streams -> SUBSET Broadcasts]
      BY DEF TypeOK
    <3> QED  BY <3>1, <3>2
  <2> QED  BY <1>8, <2>2, <2>3, <2>4, <2>5 DEF FanoutOffer, TypeOK, server
<1>9. CASE UNCHANGED vars
  BY <1>9 DEF vars, server, streams, bcasts, history, TypeOK
<1> QED
  BY <1>1, <1>2, <1>3, <1>4, <1>5, <1>6, <1>7, <1>8, <1>9 DEF Next, StreamNext, BroadcastNext

(* Every variable keeps its type and no channel exceeds its capacity.      *)
THEOREM TypeCorrect == Spec => []TypeOK
BY InitTypeOK, NextTypeOK, PTL DEF Spec
-----------------------------------------------------------------------------
(* The registry.                                                           *)

LEMMA InitRegistry == Init => Registry
BY NamesAssumption
   DEF Init, Registry, LiveHasNode, NoDeadRegistration, RivalsOverlap,
       SoleRegistered, Live, Open

(* Only WatchRegister and WatchUnregister write edges, the first for a node
   whose other streams it marks, the second for the node of a stream that
   leaves: a sole stream of that node would be that stream itself. *)
LEMMA NextRegistry == TypeOK /\ Registry /\ [Next]_vars => Registry'
<1> SUFFICES ASSUME TypeOK, Registry, [Next]_vars  PROVE Registry'
  OBVIOUS
<1> USE NamesAssumption
<1> USE DEF Registry, LiveHasNode, NoDeadRegistration, RivalsOverlap, SoleRegistered
<1>1. ASSUME NEW s \in Streams, NEW n \in Nodes, WatchRegister(s, n)
      PROVE  Registry'
  <2>1. /\ ~Live(s) /\ Live(s)'
        /\ \A t \in Streams \ {s} : Live(t)' = Live(t) /\ nodeOf'[t] = nodeOf[t]
        /\ nodeOf'[s] = n /\ edges'[n] = s
        /\ \A m \in Nodes \ {n} : edges'[m] = edges[m]
    BY <1>1 DEF WatchRegister, Live, Open, TypeOK
  <2>2. overlapped \subseteq overlapped'
    BY <1>1 DEF WatchRegister
  <2>3. \A t \in Streams \ {s} :
          (Live(t) /\ nodeOf[t] = n) => t \in overlapped' /\ s \in overlapped'
    BY <1>1 DEF WatchRegister, Rivals
  <2>4. LiveHasNode'
    BY <2>1
  <2>5. NoDeadRegistration'
    <3> SUFFICES ASSUME NEW m \in Nodes, edges'[m] # None
                 PROVE  Live(edges[m])' /\ nodeOf'[edges'[m]] = m
      OBVIOUS
    <3>1. CASE m = n
      BY <2>1, <3>1
    <3>2. CASE m # n
      <4>1. edges'[m] = edges[m] /\ Live(edges[m]) /\ nodeOf[edges[m]] = m
        BY <2>1, <3>2
      <4>2. edges[m] \in Streams \ {s}
        BY <2>1, <4>1 DEF TypeOK
      <4> QED  BY <2>1, <4>1, <4>2
    <3> QED  BY <3>1, <3>2
  <2>6. RivalsOverlap'
    BY <2>1, <2>2, <2>3
  <2>7. SoleRegistered'
    BY <2>1, <2>2, <2>3
  <2> QED  BY <2>4, <2>5, <2>6, <2>7
<1>2. ASSUME NEW s \in Streams, WatchUnregister(s)
      PROVE  Registry'
  <2>1. /\ Live(s) /\ ~Live(s)' /\ nodeOf[s] \in Nodes
        /\ \A t \in Streams \ {s} : Live(t)' = Live(t)
        /\ UNCHANGED <<nodeOf, overlapped>>
        /\ edges'[nodeOf[s]] = None
        /\ \A m \in Nodes \ {nodeOf[s]} : edges'[m] = edges[m]
    BY <1>2 DEF WatchUnregister, EdgesWithout, Live, Open, TypeOK, history
  <2>2. LiveHasNode' /\ RivalsOverlap'
    BY <2>1
  <2>3. NoDeadRegistration'
    <3> SUFFICES ASSUME NEW m \in Nodes, edges'[m] # None
                 PROVE  Live(edges[m])' /\ nodeOf'[edges'[m]] = m
      OBVIOUS
    <3>1. m # nodeOf[s] /\ edges'[m] = edges[m] /\ Live(edges[m]) /\ nodeOf[edges[m]] = m
      BY <2>1
    <3>2. edges[m] \in Streams \ {s}
      BY <2>1, <3>1 DEF TypeOK
    <3> QED  BY <2>1, <3>1, <3>2
  <2>4. SoleRegistered'
    <3> SUFFICES ASSUME NEW t \in Streams, Live(t)', t \notin overlapped'
                 PROVE  edges'[nodeOf'[t]] = t
      OBVIOUS
    <3>1. t # s /\ Live(t) /\ t \notin overlapped /\ nodeOf[t] \in Nodes
      BY <2>1
    <3>2. nodeOf[t] # nodeOf[s]
      BY <2>1, <3>1
    <3> QED  BY <2>1, <3>1, <3>2
  <2> QED  BY <2>2, <2>3, <2>4
<1>3. ASSUME UNCHANGED <<edges, nodeOf, overlapped>>,
             \A t \in Streams : Live(t)' = Live(t)
      PROVE  Registry'
  BY <1>3 DEF TypeOK
<1>4. ASSUME NEW s \in Streams,
             \/ WatchReceive(s)
             \/ WatchSend(s)
             \/ WatchSendError(s)
             \/ WatchContextDone(s)
             \/ Disconnect(s)
      PROVE  Registry'
  <2>1. UNCHANGED <<edges, nodeOf, overlapped>>
    BY <1>4 DEF WatchReceive, WatchSend, WatchSendError, WatchContextDone, Disconnect,
                server, history
  <2>2. \A t \in Streams : Live(t)' = Live(t)
    BY <1>4 DEF WatchReceive, WatchSend, WatchSendError, WatchContextDone, Disconnect,
                Live, Open, TypeOK
  <2> QED  BY <1>3, <2>1, <2>2
<1>5. ASSUME NEW b \in Broadcasts, BroadcastNext(b)
      PROVE  Registry'
  <2>1. UNCHANGED <<edges, nodeOf, overlapped, pc>>
    BY <1>5 DEF BroadcastNext, UpdateStamp, FanoutBegin, FanoutOffer, FanoutEnd,
                server, streams, history
  <2> QED  BY <1>3, <2>1 DEF Live, Open
<1>6. CASE UNCHANGED vars
  BY <1>3, <1>6 DEF vars, server, streams, history, Live, Open
<1> QED
  BY <1>1, <1>2, <1>4, <1>5, <1>6 DEF Next, StreamNext
-----------------------------------------------------------------------------
(* Versions.                                                               *)

LEMMA InitVersions == Init => StampBounded /\ VersionsDense
BY DEF Init, StampBounded, VersionsDense, Broadcasts

(* Only UpdateStamp writes version and stamp.  It increments the one under
   the lock and gives the new value to the other, which nobody holds yet. *)
LEMMA NextVersions ==
  TypeOK /\ StampBounded /\ VersionsDense /\ [Next]_vars
    => StampBounded' /\ VersionsDense'
<1> SUFFICES ASSUME TypeOK, StampBounded, VersionsDense, [Next]_vars
             PROVE  StampBounded' /\ VersionsDense'
  OBVIOUS
<1>1. ASSUME NEW b \in Broadcasts, UpdateStamp(b)
      PROVE  StampBounded' /\ VersionsDense'
  <2>1. /\ b \in Updates /\ bpc[b] = "idle" /\ bpc'[b] = "stamped"
        /\ version \in Nat /\ version' = version + 1 /\ stamp'[b] = version + 1
        /\ \A c \in Broadcasts \ {b} : stamp'[c] = stamp[c] /\ bpc'[c] = bpc[c]
        /\ \A c \in Broadcasts : stamp[c] \in Nat /\ stamp[c] =< version
        /\ stamp[b] = 0
    BY <1>1 DEF UpdateStamp, NextVersion, StampBounded, TypeOK
  <2>2. StampBounded'
    BY <2>1 DEF StampBounded
  <2>3. \A c \in Updates : bpc'[c] # "idle" => stamp'[c] \in 2 .. version'
    <3>1. version >= 1
      BY DEF StampBounded
    <3> QED  BY <2>1, <3>1 DEF VersionsDense, Broadcasts
  <2>4. ASSUME NEW v \in 2 .. version'
        PROVE  \E c \in Updates :
                 stamp'[c] = v /\ \A d \in Updates : stamp'[d] = v => d = c
    <3>1. CASE v = version + 1
      BY <2>1, <3>1 DEF Broadcasts
    <3>2. CASE v # version + 1
      <4>1. v \in 2 .. version
        BY <2>1, <3>2
      <4>2. PICK c \in Updates :
              stamp[c] = v /\ \A d \in Updates : stamp[d] = v => d = c
        BY <4>1 DEF VersionsDense
      <4> QED  BY <2>1, <3>2, <4>1, <4>2 DEF Broadcasts
    <3> QED  BY <3>1, <3>2
  <2> QED  BY <2>2, <2>3, <2>4 DEF VersionsDense
<1>2. ASSUME UNCHANGED <<version, stamp>>,
             \A b \in Broadcasts :
               /\ bpc'[b] = "idle" => bpc[b] = "idle"
               /\ (b \in Updates /\ bpc[b] = "idle") => bpc'[b] = "idle"
      PROVE  StampBounded' /\ VersionsDense'
  BY <1>2 DEF StampBounded, VersionsDense, Broadcasts
<1>3. ASSUME NEW s \in Streams, StreamNext(s)
      PROVE  UNCHANGED <<version, stamp, bpc>>
  BY <1>3 DEF StreamNext, WatchRegister, WatchReceive, WatchSend, WatchSendError,
              WatchContextDone, WatchUnregister, Disconnect, server, bcasts
<1>4. ASSUME NEW b \in Broadcasts,
             FanoutBegin(b) \/ FanoutEnd(b) \/ \E n \in Nodes : FanoutOffer(b, n)
      PROVE  StampBounded' /\ VersionsDense'
  <2>1. UNCHANGED <<version, stamp>>
    BY <1>4 DEF FanoutBegin, FanoutEnd, FanoutOffer, server
  <2>2. \A c \in Broadcasts :
          /\ bpc'[c] = "idle" => bpc[c] = "idle"
          /\ (c \in Updates /\ bpc[c] = "idle") => bpc'[c] = "idle"
    BY <1>4, NamesAssumption DEF FanoutBegin, FanoutEnd, FanoutOffer, TypeOK
  <2> QED  BY <1>2, <2>1, <2>2
<1>5. CASE UNCHANGED vars
  BY <1>2, <1>5 DEF vars, server, bcasts
<1> QED
  BY <1>1, <1>2, <1>3, <1>4, <1>5 DEF Next, BroadcastNext
-----------------------------------------------------------------------------
(* What a stream carries.                                                  *)

(* The channel of a stream grows by one message or not at all in an iteration
   of the fan-out loop. *)
LEMMA OfferAppends ==
  ASSUME TypeOK, NEW b \in Broadcasts, NEW n \in Nodes, FanoutOffer(b, n), NEW s \in Streams
  PROVE  \/ ch'[s] = ch[s]
         \/ s = edges[n] /\ ch'[s] = Append(ch[s], Message(b))
BY DEF FanoutOffer, TypeOK

(* A message that went into the channel of a stream stays with that stream:
   from the channel to the hand, from the hand to the edge. *)
LEMMA CarriesStable ==
  ASSUME TypeOK, [Next]_vars, NEW s \in Streams, NEW b \in Broadcasts, Carries(s, b)
  PROVE  Carries(s, b)'
<1>1. CASE WatchReceive(s)
  <2>1. /\ ch[s] \in Seq(Messages) /\ ch[s] # <<>> /\ hand[s] = <<>>
        /\ ch'[s] = Tail(ch[s]) /\ hand'[s] = <<Head(ch[s])>>
        /\ delivered' = delivered
    BY <1>1 DEF WatchReceive, TypeOK
  <2>2. CASE \E i \in DOMAIN ch[s] : ch[s][i].id = b
    <3>1. PICK i \in DOMAIN ch[s] : ch[s][i].id = b
      BY <2>2
    <3>2. CASE i = 1
      <4>1. 1 \in DOMAIN hand'[s] /\ hand'[s][1] = ch[s][1]
        BY <2>1, TailElements
      <4> QED  BY <3>1, <3>2, <4>1 DEF Carries
    <3>3. CASE i # 1
      <4>1. i - 1 \in DOMAIN Tail(ch[s]) /\ Tail(ch[s])[i - 1] = ch[s][i]
        BY <2>1, <3>3, TailElements
      <4> QED  BY <2>1, <3>1, <4>1 DEF Carries
    <3> QED  BY <3>2, <3>3
  <2>3. CASE \E i \in DOMAIN delivered[s] : delivered[s][i].update.id = b
    BY <2>1, <2>3 DEF Carries
  <2> QED  BY <2>1, <2>2, <2>3 DEF Carries
<1>2. CASE WatchSend(s)
  <2> DEFINE Response == [update : Messages, version : Nat]
  <2>1. PICK v \in seen[s] .. version :
          delivered' = [delivered EXCEPT ![s] =
                          Append(@, [update |-> hand[s][1], version |-> v])]
    BY <1>2 DEF WatchSend
  <2> DEFINE r == [update |-> hand[s][1], version |-> v]
  <2>2. /\ hand[s] \in Seq(Messages) /\ Len(hand[s]) = 1 /\ ch' = ch
        /\ delivered[s] \in Seq(Response) /\ delivered'[s] = Append(delivered[s], r)
    BY <1>2, <2>1 DEF WatchSend, TypeOK
  <2>3. DOMAIN hand[s] = {1} /\ hand[s][1] \in Messages
    BY <2>2
  <2>4. v \in Nat
    BY DEF TypeOK
  <2>5. r \in Response
    BY <2>3, <2>4
  <2>6. /\ \A i \in DOMAIN delivered[s] :
              i \in DOMAIN delivered'[s] /\ delivered'[s][i] = delivered[s][i]
        /\ \E i \in DOMAIN delivered'[s] : delivered'[s][i].update = hand[s][1]
    <3> HIDE DEF r, Response
    <3>1. /\ \A i \in DOMAIN delivered[s] :
                i \in DOMAIN delivered'[s] /\ delivered'[s][i] = delivered[s][i]
          /\ Len(delivered[s]) + 1 \in DOMAIN delivered'[s]
          /\ delivered'[s][Len(delivered[s]) + 1] = r
      BY <2>2, <2>5, AppendElements
    <3>2. r.update = hand[s][1]
      BY DEF r
    <3> QED  BY <3>1, <3>2
  <2> QED  BY <2>2, <2>3, <2>6 DEF Carries
<1>3. ASSUME NEW c \in Broadcasts, NEW n \in Nodes, FanoutOffer(c, n)
      PROVE  Carries(s, b)'
  <2>1. /\ ch[s] \in Seq(Messages) /\ Message(c) \in Messages
        /\ hand'[s] = hand[s] /\ delivered'[s] = delivered[s]
    BY <1>3, MessageTyped DEF FanoutOffer, TypeOK
  <2>2. \A i \in DOMAIN ch[s] : i \in DOMAIN ch'[s] /\ ch'[s][i] = ch[s][i]
    BY <1>3, <2>1, OfferAppends, AppendElements
  <2> QED  BY <2>1, <2>2 DEF Carries
<1>4. CASE ch'[s] = ch[s] /\ hand'[s] = hand[s] /\ delivered'[s] = delivered[s]
  BY <1>4 DEF Carries
<1>5. ASSUME NEW t \in Streams, StreamNext(t), ~WatchReceive(s), ~WatchSend(s)
      PROVE  ch'[s] = ch[s] /\ hand'[s] = hand[s] /\ delivered'[s] = delivered[s]
  BY <1>5 DEF StreamNext, WatchRegister, WatchReceive, WatchSend, WatchSendError,
              WatchContextDone, WatchUnregister, Disconnect, TypeOK
<1>6. ASSUME NEW c \in Broadcasts, UpdateStamp(c) \/ FanoutBegin(c) \/ FanoutEnd(c)
      PROVE  ch'[s] = ch[s] /\ hand'[s] = hand[s] /\ delivered'[s] = delivered[s]
  BY <1>6 DEF UpdateStamp, FanoutBegin, FanoutEnd, streams
<1>7. CASE UNCHANGED vars
  BY <1>4, <1>7 DEF vars, streams
<1> QED
  BY <1>1, <1>2, <1>3, <1>4, <1>5, <1>6, <1>7 DEF Next, BroadcastNext

(* An iteration of the loop either puts the message on the channel it visits
   or records the skip. *)
LEMMA OfferLands ==
  ASSUME TypeOK, NEW b \in Broadcasts, NEW n \in Nodes, FanoutOffer(b, n),
         edges[n] \in Streams
  PROVE  Carries(edges[n], b)' \/ b \in dropped'[edges[n]]
<1> DEFINE s == edges[n]
<1>1. CASE HasRoom(s)
  <2>1. ch'[s] = Append(ch[s], Message(b)) /\ ch[s] \in Seq(Messages)
    BY <1>1 DEF FanoutOffer, TypeOK
  <2>2. Len(ch[s]) + 1 \in DOMAIN ch'[s] /\ ch'[s][Len(ch[s]) + 1] = Message(b)
    BY <2>1, MessageTyped, AppendElements
  <2>3. edges' = edges /\ Message(b).id = b
    BY DEF FanoutOffer, server, Message
  <2> QED  BY <2>2, <2>3 DEF Carries
<1>2. CASE ~HasRoom(s)
  BY <1>2 DEF FanoutOffer, TypeOK
<1> QED  BY <1>1, <1>2
-----------------------------------------------------------------------------
(* Who a broadcast reaches.                                                *)

LEMMA InitFanoutProgress == Init => FanoutProgress
BY DEF Init, FanoutProgress, Broadcasts

(* FanoutBegin finds every sole stream in the registry, each FanoutOffer to
   its node lands on that stream, and a stream that registers after the loop
   began has a later version: nothing registers during the loop. *)
LEMMA NextFanoutProgress ==
  TypeOK /\ Registry /\ StampBounded /\ FanoutProgress /\ [Next]_vars => FanoutProgress'
<1> SUFFICES ASSUME TypeOK, Registry, StampBounded, FanoutProgress, [Next]_vars,
                    NEW b \in Updates, NEW s \in Streams,
                    bpc'[b] \in {"fanout", "done"}, Open(s)',
                    s \notin overlapped', since'[s] < stamp'[b]
             PROVE  \/ Carries(s, b)'
                    \/ b \in dropped'[s]
                    \/ bpc'[b] = "fanout" /\ nodeOf'[s] \in targets'[b]
  BY DEF FanoutProgress
<1>a. b \in Broadcasts /\ b \notin Purges
  BY NamesAssumption DEF Broadcasts
<1>b. ASSUME /\ Open(s) /\ s \notin overlapped /\ nodeOf'[s] = nodeOf[s]
             /\ since'[s] = since[s] /\ stamp'[b] = stamp[b]
             /\ bpc[b] \in {"fanout", "done"}
             /\ bpc[b] = "fanout" => bpc'[b] = "fanout" /\ targets'[b] = targets[b]
             /\ dropped[s] \subseteq dropped'[s]
      PROVE  \/ Carries(s, b)'
             \/ b \in dropped'[s]
             \/ bpc'[b] = "fanout" /\ nodeOf'[s] \in targets'[b]
  BY <1>a, <1>b, CarriesStable DEF FanoutProgress
<1>1. ASSUME NEW t \in Streams, NEW n \in Nodes, WatchRegister(t, n)
      PROVE  Open(s) /\ s # t
  <2>1. since'[t] = version /\ stamp'[b] = stamp[b] /\ stamp[b] =< version
    BY <1>1, <1>a DEF WatchRegister, TypeOK, StampBounded, bcasts
  <2>2. s # t
    BY <2>1, <1>a DEF TypeOK
  <2> QED  BY <1>1, <2>2 DEF WatchRegister, Open, TypeOK
<1>2. ASSUME NEW t \in Streams, StreamNext(t)
      PROVE  \/ Carries(s, b)'
             \/ b \in dropped'[s]
             \/ bpc'[b] = "fanout" /\ nodeOf'[s] \in targets'[b]
  <2>1. /\ bpc' = bpc /\ stamp' = stamp /\ targets' = targets /\ dropped' = dropped
        /\ overlapped \subseteq overlapped'
    BY <1>2 DEF StreamNext, WatchRegister, WatchReceive, WatchSend, WatchSendError,
                WatchContextDone, WatchUnregister, Disconnect, bcasts, history
  <2>2. CASE \E n \in Nodes : WatchRegister(t, n)
    <3>1. Open(s) /\ s # t
      BY <1>1, <2>2
    <3>2. since'[s] = since[s] /\ nodeOf'[s] = nodeOf[s]
      BY <2>2, <3>1 DEF WatchRegister, TypeOK
    <3> QED  BY <1>b, <2>1, <3>1, <3>2
  <2>3. CASE ~\E n \in Nodes : WatchRegister(t, n)
    <3>1. since' = since /\ nodeOf' = nodeOf
      BY <1>2, <2>3 DEF StreamNext, WatchReceive, WatchSend, WatchSendError,
                WatchContextDone, WatchUnregister, Disconnect, history
    <3>2. Open(s)
      BY <1>2, <2>3 DEF StreamNext, WatchReceive, WatchSend, WatchSendError,
                WatchContextDone, WatchUnregister, Disconnect, Open, TypeOK
    <3> QED  BY <1>b, <2>1, <3>1, <3>2
  <2> QED  BY <2>2, <2>3
<1>3. ASSUME NEW c \in Broadcasts, BroadcastNext(c)
      PROVE  UNCHANGED <<edges, nodeOf, pc, since, overlapped>>
  BY <1>3 DEF BroadcastNext, UpdateStamp, FanoutBegin, FanoutOffer, FanoutEnd,
              server, streams, history
<1>4. ASSUME NEW c \in Broadcasts, UpdateStamp(c)
      PROVE  \/ Carries(s, b)'
             \/ b \in dropped'[s]
             \/ bpc'[b] = "fanout" /\ nodeOf'[s] \in targets'[b]
  <2>1. UNCHANGED <<pc, nodeOf, since, overlapped, dropped, targets>>
    BY <1>3, <1>4 DEF BroadcastNext, UpdateStamp, history
  <2>2. c # b /\ bpc'[b] = bpc[b] /\ stamp'[b] = stamp[b]
    BY <1>4, <1>a DEF UpdateStamp, TypeOK
  <2> QED  BY <1>b, <2>1, <2>2 DEF Open
<1>5. ASSUME NEW c \in Broadcasts, FanoutBegin(c)
      PROVE  \/ Carries(s, b)'
             \/ b \in dropped'[s]
             \/ bpc'[b] = "fanout" /\ nodeOf'[s] \in targets'[b]
  <2>1. UNCHANGED <<edges, pc, nodeOf, since, overlapped, dropped, stamp>>
    BY <1>3, <1>5 DEF BroadcastNext, FanoutBegin, history
  <2>2. CASE c = b
    <3>1. Live(s) /\ s \notin overlapped
      BY <2>1 DEF Open, Live
    <3>2. nodeOf[s] \in Nodes /\ edges[nodeOf[s]] = s /\ s # None
      BY <3>1, NamesAssumption DEF Registry, LiveHasNode, SoleRegistered
    <3>3. targets'[b] = {n \in Nodes : edges[n] # None} /\ bpc'[b] = "fanout"
      BY <1>5, <1>a, <2>2 DEF FanoutBegin, TypeOK
    <3> QED  BY <2>1, <3>2, <3>3
  <2>3. CASE c # b
    <3>1. bpc'[b] = bpc[b] /\ targets'[b] = targets[b]
      BY <1>5, <1>a, <2>3 DEF FanoutBegin, TypeOK
    <3> QED  BY <1>b, <2>1, <3>1 DEF Open
  <2> QED  BY <2>2, <2>3
<1>6. ASSUME NEW c \in Broadcasts, NEW n \in Nodes, FanoutOffer(c, n)
      PROVE  \/ Carries(s, b)'
             \/ b \in dropped'[s]
             \/ bpc'[b] = "fanout" /\ nodeOf'[s] \in targets'[b]
  <2>1. UNCHANGED <<edges, pc, nodeOf, since, overlapped, bpc, stamp>>
    BY <1>3, <1>6 DEF BroadcastNext, FanoutOffer
  <2>2. dropped[s] \subseteq dropped'[s]
    <3>1. dropped' = dropped \/ dropped' = [dropped EXCEPT ![edges[n]] = @ \cup {c}]
      BY <1>6 DEF FanoutOffer
    <3>2. dropped \in [Streams -> SUBSET Broadcasts]
      BY DEF TypeOK
    <3> QED  BY <3>1, <3>2
  <2>3. CASE c = b /\ n = nodeOf[s]
    <3>1. edges[n] = s
      BY <2>1, <2>3 DEF Registry, SoleRegistered, Open, Live
    <3>2. Carries(edges[n], b)' \/ b \in dropped'[edges[n]]
      BY <1>6, <1>a, <2>3, <3>1, OfferLands
    <3> QED  BY <2>1, <3>1, <3>2
  <2>4. CASE ~(c = b /\ n = nodeOf[s])
    <3>1. /\ bpc[b] \in {"fanout", "done"} /\ Open(s) /\ s \notin overlapped
          /\ since[s] < stamp[b]
      BY <2>1 DEF Open
    <3>2. \/ Carries(s, b)
          \/ b \in dropped[s]
          \/ bpc[b] = "fanout" /\ nodeOf[s] \in targets[b]
      BY <3>1 DEF FanoutProgress
    <3>3. nodeOf[s] \in targets[b] => nodeOf[s] \in targets'[b]
      BY <1>6, <1>a, <2>4 DEF FanoutOffer, TypeOK
    <3> QED  BY <1>a, <2>1, <2>2, <3>2, <3>3, CarriesStable
  <2> QED  BY <2>3, <2>4
<1>7. ASSUME NEW c \in Broadcasts, FanoutEnd(c)
      PROVE  \/ Carries(s, b)'
             \/ b \in dropped'[s]
             \/ bpc'[b] = "fanout" /\ nodeOf'[s] \in targets'[b]
  <2>1. UNCHANGED <<pc, nodeOf, since, overlapped, dropped, stamp, targets>>
    BY <1>3, <1>7 DEF BroadcastNext, FanoutEnd, history
  <2>2. CASE c = b
    <3>1. bpc[b] = "fanout" /\ targets[b] = {} /\ Open(s)
      BY <1>7, <2>1, <2>2 DEF FanoutEnd, Open
    <3> QED  BY <1>a, <2>1, <3>1, CarriesStable DEF FanoutProgress
  <2>3. CASE c # b
    <3>1. bpc'[b] = bpc[b]
      BY <1>7, <1>a, <2>3 DEF FanoutEnd, TypeOK
    <3> QED  BY <1>b, <2>1, <3>1 DEF Open
  <2> QED  BY <2>2, <2>3
<1>8. CASE UNCHANGED vars
  BY <1>b, <1>8 DEF vars, server, streams, bcasts, history, Open
<1> QED
  BY <1>2, <1>4, <1>5, <1>6, <1>7, <1>8 DEF Next, BroadcastNext
-----------------------------------------------------------------------------
(* What a response says.                                                   *)

LEMMA InitCarried == Init => CarriedBounded /\ EnvelopeNotOlder
BY DEF Init, CarriedBounded, EnvelopeNotOlder

LEMMA VersionGrows == TypeOK /\ [Next]_vars => version' \in Nat /\ version =< version'
<1> SUFFICES ASSUME TypeOK, [Next]_vars  PROVE version' \in Nat /\ version =< version'
  OBVIOUS
<1>1. version \in Nat
  BY DEF TypeOK
<1>2. version' = version \/ version' = version + 1
  BY DEF Next, StreamNext, BroadcastNext, WatchRegister, WatchReceive, WatchSend,
         WatchSendError, WatchContextDone, WatchUnregister, Disconnect, UpdateStamp,
         NextVersion, FanoutBegin, FanoutOffer, FanoutEnd, vars, server
<1> QED  BY <1>1, <1>2

LEMMA NextSince == TypeOK /\ SinceBounded /\ [Next]_vars => SinceBounded'
<1> SUFFICES ASSUME TypeOK, SinceBounded, [Next]_vars, NEW s \in Streams
             PROVE  since'[s] =< version'
  BY DEF SinceBounded
<1>1. /\ version \in Nat /\ version' \in Nat /\ version =< version'
      /\ since[s] \in Nat /\ since[s] =< version
  BY VersionGrows DEF TypeOK, SinceBounded
<1>2. since'[s] = since[s] \/ since'[s] = version
  BY DEF Next, StreamNext, BroadcastNext, WatchRegister, WatchReceive, WatchSend,
         WatchSendError, WatchContextDone, WatchUnregister, Disconnect, UpdateStamp,
         FanoutBegin, FanoutOffer, FanoutEnd, vars, history, TypeOK
<1> QED  BY <1>1, <1>2

(* A message keeps the version of its broadcast, Server.version only grows,
   and it is read again after the receive. *)
LEMMA NextCarried ==
  TypeOK /\ StampBounded /\ CarriedBounded /\ EnvelopeNotOlder /\ [Next]_vars
    => CarriedBounded' /\ EnvelopeNotOlder'
<1> SUFFICES ASSUME TypeOK, StampBounded, CarriedBounded, EnvelopeNotOlder, [Next]_vars,
                    NEW s \in Streams
             PROVE  /\ \A i \in DOMAIN ch'[s] : ch'[s][i].version =< version'
                    /\ pc'[s] = "sending" => hand'[s][1].version =< seen'[s]
                    /\ \A i \in DOMAIN delivered'[s] :
                         delivered'[s][i].update.version =< delivered'[s][i].version
  BY DEF CarriedBounded, EnvelopeNotOlder
<1>a. version' \in Nat /\ version \in Nat /\ version =< version'
  BY VersionGrows DEF TypeOK
<1>b. /\ ch[s] \in Seq(Messages)
      /\ \A i \in DOMAIN ch[s] : ch[s][i].version \in Nat /\ ch[s][i].version =< version'
      /\ pc[s] = "sending" => hand[s][1].version =< seen[s]
      /\ \A i \in DOMAIN delivered[s] :
           delivered[s][i].update.version =< delivered[s][i].version
  <2>1. ch[s] \in Seq(Messages)
    BY DEF TypeOK
  <2>2. ASSUME NEW i \in DOMAIN ch[s]
        PROVE  ch[s][i].version \in Nat /\ ch[s][i].version =< version'
    <3>1. ch[s][i] \in Messages /\ ch[s][i].version =< version
      BY <2>1 DEF CarriedBounded
    <3> QED  BY <3>1, <1>a DEF Messages
  <2> QED  BY <2>1, <2>2 DEF CarriedBounded, EnvelopeNotOlder
<1>1. CASE WatchReceive(s)
  <2>1. /\ ch[s] # <<>> /\ ch'[s] = Tail(ch[s]) /\ hand'[s] = <<Head(ch[s])>>
        /\ seen'[s] = version /\ delivered' = delivered
    BY <1>1 DEF WatchReceive, VersionAtReceive, TypeOK
  <2>2. hand'[s][1] = ch[s][1] /\ 1 \in DOMAIN ch[s]
    BY <2>1, <1>b, TailElements
  <2>3. hand'[s][1].version =< seen'[s]
    BY <2>1, <2>2 DEF CarriedBounded
  <2>4. \A i \in DOMAIN ch'[s] : ch'[s][i].version =< version'
    BY <2>1, <1>b, TailElements
  <2> QED  BY <2>1, <2>3, <2>4, <1>b
<1>2. CASE WatchSend(s)
  <2> DEFINE Response == [update : Messages, version : Nat]
  <2>1. PICK v \in seen[s] .. version :
          delivered' = [delivered EXCEPT ![s] =
                          Append(@, [update |-> hand[s][1], version |-> v])]
    BY <1>2 DEF WatchSend
  <2> DEFINE r == [update |-> hand[s][1], version |-> v]
  <2>2. /\ hand[s] \in Seq(Messages) /\ Len(hand[s]) = 1 /\ ch' = ch
        /\ pc[s] = "sending" /\ pc'[s] = "select"
        /\ delivered[s] \in Seq(Response) /\ delivered'[s] = Append(delivered[s], r)
    BY <1>2, <2>1 DEF WatchSend, TypeOK
  <2>3. hand[s][1] \in Messages
    BY <2>2
  <2>4. v \in Nat /\ seen[s] \in Nat /\ seen[s] =< v
    BY DEF TypeOK
  <2>5. r \in Response
    BY <2>3, <2>4
  <2>6. r.update.version =< r.version
    BY <2>2, <2>3, <2>4, <1>b DEF Messages
  <2>7. \A i \in DOMAIN delivered'[s] :
          \/ delivered'[s][i] = r
          \/ i \in DOMAIN delivered[s] /\ delivered'[s][i] = delivered[s][i]
    <3> HIDE DEF r, Response
    <3> QED  BY <2>2, <2>5, AppendElements
  <2> HIDE DEF r
  <2> QED  BY <2>2, <2>6, <2>7, <1>b
<1>3. ASSUME NEW b \in Broadcasts, NEW n \in Nodes, FanoutOffer(b, n)
      PROVE  /\ \A i \in DOMAIN ch'[s] : ch'[s][i].version =< version'
             /\ pc'[s] = "sending" => hand'[s][1].version =< seen'[s]
             /\ \A i \in DOMAIN delivered'[s] :
                  delivered'[s][i].update.version =< delivered'[s][i].version
  <2>1. UNCHANGED <<pc, hand, seen, delivered>>
    BY <1>3 DEF FanoutOffer
  <2>2. /\ Message(b) \in Messages
        /\ stamp[b] \in Nat /\ Message(b).version = stamp[b] /\ stamp[b] =< version
    BY MessageTyped DEF Message, StampBounded, TypeOK
  <2>3. Message(b).version =< version'
    BY <2>2, <1>a
  <2>4. \A i \in DOMAIN ch'[s] :
          \/ ch'[s][i] = Message(b)
          \/ i \in DOMAIN ch[s] /\ ch'[s][i] = ch[s][i]
    BY <1>3, <2>2, <1>b, OfferAppends, AppendElements
  <2> QED  BY <2>1, <2>3, <2>4, <1>b
<1>4. CASE /\ ch'[s] = ch[s] /\ hand'[s] = hand[s] /\ seen'[s] = seen[s]
           /\ delivered'[s] = delivered[s] /\ (pc'[s] = "sending" => pc[s] = "sending")
  BY <1>4, <1>b
<1>5. ASSUME NEW t \in Streams, StreamNext(t), ~WatchReceive(s), ~WatchSend(s)
      PROVE  /\ ch'[s] = ch[s] /\ hand'[s] = hand[s] /\ seen'[s] = seen[s]
             /\ delivered'[s] = delivered[s] /\ (pc'[s] = "sending" => pc[s] = "sending")
  BY <1>5 DEF StreamNext, WatchRegister, WatchReceive, WatchSend, WatchSendError,
              WatchContextDone, WatchUnregister, Disconnect, TypeOK
<1>6. ASSUME NEW c \in Broadcasts, UpdateStamp(c) \/ FanoutBegin(c) \/ FanoutEnd(c)
      PROVE  UNCHANGED <<ch, hand, seen, delivered, pc>>
  BY <1>6 DEF UpdateStamp, FanoutBegin, FanoutEnd, streams
<1>7. CASE UNCHANGED vars
  BY <1>4, <1>7 DEF vars, streams
<1> QED
  BY <1>1, <1>2, <1>3, <1>4, <1>5, <1>6, <1>7 DEF Next, BroadcastNext
-----------------------------------------------------------------------------
LEMMA InitIInv == Init => IInv
<1>1. Init => SinceBounded
  BY DEF Init, SinceBounded
<1> QED
  BY <1>1, InitTypeOK, InitRegistry, InitVersions, InitFanoutProgress, InitCarried DEF IInv

LEMMA NextIInv == IInv /\ [Next]_vars => IInv'
BY NextTypeOK, NextRegistry, NextVersions, NextSince, NextFanoutProgress, NextCarried DEF IInv

(* Every reachable state of the server satisfies the inductive invariant:
   the registry, the versions and the progress of every fan-out agree. *)
THEOREM Inductive == Spec => []IInv
BY InitIInv, NextIInv, PTL DEF Spec

(* The registry holds no channel without a reader.                         *)
THEOREM RegistryAlive == Spec => []NoDeadRegistration
<1>1. IInv => NoDeadRegistration
  BY DEF IInv, Registry
<1> QED  BY <1>1, Inductive, PTL

(* A finished BroadcastUpdate reached, or found full, every open stream that
   registered in time and never had a rival. *)
THEOREM BroadcastReaches == Spec => []SoleStreamsReached
<1>1. IInv => SoleStreamsReached
  BY DEF IInv, FanoutProgress, SoleStreamsReached
<1> QED  BY <1>1, Inductive, PTL

(* Update versions are dense and unique.                                   *)
THEOREM VersionsCount == Spec => []VersionsDense
<1>1. IInv => VersionsDense
  BY DEF IInv
<1> QED  BY <1>1, Inductive, PTL

(* The unlocked read of Server.version never makes a response older than the
   update it carries. *)
THEOREM EnvelopeCorrect == Spec => []EnvelopeNotOlder
<1>1. IInv => EnvelopeNotOlder
  BY DEF IInv
<1> QED  BY <1>1, Inductive, PTL
-----------------------------------------------------------------------------
(* The versions of the responses of a stream, one after the other.         *)

(* What was sent is not newer than the server, nor than what the response in
   hand will say. *)
EnvelopesBounded ==
  \A s \in Streams : \A i \in DOMAIN delivered[s] :
    /\ delivered[s][i].version =< version
    /\ pc[s] = "sending" => delivered[s][i].version =< seen[s]

(* A send adds a version between the one seen at the receive and the present. *)
LEMMA SendAscends ==
  ASSUME TypeOK, EnvelopesBounded, EnvelopesAscend, NEW s \in Streams, WatchSend(s)
  PROVE  /\ \A i \in DOMAIN delivered'[s] : delivered'[s][i].version =< version'
         /\ \A i, j \in DOMAIN delivered'[s] :
              i < j => delivered'[s][i].version =< delivered'[s][j].version
<1> DEFINE Response == [update : Messages, version : Nat]
           q == delivered[s]
<1>1. PICK v \in seen[s] .. version :
        delivered' = [delivered EXCEPT ![s] =
                        Append(@, [update |-> hand[s][1], version |-> v])]
  BY DEF WatchSend
<1>2. /\ pc[s] = "sending" /\ version' = version /\ version \in Nat /\ seen[s] \in Nat
      /\ q \in Seq(Response) /\ hand[s] \in Seq(Messages) /\ Len(hand[s]) = 1
  BY DEF WatchSend, TypeOK, server
<1>3. PICK r : r = [update |-> hand[s][1], version |-> v]
  OBVIOUS
<1>4. r \in Response /\ r.version = v /\ v \in Nat /\ seen[s] =< v /\ v =< version
  BY <1>2, <1>3
<1>5. delivered'[s] = Append(q, r)
  BY <1>1, <1>3 DEF TypeOK
<1>6. \A i \in DOMAIN q : q[i].version \in Nat /\ q[i].version =< seen[s]
  <2>1. \A i \in DOMAIN q : q[i] \in Response
    BY <1>2, ElementsTyped, Zenon
  <2>2. \A i \in DOMAIN q : q[i].version \in Nat
    BY <2>1
  <2>3. \A i \in DOMAIN q : q[i].version =< seen[s]
    BY <1>2 DEF EnvelopesBounded
  <2>4. QED
    BY <2>2, <2>3
<1>7. \A i, j \in DOMAIN q : i < j => q[i].version =< q[j].version
  BY DEF EnvelopesAscend
<1>8. DOMAIN q = 1 .. Len(q) /\ Len(q) \in Nat
  BY <1>2, LenProperties
<1> HIDE DEF q, Response
<1>9. /\ DOMAIN delivered'[s] = 1 .. Len(q) + 1
      /\ delivered'[s][Len(q) + 1] = r
      /\ \A i \in 1 .. Len(q) : delivered'[s][i] = q[i]
  BY <1>2, <1>4, <1>5, <1>8, AppendElements
<1>10. \A i \in 1 .. Len(q) + 1 : i \in 1 .. Len(q) \/ i = Len(q) + 1
  BY <1>8
<1>11. \A i \in DOMAIN delivered'[s] : delivered'[s][i].version =< version'
  BY <1>2, <1>4, <1>6, <1>8, <1>9, <1>10
<1>12. ASSUME NEW i \in 1 .. Len(q) + 1, NEW j \in 1 .. Len(q) + 1, i < j
       PROVE  delivered'[s][i].version =< delivered'[s][j].version
  <2>1. i \in 1 .. Len(q)
    BY <1>8, <1>12
  <2>2. CASE j = Len(q) + 1
    <3>1. delivered'[s][i] = q[i] /\ delivered'[s][j] = r
      BY <1>9, <2>1, <2>2
    <3>2. q[i].version \in Nat /\ q[i].version =< seen[s] /\ seen[s] =< r.version
      BY <1>4, <1>6, <1>8, <2>1
    <3>3. QED
      BY <1>2, <1>4, <3>1, <3>2
  <2>3. CASE j \in 1 .. Len(q)
    BY <1>7, <1>8, <1>9, <1>12, <2>1, <2>3
  <2>4. QED
    BY <1>10, <2>2, <2>3
<1>13. QED
  BY <1>9, <1>11, <1>12

LEMMA NextEnvelopes ==
  ASSUME TypeOK, EnvelopesBounded, EnvelopesAscend, [Next]_vars
  PROVE  EnvelopesBounded' /\ EnvelopesAscend'
<1>1. SUFFICES ASSUME NEW s \in Streams
               PROVE  /\ \A i \in DOMAIN delivered'[s] :
                           /\ delivered'[s][i].version =< version'
                           /\ pc'[s] = "sending" => delivered'[s][i].version =< seen'[s]
                      /\ \A i, j \in DOMAIN delivered'[s] :
                           i < j => delivered'[s][i].version =< delivered'[s][j].version
  BY DEF EnvelopesBounded, EnvelopesAscend
<1>2. version' \in Nat /\ version \in Nat /\ version =< version'
  BY VersionGrows DEF TypeOK
<1>3. /\ \A i \in DOMAIN delivered[s] :
           /\ delivered[s][i].version \in Nat /\ delivered[s][i].version =< version
           /\ pc[s] = "sending" => delivered[s][i].version =< seen[s]
      /\ \A i, j \in DOMAIN delivered[s] :
           i < j => delivered[s][i].version =< delivered[s][j].version
  <2>1. delivered[s] \in Seq([update : Messages, version : Nat])
    BY DEF TypeOK
  <2>2. \A i \in DOMAIN delivered[s] : delivered[s][i] \in [update : Messages, version : Nat]
    BY <2>1, ElementsTyped, Zenon
  <2>3. \A i \in DOMAIN delivered[s] : delivered[s][i].version \in Nat
    BY <2>2
  <2>4. QED
    BY <2>3 DEF EnvelopesBounded, EnvelopesAscend
<1>4. CASE WatchReceive(s)
  <2>1. seen'[s] = version /\ delivered' = delivered /\ version' = version
    BY <1>4 DEF WatchReceive, VersionAtReceive, TypeOK, server
  <2>2. QED
    BY <1>2, <1>3, <2>1
<1>5. CASE WatchSend(s)
  <2>1. pc'[s] = "select"
    BY <1>5 DEF WatchSend, TypeOK
  <2>2. QED
    BY <1>5, <2>1, SendAscends
<1>6. CASE /\ seen'[s] = seen[s] /\ delivered'[s] = delivered[s]
           /\ pc'[s] = "sending" => pc[s] = "sending"
  <2>1. \A i \in DOMAIN delivered[s] : delivered[s][i].version =< version'
    BY <1>2, <1>3
  <2>2. QED
    BY <1>3, <1>6, <2>1
<1>7. ASSUME NEW t \in Streams, StreamNext(t), ~WatchReceive(s), ~WatchSend(s)
      PROVE  /\ seen'[s] = seen[s] /\ delivered'[s] = delivered[s]
             /\ pc'[s] = "sending" => pc[s] = "sending"
  BY <1>7 DEF StreamNext, WatchRegister, WatchReceive, WatchSend, WatchSendError,
              WatchContextDone, WatchUnregister, Disconnect, TypeOK
<1>8. ASSUME NEW b \in Broadcasts, BroadcastNext(b)
      PROVE  UNCHANGED <<seen, delivered, pc>>
  BY <1>8 DEF BroadcastNext, UpdateStamp, FanoutBegin, FanoutOffer, FanoutEnd, streams
<1>9. CASE UNCHANGED vars
  BY <1>6, <1>9 DEF vars, streams
<1>10. QED
  BY <1>4, <1>5, <1>6, <1>7, <1>8, <1>9 DEF Next

(* The unlocked read of Server.version never goes back along a stream, for any
   number of broadcasts that run meanwhile. *)
THEOREM EnvelopesNeverGoBack == Spec => []EnvelopesAscend
<1>1. Init => EnvelopesBounded /\ EnvelopesAscend
  BY DEF Init, EnvelopesBounded, EnvelopesAscend
<1>2. QED
  BY <1>1, NextEnvelopes, TypeCorrect, PTL DEF Spec
=============================================================================
