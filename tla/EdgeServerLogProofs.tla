------------------------ MODULE EdgeServerLogProofs ------------------------
(***************************************************************************)
(* A node gets a broadcast at most once, for any number of nodes, streams  *)
(* and broadcasts and any channel capacity.                                *)
(*                                                                         *)
(* AtMostOncePerNode speaks of StreamLog, what went through the channel of *)
(* a stream in order.  A receive and a send move a message along the log   *)
(* and leave it as it is; only FanoutOffer adds to it (LogStep).  LogInv   *)
(* says why what it adds is new to the node: a broadcast that is in a log  *)
(* of the node has no visit to the node left.                              *)
(***************************************************************************)
EXTENDS EdgeServerProofs

(* A logged broadcast runs or has run, and has visited the stream's node.  *)
LoggedVisited ==
  \A s \in Streams : \A i \in DOMAIN StreamLog(s) :
    LET b == StreamLog(s)[i].id IN
    /\ b \in Broadcasts
    /\ bpc[b] \in {"fanout", "done"}
    /\ nodeOf[s] \notin targets[b]

(* Nothing goes through a channel before its stream registers.             *)
IdleUnlogged == \A s \in Streams : pc[s] = "idle" => StreamLog(s) = <<>>

LogInv == LoggedVisited /\ IdleUnlogged /\ AtMostOncePerNode
-----------------------------------------------------------------------------
(* The part of the log that the edge has.                                  *)
Sent(s) == [i \in DOMAIN delivered[s] |-> delivered[s][i].update]

LEMMA UpdatesOf ==
  ASSUME NEW q \in Seq([update : Messages, version : Nat])
  PROVE  LET u == [i \in DOMAIN q |-> q[i].update] IN
         /\ u \in Seq(Messages)
         /\ Len(u) = Len(q)
         /\ \A i \in 1 .. Len(q) : u[i] = q[i].update
<1> DEFINE u == [i \in DOMAIN q |-> q[i].update]
<1>1. Len(q) \in Nat /\ DOMAIN q = 1 .. Len(q)
  BY LenProperties
<1>2. \A i \in 1 .. Len(q) : q[i] \in [update : Messages, version : Nat]
  BY ElementOfSeq
<1>3. u \in [1 .. Len(q) -> Messages]
  BY <1>1, <1>2
<1>4. u \in Seq(Messages)
  BY <1>1, <1>3, SeqDef
<1>5. QED
  BY <1>1, <1>3, <1>4, LenProperties

LEMMA SentTyped ==
  ASSUME TypeOK, NEW s \in Streams
  PROVE  Sent(s) \in Seq(Messages)
<1>1. delivered[s] \in Seq([update : Messages, version : Nat])
  BY DEF TypeOK
<1>2. QED
  BY <1>1, UpdatesOf DEF Sent

LEMMA MessagesAssociate ==
  \A p, q, r \in Seq(Messages) : (p \o q) \o r = p \o (q \o r)
BY ConcatAssociative

(* The log is in the three places, in this order. *)
LEMMA LogTyped ==
  ASSUME TypeOK, NEW s \in Streams
  PROVE  /\ StreamLog(s) = (Sent(s) \o hand[s]) \o ch[s]
         /\ StreamLog(s) \in Seq(Messages)
<1>1. Sent(s) \in Seq(Messages) /\ hand[s] \in Seq(Messages) /\ ch[s] \in Seq(Messages)
  BY SentTyped DEF TypeOK
<1>2. Sent(s) \o hand[s] \in Seq(Messages)
  BY <1>1, ConcatProperties
<1>3. (Sent(s) \o hand[s]) \o ch[s] \in Seq(Messages)
  BY <1>1, <1>2, ConcatProperties
<1>4. QED
  BY <1>3 DEF StreamLog, Sent

LEMMA LogSame ==
  ASSUME NEW s \in Streams, UNCHANGED <<delivered, hand, ch>>
  PROVE  StreamLog(s)' = StreamLog(s)
BY DEF StreamLog

(* The message received stays where it is in the log. *)
LEMMA LogReceive ==
  ASSUME TypeOK, NEW r \in Streams, WatchReceive(r), NEW s \in Streams
  PROVE  StreamLog(s)' = StreamLog(s)
<1>1. CASE s # r
  BY <1>1 DEF WatchReceive, StreamLog, TypeOK
<1>2. CASE s = r
  <2> DEFINE m == Head(ch[s])
  <2>1. /\ hand[s] = <<>> /\ ch[s] \in Seq(Messages) /\ ch[s] # <<>>
        /\ hand'[s] = <<m>> /\ ch'[s] = Tail(ch[s]) /\ UNCHANGED delivered
    BY <1>2 DEF WatchReceive, TypeOK
  <2>2. m \in Messages /\ Tail(ch[s]) \in Seq(Messages) /\ <<m>> \in Seq(Messages)
    BY <2>1, HeadTailProperties
  <2>3. <<m>> \o Tail(ch[s]) = ch[s]
    <3>1. /\ <<m>> \o Tail(ch[s]) \in Seq(Messages)
          /\ Len(<<m>> \o Tail(ch[s])) = 1 + Len(Tail(ch[s]))
          /\ \A i \in 1 .. 1 + Len(Tail(ch[s])) :
               (<<m>> \o Tail(ch[s]))[i] = IF i =< 1 THEN m ELSE Tail(ch[s])[i - 1]
      BY <2>2, ConcatProperties
    <3>2. /\ Len(ch[s]) \in Nat \ {0} /\ Len(Tail(ch[s])) = Len(ch[s]) - 1
          /\ m = ch[s][1]
          /\ \A i \in 1 .. Len(Tail(ch[s])) : Tail(ch[s])[i] = ch[s][i + 1]
      BY <2>1, HeadTailProperties
    <3>3. ASSUME NEW i \in 1 .. Len(ch[s])
          PROVE  (<<m>> \o Tail(ch[s]))[i] = ch[s][i]
      <4>1. CASE i = 1
        BY <3>1, <3>2, <4>1
      <4>2. CASE i # 1
        <5>1. i \in 1 .. 1 + Len(Tail(ch[s])) /\ i - 1 \in 1 .. Len(Tail(ch[s]))
          BY <3>2, <4>2
        <5>2. Tail(ch[s])[i - 1] = ch[s][i]
          BY <3>2, <5>1
        <5>3. QED
          BY <3>1, <4>2, <5>1, <5>2
      <4>3. QED
        BY <4>1, <4>2
    <3>4. Len(<<m>> \o Tail(ch[s])) = Len(ch[s])
      BY <3>1, <3>2
    <3>5. QED
      BY <2>1, <3>1, <3>3, <3>4, SeqEqual
  <2>4. Sent(s) \in Seq(Messages) /\ Sent(s)' = Sent(s)
    BY <2>1, SentTyped DEF Sent
  <2>5. StreamLog(s)' = (Sent(s) \o <<m>>) \o Tail(ch[s])
    BY <2>1 DEF StreamLog, Sent
  <2>6. StreamLog(s) = Sent(s) \o ch[s]
    BY <2>1, <2>4, LogTyped, ConcatEmptySeq
  <2>7. (Sent(s) \o <<m>>) \o Tail(ch[s]) = Sent(s) \o (<<m>> \o Tail(ch[s]))
    <3> HIDE DEF m
    <3>1. QED
      BY <2>2, <2>4, MessagesAssociate, Zenon
  <2>8. QED
    BY <2>3, <2>5, <2>6, <2>7, Zenon
<1>3. QED
  BY <1>1, <1>2

(* So does the message sent. *)
LEMMA LogSend ==
  ASSUME TypeOK, TypeOK', NEW r \in Streams, WatchSend(r), NEW s \in Streams
  PROVE  StreamLog(s)' = StreamLog(s)
<1>1. CASE s # r
  <2>1. ch' = ch /\ hand'[s] = hand[s] /\ delivered'[s] = delivered[s]
    BY <1>1 DEF WatchSend, TypeOK
  <2>2. QED
    BY <2>1 DEF StreamLog
<1>2. CASE s = r
  <2> DEFINE m == hand[s][1]
  <2>1. /\ hand[s] \in Seq(Messages) /\ Len(hand[s]) = 1
        /\ hand'[s] = <<>> /\ UNCHANGED ch
    BY <1>2 DEF WatchSend, TypeOK
  <2>2. m \in Messages /\ hand[s] = <<m>>
    BY <2>1
  <2>3. PICK v \in seen[s] .. version :
          delivered'[s] = Append(delivered[s], [update |-> m, version |-> v])
    BY <1>2 DEF WatchSend, TypeOK
  <2>4. v \in Nat
    <3>1. seen[s] \in Nat /\ version \in Nat
      BY DEF TypeOK
    <3>2. QED
      BY <3>1
  <2>5. /\ delivered[s] \in Seq([update : Messages, version : Nat])
        /\ [update |-> m, version |-> v] \in [update : Messages, version : Nat]
    BY <2>2, <2>4 DEF TypeOK
  <2>6. /\ Len(delivered'[s]) = Len(delivered[s]) + 1
        /\ \A i \in 1 .. Len(delivered[s]) : delivered'[s][i] = delivered[s][i]
        /\ delivered'[s][Len(delivered[s]) + 1] = [update |-> m, version |-> v]
    BY <2>3, <2>5, AppendProperties
  <2>7. /\ Sent(s) \in Seq(Messages) /\ Len(Sent(s)) = Len(delivered[s])
        /\ \A i \in 1 .. Len(delivered[s]) : Sent(s)[i] = delivered[s][i].update
    BY <2>5, UpdatesOf DEF Sent
  <2>8. /\ Sent(s)' \in Seq(Messages) /\ Len(Sent(s)') = Len(delivered'[s])
        /\ \A i \in 1 .. Len(delivered'[s]) : Sent(s)'[i] = delivered'[s][i].update
    <3>1. delivered'[s] \in Seq([update : Messages, version : Nat])
      BY DEF TypeOK
    <3>2. QED
      BY <3>1, UpdatesOf DEF Sent
  <2>9. /\ Append(Sent(s), m) \in Seq(Messages)
        /\ Len(Append(Sent(s), m)) = Len(Sent(s)) + 1
        /\ \A i \in 1 .. Len(Sent(s)) : Append(Sent(s), m)[i] = Sent(s)[i]
        /\ Append(Sent(s), m)[Len(Sent(s)) + 1] = m
    BY <2>2, <2>7, AppendProperties
  <2>10. \A i \in 1 .. Len(Sent(s)') : Sent(s)'[i] = Append(Sent(s), m)[i]
    <3>1. Len(delivered[s]) \in Nat
      BY <2>5, LenProperties
    <3>2. Len(Sent(s)') = Len(delivered[s]) + 1
      BY <2>6, <2>8
    <3>3. ASSUME NEW i \in 1 .. Len(delivered[s])
          PROVE  Sent(s)'[i] = Append(Sent(s), m)[i]
      <4>1. i \in 1 .. Len(delivered'[s])
        BY <2>6, <3>1
      <4>2. Sent(s)'[i] = delivered[s][i].update
        BY <2>6, <2>8, <4>1
      <4>3. QED
        BY <2>7, <2>9, <4>2
    <3>4. Sent(s)'[Len(delivered[s]) + 1] = m
      BY <2>6, <2>8, <3>1
    <3>5. QED
      BY <2>7, <2>9, <3>1, <3>2, <3>3, <3>4
  <2>11. Sent(s)' = Append(Sent(s), m)
    <3> HIDE DEF m
    <3>1. Len(Sent(s)') = Len(Append(Sent(s), m))
      BY <2>6, <2>7, <2>8, <2>9
    <3>2. Sent(s)' \in Seq(Messages) /\ Append(Sent(s), m) \in Seq(Messages)
      BY <2>8, <2>9
    <3>3. QED
      BY <2>10, <3>1, <3>2, SeqEqual, Zenon
  <2>12. Sent(s)' = Sent(s) \o hand[s]
    BY <2>2, <2>7, <2>11, AppendIsConcat
  <2>13. StreamLog(s)' = (Sent(s)' \o hand[s]') \o ch[s]'
    BY DEF StreamLog, Sent
  <2>14. StreamLog(s)' = Sent(s)' \o ch[s]
    BY <2>1, <2>8, <2>13, ConcatEmptySeq
  <2>15. QED
    BY <2>12, <2>14, LogTyped
<1>3. QED
  BY <1>1, <1>2

(* An offer adds its message to the log of the registered stream, if it adds
   it anywhere. *)
LEMMA LogOffer ==
  ASSUME TypeOK, NEW b \in Broadcasts, NEW n \in Nodes, FanoutOffer(b, n),
         NEW s \in Streams
  PROVE  \/ StreamLog(s)' = StreamLog(s)
         \/ s = edges[n] /\ StreamLog(s)' = Append(StreamLog(s), Message(b))
<1>1. UNCHANGED <<delivered, hand>>
  BY DEF FanoutOffer
<1>2. CASE ch'[s] = ch[s]
  BY <1>1, <1>2 DEF StreamLog
<1>3. CASE s = edges[n] /\ ch'[s] = Append(ch[s], Message(b))
  <2> DEFINE p == Sent(s) \o hand[s]
  <2>1. /\ Sent(s) \in Seq(Messages) /\ hand[s] \in Seq(Messages) /\ ch[s] \in Seq(Messages)
        /\ Message(b) \in Messages
    BY SentTyped, MessageTyped DEF TypeOK
  <2>2. p \in Seq(Messages) /\ <<Message(b)>> \in Seq(Messages)
    BY <2>1, ConcatProperties
  <2>3. StreamLog(s)' = p \o Append(ch[s], Message(b))
    BY <1>1, <1>3 DEF StreamLog, Sent
  <2>4. Append(ch[s], Message(b)) = ch[s] \o <<Message(b)>>
    BY <2>1, AppendIsConcat
  <2>5. (p \o ch[s]) \o <<Message(b)>> = p \o (ch[s] \o <<Message(b)>>)
    <3> DEFINE q == ch[s]
               r == <<Message(b)>>
    <3>1. p \in Seq(Messages) /\ q \in Seq(Messages) /\ r \in Seq(Messages)
      BY <2>1, <2>2
    <3> HIDE DEF p, q, r
    <3>2. (p \o q) \o r = p \o (q \o r)
      BY <3>1, MessagesAssociate
    <3>3. QED
      BY <3>2 DEF q, r
  <2>6. (p \o ch[s]) \o <<Message(b)>> = Append(StreamLog(s), Message(b))
    BY <2>1, LogTyped, AppendIsConcat
  <2>7. QED
    BY <1>3, <2>3, <2>4, <2>5, <2>6
<1>4. QED
  BY <1>2, <1>3 DEF FanoutOffer, TypeOK

(* Nothing else touches a log. *)
LEMMA LogStep ==
  ASSUME TypeOK, TypeOK', [Next]_vars, NEW s \in Streams
  PROVE  \/ StreamLog(s)' = StreamLog(s)
         \/ \E b \in Broadcasts, n \in Nodes :
              /\ FanoutOffer(b, n)
              /\ s = edges[n]
              /\ StreamLog(s)' = Append(StreamLog(s), Message(b))
<1>1. CASE \E r \in Streams : WatchReceive(r)
  BY <1>1, LogReceive
<1>2. CASE \E r \in Streams : WatchSend(r)
  BY <1>2, LogSend
<1>3. CASE \E b \in Broadcasts, n \in Nodes : FanoutOffer(b, n)
  BY <1>3, LogOffer
<1>4. CASE UNCHANGED <<delivered, hand, ch>>
  BY <1>4, LogSame
<1>5. ASSUME NEW r \in Streams, StreamNext(r)
      PROVE  WatchReceive(r) \/ WatchSend(r) \/ UNCHANGED <<delivered, hand, ch>>
  BY <1>5
     DEF StreamNext, WatchRegister, WatchSendError, WatchContextDone, WatchUnregister,
         Disconnect
<1>6. ASSUME NEW b \in Broadcasts, BroadcastNext(b)
      PROVE  \/ \E n \in Nodes : FanoutOffer(b, n)
             \/ UNCHANGED <<delivered, hand, ch>>
  BY <1>6 DEF BroadcastNext, UpdateStamp, FanoutBegin, FanoutEnd, streams
<1>7. CASE UNCHANGED vars
  BY <1>4, <1>7 DEF vars, streams
<1>8. QED
  BY <1>1, <1>2, <1>3, <1>4, <1>5, <1>6, <1>7 DEF Next
-----------------------------------------------------------------------------
(* The invariant.                                                          *)

LEMMA InitLog == Init => LogInv
<1>1. SUFFICES ASSUME Init
               PROVE  LogInv
  OBVIOUS
<1>2. \A s \in Streams : StreamLog(s) = <<>>
  <2>1. \A s \in Streams : Sent(s) = <<>> /\ hand[s] = <<>> /\ ch[s] = <<>>
    BY <1>1 DEF Init, Sent
  <2>2. TypeOK
    BY <1>1, InitTypeOK
  <2>3. <<>> \in Seq(Messages) /\ <<>> \o <<>> = <<>>
    BY EmptySeq, ConcatEmptySeq
  <2>4. QED
    BY <2>1, <2>2, <2>3, LogTyped
<1>3. QED
  BY <1>2 DEF LogInv, LoggedVisited, IdleUnlogged, AtMostOncePerNode

(* A step that leaves the logs alone forgets no visit. *)
LEMMA VisitsKept ==
  ASSUME TypeOK, LoggedVisited, [Next]_vars,
         NEW s \in Streams, NEW b \in Broadcasts,
         bpc[b] \in {"fanout", "done"}, nodeOf[s] \notin targets[b],
         nodeOf'[s] = nodeOf[s]
  PROVE  bpc'[b] \in {"fanout", "done"} /\ nodeOf'[s] \notin targets'[b]
<1>1. CASE \E c \in Broadcasts : BroadcastNext(c)
  BY <1>1
     DEF BroadcastNext, UpdateStamp, FanoutBegin, FanoutOffer, FanoutEnd, TypeOK,
         streams
<1>2. CASE UNCHANGED <<bpc, targets>>
  BY <1>2
<1>3. QED
  BY <1>1, <1>2
     DEF Next, StreamNext, WatchRegister, WatchReceive, WatchSend, WatchSendError,
         WatchContextDone, WatchUnregister, Disconnect, vars, bcasts

(* A stream that registers takes a node it has logged nothing for. *)
LEMMA NodeKept ==
  ASSUME TypeOK, IdleUnlogged, [Next]_vars, NEW s \in Streams
  PROVE  nodeOf'[s] = nodeOf[s] \/ (StreamLog(s) = <<>> /\ StreamLog(s)' = <<>>)
<1>1. CASE \E r \in Streams, n \in Nodes : WatchRegister(r, n)
  <2>1. UNCHANGED <<delivered, hand, ch>>
    BY <1>1 DEF WatchRegister
  <2>2. StreamLog(s)' = StreamLog(s)
    BY <2>1, LogSame
  <2>3. nodeOf'[s] = nodeOf[s] \/ pc[s] = "idle"
    BY <1>1 DEF WatchRegister, TypeOK
  <2>4. QED
    BY <2>2, <2>3 DEF IdleUnlogged
<1>2. CASE UNCHANGED nodeOf
  BY <1>2
<1>3. QED
  BY <1>1, <1>2
     DEF Next, StreamNext, WatchReceive, WatchSend, WatchSendError, WatchContextDone,
         WatchUnregister, Disconnect, BroadcastNext, UpdateStamp, FanoutBegin,
         FanoutOffer, FanoutEnd, vars, streams

LEMMA NextLog ==
  ASSUME TypeOK, TypeOK', Registry, LogInv, [Next]_vars
  PROVE  LogInv'
<1> USE DEF LogInv
<1>1. CASE \A s \in Streams : StreamLog(s)' = StreamLog(s)
  <2>1. LoggedVisited'
    BY <1>1, VisitsKept, NodeKept DEF LoggedVisited
  <2>2. IdleUnlogged'
    <3>1. \A s \in Streams : pc'[s] = "idle" => pc[s] = "idle"
      <4>1. ASSUME NEW r \in Streams, StreamNext(r)
            PROVE  \/ pc' = pc
                   \/ \E p \in {"select", "sending", "closing", "returned"} :
                        pc' = [pc EXCEPT ![r] = p]
        BY <4>1
           DEF StreamNext, WatchRegister, WatchReceive, WatchSend, WatchSendError,
               WatchContextDone, WatchUnregister, Disconnect
      <4>2. ASSUME NEW b \in Broadcasts, BroadcastNext(b)
            PROVE  pc' = pc
        BY <4>2
           DEF BroadcastNext, UpdateStamp, FanoutBegin, FanoutOffer, FanoutEnd, streams
      <4>3. CASE UNCHANGED vars
        BY <4>3 DEF vars, streams
      <4>4. QED
        BY <4>1, <4>2, <4>3 DEF Next, TypeOK
    <3>2. QED
      BY <1>1, <3>1 DEF IdleUnlogged
  <2>3. AtMostOncePerNode'
    BY <1>1, NodeKept DEF AtMostOncePerNode
  <2>4. QED
    BY <2>1, <2>2, <2>3
<1>2. ASSUME NEW b \in Broadcasts, NEW n \in Nodes, NEW r \in Streams,
             FanoutOffer(b, n), r = edges[n],
             StreamLog(r)' = Append(StreamLog(r), Message(b))
      PROVE  LogInv'
  <2>1. nodeOf[r] = n /\ pc[r] # "idle"
    BY <1>2, NamesAssumption DEF Registry, NoDeadRegistration, Live, Open
  <2>2. /\ n \in targets[b] /\ bpc[b] = "fanout"
        /\ n \notin targets'[b] /\ UNCHANGED <<nodeOf, bpc, pc>>
        /\ \A c \in Broadcasts : targets'[c] \subseteq targets[c]
    BY <1>2 DEF FanoutOffer, TypeOK
  <2>3. \A s \in Streams : s # r => StreamLog(s)' = StreamLog(s)
    BY <1>2, LogOffer
  <2>4. /\ StreamLog(r) \in Seq(Messages) /\ Message(b) \in Messages
        /\ Message(b).id = b
    BY <1>2, LogTyped, MessageTyped DEF Message
  <2>5. /\ DOMAIN StreamLog(r)' = 1 .. Len(StreamLog(r)) + 1
        /\ \A i \in DOMAIN StreamLog(r) : StreamLog(r)'[i] = StreamLog(r)[i]
        /\ DOMAIN StreamLog(r)' = DOMAIN StreamLog(r) \cup {Len(StreamLog(r)) + 1}
        /\ StreamLog(r)'[Len(StreamLog(r)) + 1] = Message(b)
        /\ Len(StreamLog(r)) + 1 \notin DOMAIN StreamLog(r)
    BY <1>2, <2>4, AppendElements, LenProperties
  <2>6. \A s \in Streams : nodeOf[s] = n =>
          \A i \in DOMAIN StreamLog(s) : StreamLog(s)[i].id # b
    BY <2>2 DEF LoggedVisited
  <2>7. LoggedVisited'
    <3>1. SUFFICES ASSUME NEW s \in Streams, NEW i \in DOMAIN StreamLog(s)'
                   PROVE  LET c == StreamLog(s)'[i].id IN
                          /\ c \in Broadcasts
                          /\ bpc'[c] \in {"fanout", "done"}
                          /\ nodeOf'[s] \notin targets'[c]
      BY DEF LoggedVisited
    <3>2. CASE s = r /\ i = Len(StreamLog(r)) + 1
      BY <2>1, <2>2, <2>4, <2>5, <3>2
    <3>3. CASE i \in DOMAIN StreamLog(s) /\ StreamLog(s)'[i] = StreamLog(s)[i]
      BY <2>2, <3>3 DEF LoggedVisited
    <3>4. QED
      BY <2>3, <2>5, <3>1, <3>2, <3>3
  <2>8. IdleUnlogged'
    BY <2>1, <2>2, <2>3 DEF IdleUnlogged
  <2>9. AtMostOncePerNode'
    <3>1. SUFFICES ASSUME NEW s \in Streams, NEW t \in Streams, nodeOf'[s] = nodeOf'[t],
                          NEW i \in DOMAIN StreamLog(s)', NEW j \in DOMAIN StreamLog(t)',
                          StreamLog(s)'[i].id = StreamLog(t)'[j].id
                   PROVE  s = t /\ i = j
      BY DEF AtMostOncePerNode
    <3>2. CASE s = r /\ i = Len(StreamLog(r)) + 1
      BY <2>1, <2>2, <2>3, <2>4, <2>5, <2>6, <3>1, <3>2
    <3>3. CASE t = r /\ j = Len(StreamLog(r)) + 1
      BY <2>1, <2>2, <2>3, <2>4, <2>5, <2>6, <3>1, <3>3
    <3>4. CASE /\ i \in DOMAIN StreamLog(s) /\ StreamLog(s)'[i] = StreamLog(s)[i]
               /\ j \in DOMAIN StreamLog(t) /\ StreamLog(t)'[j] = StreamLog(t)[j]
      BY <2>2, <3>1, <3>4 DEF AtMostOncePerNode
    <3>5. QED
      BY <2>3, <2>5, <3>1, <3>2, <3>3, <3>4
  <2>10. QED
    BY <2>7, <2>8, <2>9
<1>3. QED
  BY <1>1, <1>2, LogStep

(* LogInv holds in every state of every behaviour. *)
THEOREM LogInductive == Spec => []LogInv
<1>1. IInv /\ LogInv /\ [Next]_vars => LogInv'
  BY NextIInv, NextLog DEF IInv
<1>2. QED
  BY InitLog, Inductive, <1>1, PTL DEF Spec

(* A node gets a broadcast at most once, over all the streams it opened: a
   reconnection in the middle of a fan-out waits for the lock, and the loop
   visits a key of the map once. *)
THEOREM NodesToldOnce == Spec => []AtMostOncePerNode
<1>1. LogInv => AtMostOncePerNode
  BY DEF LogInv
<1>2. QED
  BY LogInductive, <1>1, PTL
-----------------------------------------------------------------------------
(* A message is logged with the version its broadcast has. *)
LoggedStamped ==
  \A s \in Streams : \A i \in DOMAIN StreamLog(s) :
    StreamLog(s)[i].version = stamp[StreamLog(s)[i].id]

(* The part of a log that the edge has comes first. *)
LEMMA SentFirst ==
  ASSUME TypeOK, NEW s \in Streams
  PROVE  \A i \in DOMAIN delivered[s] :
           i \in DOMAIN StreamLog(s) /\ StreamLog(s)[i] = delivered[s][i].update
<1> DEFINE rest == hand[s] \o ch[s]
<1>1. /\ Sent(s) \in Seq(Messages) /\ hand[s] \in Seq(Messages) /\ ch[s] \in Seq(Messages)
      /\ delivered[s] \in Seq([update : Messages, version : Nat])
  BY SentTyped DEF TypeOK
<1>2. rest \in Seq(Messages)
  BY <1>1, ConcatProperties
<1>3. StreamLog(s) = Sent(s) \o rest
  BY <1>1, LogTyped, MessagesAssociate
<1> HIDE DEF rest
<1>4. /\ Len(delivered[s]) \in Nat /\ DOMAIN delivered[s] = 1 .. Len(delivered[s])
      /\ Len(Sent(s)) = Len(delivered[s])
      /\ \A i \in 1 .. Len(delivered[s]) : Sent(s)[i] = delivered[s][i].update
  BY <1>1, LenProperties, UpdatesOf DEF Sent
<1>5. /\ StreamLog(s) \in Seq(Messages)
      /\ Len(StreamLog(s)) = Len(Sent(s)) + Len(rest)
      /\ \A i \in 1 .. Len(Sent(s)) : StreamLog(s)[i] = Sent(s)[i]
  <2>1. Len(Sent(s)) \in Nat /\ Len(rest) \in Nat
    BY <1>1, <1>2, LenProperties
  <2>2. /\ Sent(s) \o rest \in Seq(Messages)
        /\ Len(Sent(s) \o rest) = Len(Sent(s)) + Len(rest)
        /\ \A i \in 1 .. Len(Sent(s)) + Len(rest) :
             (Sent(s) \o rest)[i] = IF i =< Len(Sent(s)) THEN Sent(s)[i]
                                                       ELSE rest[i - Len(Sent(s))]
    BY <1>1, <1>2, ConcatProperties
  <2>3. \A i \in 1 .. Len(Sent(s)) : i \in 1 .. Len(Sent(s)) + Len(rest) /\ i =< Len(Sent(s))
    BY <2>1
  <2>4. QED
    BY <1>3, <2>2, <2>3
<1>6. Len(rest) \in Nat /\ DOMAIN StreamLog(s) = 1 .. Len(StreamLog(s))
  BY <1>2, <1>5, LenProperties
<1>7. QED
  BY <1>4, <1>5, <1>6

LEMMA NextStamped ==
  ASSUME TypeOK, TypeOK', LogInv, LoggedStamped, [Next]_vars
  PROVE  LoggedStamped'
<1>1. \A b \in Broadcasts : bpc[b] \in {"fanout", "done"} => stamp'[b] = stamp[b]
  BY DEF TypeOK, Next, StreamNext, WatchRegister, WatchReceive, WatchSend, WatchSendError,
         WatchContextDone, WatchUnregister, Disconnect, BroadcastNext, UpdateStamp,
         FanoutBegin, FanoutOffer, FanoutEnd, vars, bcasts
<1>2. \A s \in Streams : \A i \in DOMAIN StreamLog(s) :
        stamp'[StreamLog(s)[i].id] = stamp[StreamLog(s)[i].id]
  BY <1>1 DEF LogInv, LoggedVisited
<1>3. SUFFICES ASSUME NEW s \in Streams, NEW j \in DOMAIN StreamLog(s)'
               PROVE  StreamLog(s)'[j].version = stamp'[StreamLog(s)'[j].id]
  BY DEF LoggedStamped
<1>4. CASE StreamLog(s)' = StreamLog(s)
  BY <1>2, <1>3, <1>4 DEF LoggedStamped
<1>5. ASSUME NEW b \in Broadcasts, NEW n \in Nodes, FanoutOffer(b, n),
             StreamLog(s)' = Append(StreamLog(s), Message(b))
      PROVE  StreamLog(s)'[j].version = stamp'[StreamLog(s)'[j].id]
  <2>1. UNCHANGED stamp /\ Message(b).id = b /\ Message(b).version = stamp[b]
    BY <1>5 DEF FanoutOffer, Message
  <2>2. StreamLog(s) \in Seq(Messages) /\ Message(b) \in Messages
    BY LogTyped, MessageTyped
  <2>3. \/ StreamLog(s)'[j] = Message(b)
        \/ j \in DOMAIN StreamLog(s) /\ StreamLog(s)'[j] = StreamLog(s)[j]
    BY <1>3, <1>5, <2>2, AppendElements
  <2>4. QED
    BY <1>2, <2>1, <2>3 DEF LoggedStamped
<1>6. QED
  BY <1>3, <1>4, <1>5, LogStep

(* What an edge reads in an update is the version its BroadcastUpdate took, to
   the end of the stream. *)
THEOREM StampsCarried == Spec => []LoggedStamped
<1>1. Init => LoggedStamped
  BY InitLog, InitTypeOK DEF Init, LogInv, IdleUnlogged, LoggedStamped
<1>2. QED
  BY <1>1, NextStamped, LogInductive, TypeCorrect, PTL DEF Spec
=============================================================================
