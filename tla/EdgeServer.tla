----------------------------- MODULE EdgeServer -----------------------------
(***************************************************************************)
(* The gRPC server of the control plane (grpc/service.go): the registry of *)
(* connected edge nodes, the streams WatchConfig keeps open to them and    *)
(* the fan-out of BroadcastUpdate and BroadcastPurge.                      *)
(*                                                                         *)
(* Every invocation of WatchConfig is a process named by a member of       *)
(* Streams; it owns the channel it creates, so a channel is named by the   *)
(* stream that reads it.  Every invocation of BroadcastUpdate or           *)
(* BroadcastPurge is a process named by a member of Updates or Purges.     *)
(*                                                                         *)
(* Server.mu: the sections under Lock are single actions guarded by        *)
(* LockFree; the fan-out loops hold RLock from FanoutBegin to FanoutEnd,   *)
(* may overlap with one another, and are cut at every channel send.        *)
(***************************************************************************)
EXTENDS Naturals, Sequences

CONSTANTS
  Nodes,     (* node ids of the edge nodes                                 *)
  Streams,   (* invocations of WatchConfig                                 *)
  Updates,   (* invocations of BroadcastUpdate                             *)
  Purges,    (* invocations of BroadcastPurge                              *)
  Cap,       (* capacity of a stream's channel, 100 in the code            *)
  None       (* no stream: the key is absent from the map                  *)

ASSUME CapAssumption == Cap \in Nat \ {0}
ASSUME NamesAssumption == None \notin Streams /\ Updates \cap Purges = {}

Broadcasts == Updates \cup Purges

VARIABLES
  edges,      (* Server.edges: node id -> the stream owning the channel    *)
  version,    (* Server.version                                            *)
  pc,         (* control state of each WatchConfig invocation              *)
  nodeOf,     (* req.NodeId of each WatchConfig invocation, None before    *)
  cancelled,  (* stream.Context().Done() is closed                         *)
  ch,         (* contents of the channel of each stream                    *)
  hand,       (* the message received from ch and not yet sent, if any     *)
  seen,       (* Server.version when that message was received             *)
  delivered,  (* responses whose stream.Send succeeded, as the edge got them *)
  bpc,        (* control state of each broadcast                           *)
  stamp,      (* update.Version of each BroadcastUpdate, 0 before          *)
  targets     (* node ids the range loop over edges has yet to visit       *)

(* History, read by the properties only. *)
VARIABLES
  since,      (* Server.version when the stream registered                 *)
  overlapped, (* streams that were live together with another of their node *)
  dropped     (* broadcasts skipped on a stream because its channel was full *)

server  == <<edges, version>>
streams == <<pc, nodeOf, cancelled, ch, hand, seen, delivered>>
bcasts  == <<bpc, stamp, targets>>
history == <<since, overlapped, dropped>>
vars    == <<server, streams, bcasts, history>>

(* The bytes put on a channel.  A PurgeCommand carries no version: stamp 0. *)
Message(b) == [id |-> b, version |-> stamp[b]]

Open(s) == pc[s] \in {"select", "sending"}
Live(s) == Open(s) \/ pc[s] = "closing"

LockFree == \A b \in Broadcasts : bpc[b] # "fanout"

Init ==
  /\ edges = [n \in Nodes |-> None]
  /\ version = 1
  /\ pc = [s \in Streams |-> "idle"]
  /\ nodeOf = [s \in Streams |-> None]
  /\ cancelled = [s \in Streams |-> FALSE]
  /\ ch = [s \in Streams |-> <<>>]
  /\ hand = [s \in Streams |-> <<>>]
  /\ seen = [s \in Streams |-> 0]
  /\ delivered = [s \in Streams |-> <<>>]
  /\ bpc = [b \in Broadcasts |-> "idle"]
  /\ stamp = [b \in Broadcasts |-> 0]
  /\ targets = [b \in Broadcasts |-> {}]
  /\ since = [s \in Streams |-> 0]
  /\ overlapped = {}
  /\ dropped = [s \in Streams |-> {}]

-----------------------------------------------------------------------------
(* WatchConfig.                                                            *)

Rivals(s, n) == {t \in Streams \ {s} : Live(t) /\ nodeOf[t] = n}

(* s.edges[req.NodeId] = ch replaces the channel of an older stream of the
   node, if there is one, and nobody tells that stream. *)
WatchRegister(s, n) ==
  /\ pc[s] = "idle"
  /\ LockFree
  /\ edges' = [edges EXCEPT ![n] = s]
  /\ pc' = [pc EXCEPT ![s] = "select"]
  /\ nodeOf' = [nodeOf EXCEPT ![s] = n]
  /\ since' = [since EXCEPT ![s] = version]
  /\ overlapped' = IF Rivals(s, n) = {} THEN overlapped
                   ELSE overlapped \cup Rivals(s, n) \cup {s}
  /\ UNCHANGED <<version, cancelled, ch, hand, seen, delivered, bcasts, dropped>>

(* The version of the response is read without the lock, at some moment
   between the receive and the Send: seen is its value at the receive. *)
VersionAtRegister(s) == since[s]          \* a bug: the version read once, before the loop
VersionAtReceive(s) == version

WatchReceive(s) ==
  /\ pc[s] = "select"
  /\ ch[s] # <<>>
  /\ hand' = [hand EXCEPT ![s] = <<Head(ch[s])>>]
  /\ ch' = [ch EXCEPT ![s] = Tail(@)]
  /\ seen' = [seen EXCEPT ![s] = VersionAtReceive(s)]
  /\ pc' = [pc EXCEPT ![s] = "sending"]
  /\ UNCHANGED <<server, nodeOf, cancelled, delivered, bcasts, history>>

WatchSend(s) ==
  /\ pc[s] = "sending"
  /\ ~cancelled[s]
  /\ \E v \in seen[s] .. version :
       delivered' = [delivered EXCEPT ![s] =
                       Append(@, [update |-> hand[s][1], version |-> v])]
  /\ hand' = [hand EXCEPT ![s] = <<>>]
  /\ pc' = [pc EXCEPT ![s] = "select"]
  /\ UNCHANGED <<server, nodeOf, cancelled, ch, seen, bcasts, history>>

(* Send fails: the transport broke, or the context of the stream is done.  *)
WatchSendError(s) ==
  /\ pc[s] = "sending"
  /\ pc' = [pc EXCEPT ![s] = "closing"]
  /\ UNCHANGED <<server, nodeOf, cancelled, ch, hand, seen, delivered, bcasts, history>>

(* A bug: the loop only receives from the channel.                          *)
WatchNeverDone(s) == FALSE /\ UNCHANGED vars

(* select takes any ready case, so a done context does not wait for ch to
   be drained, nor the other way round. *)
WatchContextDone(s) ==
  /\ pc[s] = "select"
  /\ cancelled[s]
  /\ pc' = [pc EXCEPT ![s] = "closing"]
  /\ UNCHANGED <<server, nodeOf, cancelled, ch, hand, seen, delivered, bcasts, history>>

(* The deferred delete removes the key whatever channel it holds by then.  *)
EdgesUnchanged(n) == edges                  \* a bug: the delete is forgotten
EdgesWithout(n) == [edges EXCEPT ![n] = None]

WatchUnregister(s) ==
  /\ pc[s] = "closing"
  /\ LockFree
  /\ edges' = EdgesWithout(nodeOf[s])
  /\ pc' = [pc EXCEPT ![s] = "returned"]
  /\ UNCHANGED <<version, nodeOf, cancelled, ch, hand, seen, delivered, bcasts, history>>

(* The edge node hangs up or its connection is found broken.               *)
Disconnect(s) ==
  /\ Open(s)
  /\ ~cancelled[s]
  /\ cancelled' = [cancelled EXCEPT ![s] = TRUE]
  /\ UNCHANGED <<server, pc, nodeOf, ch, hand, seen, delivered, bcasts, history>>
-----------------------------------------------------------------------------
(* BroadcastUpdate and BroadcastPurge.                                     *)

SameVersion == version                    \* a bug: the increment is forgotten

NextVersion == version + 1

UpdateStamp(b) ==
  /\ b \in Updates
  /\ bpc[b] = "idle"
  /\ LockFree
  /\ version' = NextVersion
  /\ stamp' = [stamp EXCEPT ![b] = NextVersion]
  /\ bpc' = [bpc EXCEPT ![b] = "stamped"]
  /\ UNCHANGED <<edges, streams, targets, history>>

(* A bug: update.Version read back after the Unlock of UpdateStamp.        *)
StampAtFanout(b) ==
  /\ bpc[b] = IF b \in Purges THEN "idle" ELSE "stamped"
  /\ bpc' = [bpc EXCEPT ![b] = "fanout"]
  /\ stamp' = [stamp EXCEPT ![b] = version]
  /\ targets' = [targets EXCEPT ![b] = {n \in Nodes : edges[n] # None}]
  /\ UNCHANGED <<server, streams, history>>

(* RLock.  The map cannot change until RUnlock: its keys are known here.   *)
FanoutBegin(b) ==
  /\ bpc[b] = IF b \in Purges THEN "idle" ELSE "stamped"
  /\ bpc' = [bpc EXCEPT ![b] = "fanout"]
  /\ targets' = [targets EXCEPT ![b] = {n \in Nodes : edges[n] # None}]
  /\ UNCHANGED <<server, streams, stamp, history>>

HasRoomOffByOne(s) == Len(ch[s]) =< Cap      \* a bug: one message too many

HasRoom(s) == Len(ch[s]) < Cap

(* A bug: a channel that is found full ends the loop (return, not default). *)
OfferOrGiveUp(b, n) ==
  LET s == edges[n] IN
  /\ bpc[b] = "fanout"
  /\ n \in targets[b]
  /\ IF HasRoom(s)
     THEN /\ ch' = [ch EXCEPT ![s] = Append(@, Message(b))]
          /\ targets' = [targets EXCEPT ![b] = @ \ {n}]
          /\ UNCHANGED dropped
     ELSE /\ dropped' = [dropped EXCEPT ![s] = @ \cup {b}]
          /\ targets' = [targets EXCEPT ![b] = {}]
          /\ UNCHANGED ch
  /\ UNCHANGED <<server, pc, nodeOf, cancelled, hand, seen, delivered,
                 bpc, stamp, since, overlapped>>

(* A bug: the send blocks until the channel has room, under RLock.          *)
OfferBlocking(b, n) ==
  /\ bpc[b] = "fanout"
  /\ n \in targets[b]
  /\ HasRoom(edges[n])
  /\ ch' = [ch EXCEPT ![edges[n]] = Append(@, Message(b))]
  /\ targets' = [targets EXCEPT ![b] = @ \ {n}]
  /\ UNCHANGED <<server, pc, nodeOf, cancelled, hand, seen, delivered,
                 bpc, stamp, history>>

(* A bug: a node is offered the message again after a successful send.      *)
OfferAgain(b, n) ==
  LET s == edges[n] IN
  /\ bpc[b] = "fanout"
  /\ n \in targets[b]
  /\ IF HasRoom(s)
     THEN /\ ch' = [ch EXCEPT ![s] = Append(@, Message(b))]
          /\ UNCHANGED <<targets, dropped>>
     ELSE /\ dropped' = [dropped EXCEPT ![s] = @ \cup {b}]
          /\ targets' = [targets EXCEPT ![b] = @ \ {n}]
          /\ UNCHANGED ch
  /\ UNCHANGED <<server, pc, nodeOf, cancelled, hand, seen, delivered,
                 bpc, stamp, since, overlapped>>

(* One iteration of the loop: a send that never blocks.                    *)
FanoutOffer(b, n) ==
  LET s == edges[n] IN
  /\ bpc[b] = "fanout"
  /\ n \in targets[b]
  /\ IF HasRoom(s)
     THEN /\ ch' = [ch EXCEPT ![s] = Append(@, Message(b))]
          /\ UNCHANGED dropped
     ELSE /\ dropped' = [dropped EXCEPT ![s] = @ \cup {b}]
          /\ UNCHANGED ch
  /\ targets' = [targets EXCEPT ![b] = @ \ {n}]
  /\ UNCHANGED <<server, pc, nodeOf, cancelled, hand, seen, delivered,
                 bpc, stamp, since, overlapped>>

FanoutEnd(b) ==
  /\ bpc[b] = "fanout"
  /\ targets[b] = {}
  /\ bpc' = [bpc EXCEPT ![b] = "done"]
  /\ UNCHANGED <<server, streams, stamp, targets, history>>
-----------------------------------------------------------------------------
StreamNext(s) ==
  \/ \E n \in Nodes : WatchRegister(s, n)
  \/ WatchReceive(s)
  \/ WatchSend(s)
  \/ WatchSendError(s)
  \/ WatchContextDone(s)
  \/ WatchUnregister(s)
  \/ Disconnect(s)

BroadcastNext(b) ==
  \/ UpdateStamp(b)
  \/ FanoutBegin(b)
  \/ \E n \in Nodes : FanoutOffer(b, n)
  \/ FanoutEnd(b)

Next ==
  \/ \E s \in Streams : StreamNext(s)
  \/ \E b \in Broadcasts : BroadcastNext(b)

Spec == Init /\ [][Next]_vars

(* What the Go runtime and grpc-go owe: a runnable goroutine runs, Send on a
   stream whose context is done returns an error, and a goroutine blocked in
   Lock gets it (RWMutex lets no new reader pass a waiting writer, so an
   Unregister that is enabled again and again is taken: strong fairness).
   Nothing is owed on WatchSend: a slow edge may block Send for ever. *)
StreamFairness(s) ==
  /\ WF_vars(WatchReceive(s) \/ WatchContextDone(s))
  /\ WF_vars(cancelled[s] /\ WatchSendError(s))
  /\ SF_vars(WatchUnregister(s))

FanoutFairness(b) ==
  /\ b \in Updates => WF_vars(FanoutBegin(b))
  /\ WF_vars(\E n \in Nodes : FanoutOffer(b, n))
  /\ WF_vars(FanoutEnd(b))
-----------------------------------------------------------------------------
(* Properties.                                                             *)

Messages == [id : Broadcasts, version : Nat]

(* Every variable has the type of the Go field or local it stands for, a
   channel never holds more than its capacity, and a stream has a message in
   hand exactly from the receive to the end of Send. *)
TypeOK ==
  /\ edges \in [Nodes -> Streams \cup {None}]
  /\ version \in Nat
  /\ pc \in [Streams -> {"idle", "select", "sending", "closing", "returned"}]
  /\ nodeOf \in [Streams -> Nodes \cup {None}]
  /\ cancelled \in [Streams -> BOOLEAN]
  /\ ch \in [Streams -> Seq(Messages)]
  /\ hand \in [Streams -> Seq(Messages)]
  /\ seen \in [Streams -> Nat]
  /\ delivered \in [Streams -> Seq([update : Messages, version : Nat])]
  /\ bpc \in [Broadcasts -> {"idle", "stamped", "fanout", "done"}]
  /\ stamp \in [Broadcasts -> Nat]
  /\ targets \in [Broadcasts -> SUBSET Nodes]
  /\ since \in [Streams -> Nat]
  /\ overlapped \in SUBSET Streams
  /\ dropped \in [Streams -> SUBSET Broadcasts]
  /\ \A s \in Streams : /\ Len(ch[s]) =< Cap
                        /\ pc[s] \in {"idle", "select"} => hand[s] = <<>>
                        /\ pc[s] = "sending" => Len(hand[s]) = 1

(* The registry never keeps a channel nobody reads: the stream registered
   for a node is a running WatchConfig of that very node. *)
NoDeadRegistration ==
  \A n \in Nodes : edges[n] # None => Live(edges[n]) /\ nodeOf[edges[n]] = n

(* Broadcast b was put on the channel of s and s has not lost it since.    *)
Carries(s, b) ==
  \/ \E i \in DOMAIN ch[s] : ch[s][i].id = b
  \/ \E i \in DOMAIN hand[s] : hand[s][i].id = b
  \/ \E i \in DOMAIN delivered[s] : delivered[s][i].update.id = b

(* "BroadcastUpdate sends a config update to all connected edge nodes"
   (service.go:144) as far as it is true: a finished broadcast has reached
   every open stream that registered before the broadcast got its version,
   or found its channel full, as long as no other stream of the same node
   was live at the same time as that stream. *)
SoleStreamsReached ==
  \A b \in Updates, s \in Streams :
    (bpc[b] = "done" /\ Open(s) /\ s \notin overlapped /\ since[s] < stamp[b])
      => Carries(s, b) \/ b \in dropped[s]

(* The same comment as it reads: a finished broadcast has reached, on some
   stream, every node with a connected stream that registered before the
   broadcast got its version.  The code breaks it: an edge that reconnects
   before the server notices the loss of its old stream is removed from the
   registry by the deferred delete of the old stream. *)
ConnectedNodesReached ==
  \A b \in Updates, s \in Streams :
    (bpc[b] = "done" /\ Open(s) /\ ~cancelled[s] /\ since[s] < stamp[b])
      => \E t \in Streams : /\ nodeOf[t] = nodeOf[s]
                            /\ Carries(t, b) \/ b \in dropped[t]

(* What went through the channel of s, oldest first.                       *)
StreamLog(s) ==
  [i \in DOMAIN delivered[s] |-> delivered[s][i].update] \o hand[s] \o ch[s]

(* A node gets a broadcast at most once, over all the streams it opened.   *)
AtMostOncePerNode ==
  \A s, t \in Streams :
    nodeOf[s] = nodeOf[t] =>
      \A i \in DOMAIN StreamLog(s), j \in DOMAIN StreamLog(t) :
        StreamLog(s)[i].id = StreamLog(t)[j].id => s = t /\ i = j

(* Versions number the updates without gap or duplicate, whatever broadcasts
   run at the same time: an edge that sees a version missing knows that it
   missed an update. *)
VersionsDense ==
  /\ \A b \in Updates : bpc[b] # "idle" => stamp[b] \in 2 .. version
  /\ \A v \in 2 .. version : \E b \in Updates :
       stamp[b] = v /\ \A c \in Updates : stamp[c] = v => c = b

(* ConfigUpdateResponse.Version, read without the lock, is never older than
   the version inside the update it wraps. *)
EnvelopeNotOlder ==
  \A s \in Streams : \A i \in DOMAIN delivered[s] :
    delivered[s][i].update.version =< delivered[s][i].version

(* ConfigUpdateResponse.Version never goes back along a stream, whatever
   broadcasts run between one unlocked read and the next, and also when the
   updates come in another order than their own versions. *)
EnvelopesAscend ==
  \A s \in Streams : \A i, j \in DOMAIN delivered[s] :
    i < j => delivered[s][i].version =< delivered[s][j].version

(* A broadcast ends however slow the edges are: a full channel is skipped. *)
FanoutNeverBlocks ==
  \A b \in Updates : bpc[b] = "stamped" ~> bpc[b] = "done"

(* The server forgets a stream whose edge has gone, even if its channel is
   never empty or Send was under way. *)
DisconnectedReturns ==
  \A s \in Streams : cancelled[s] ~> pc[s] = "returned"
=============================================================================
