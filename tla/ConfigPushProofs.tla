-------------------------- MODULE ConfigPushProofs --------------------------
(***************************************************************************)
(* ConfigPush behaves as EdgeServer towards the streams and as ConfigFeed  *)
(* towards the database, for any number of requests, streams and nodes.    *)
(*                                                                         *)
(* PushIInv is inductive: IInv of the edge server, and what ties the       *)
(* goroutines and the fetches to the broadcasts.  SerialInv is inductive   *)
(* together with it.  As long as no two goroutines were between their load *)
(* and the end of their fan-out, the versions are in the order of the      *)
(* snapshots (SnapshotsInOrder), the one broadcast under way has the       *)
(* newest version (NewestUnderWay), and so a stream carries what it        *)
(* carries in that order (LogInOrder).                                     *)
(***************************************************************************)
EXTENDS ConfigPush, EdgeServerLogProofs

(* What the goroutines hold: each change has a revision of its own, and a
   snapshot taken after the change contains it. *)
JobsConsistent ==
  /\ rev \in Nat
  /\ job \in [Updates -> {"idle", "committed", "spawned", "loaded", "failed",
                          "broadcasting"}]
  /\ change \in [Updates -> Nat]
  /\ snap \in [Updates -> Nat]
  /\ \A b \in Updates :
       /\ change[b] =< rev /\ snap[b] =< rev
       /\ job[b] = "idle" <=> change[b] = 0
       /\ job[b] \in {"loaded", "broadcasting"} => change[b] =< snap[b]
       /\ bpc[b] # "idle" <=> job[b] = "broadcasting"
  /\ \A b, c \in Updates : change[b] = change[c] => b = c \/ change[b] = 0

(* What GetFullConfig holds, and when its edge subscribed. *)
FetchesConsistent ==
  /\ fetch \in [Streams -> {"idle", "loaded", "replied", "failed"}]
  /\ fetchRev \in [Streams -> Nat]
  /\ fetchedAt \in [Streams -> Nat]
  /\ subscribed \subseteq Streams
  /\ \A s \in Streams : fetchedAt[s] =< version
  /\ \A s \in subscribed :
       /\ fetch[s] \in {"loaded", "replied"}
       /\ pc[s] # "idle"
       /\ since[s] =< fetchedAt[s]
  /\ FullConfigFresh

PushIInv == IInv /\ JobsConsistent /\ FetchesConsistent
-----------------------------------------------------------------------------
(* EdgeServer.                                                             *)

(* Every step of the pipeline is a step of EdgeServer or leaves it alone.  *)
LEMMA PushStepIsServerStep == [PushNext]_pushVars => [Next]_vars
<1> SUFFICES ASSUME [PushNext]_pushVars  PROVE [Next]_vars
  OBVIOUS
<1>1. ASSUME NEW b \in Updates, JobNext(b)  PROVE [Next]_vars
  <2>1. CASE Broadcast(b)
    BY <2>1 DEF Broadcast, Next, BroadcastNext, Broadcasts
  <2>2. CASE ~Broadcast(b)
    BY <1>1, <2>2 DEF JobNext, Commit, Notify, Load, LoadFail
  <2> QED  BY <2>1, <2>2
<1>2. CASE CommitSilently
  BY <1>2 DEF CommitSilently
<1>3. ASSUME NEW s \in Streams, FetchNext(s)  PROVE [Next]_vars
  BY <1>3 DEF FetchNext, FetchLoad, FetchFail, FetchReply
<1>4. CASE ServerNext
  BY <1>4 DEF ServerNext, Next, BroadcastNext, Broadcasts
<1>5. CASE UNCHANGED pushVars
  BY <1>5 DEF pushVars
<1> QED
  BY <1>1, <1>2, <1>3, <1>4, <1>5, FetchersAssumption DEF PushNext

(* The composition implements the server it is built on: what is proved of
   EdgeServer holds of the whole pipeline. *)
THEOREM PushImplementsServer == PushSpec => Spec
<1>1. PushInit => Init
  BY DEF PushInit
<1> QED  BY <1>1, PushStepIsServerStep, PTL DEF PushSpec, Spec
-----------------------------------------------------------------------------
LEMMA InitConsistent == PushInit => JobsConsistent /\ FetchesConsistent
BY DEF PushInit, Init, JobsConsistent, FetchesConsistent, FullConfigFresh, Broadcasts

(* What a step of EdgeServer does to the broadcasts of jobs.               *)
LEMMA ServerStepKeepsJobs ==
  ASSUME IInv, JobsConsistent, ServerNext
  PROVE  JobsConsistent' /\ UNCHANGED <<version, stamp, jobs, fetches>>
<1>1. UNCHANGED <<jobs, fetches>>
  BY DEF ServerNext
<1>2. ASSUME NEW s \in Streams, StreamNext(s)
      PROVE  UNCHANGED <<version, stamp, bpc>>
  BY <1>2 DEF StreamNext, WatchRegister, WatchReceive, WatchSend, WatchSendError,
              WatchContextDone, WatchUnregister, Disconnect, server, bcasts
<1>3. ASSUME NEW b \in Updates,
             FanoutBegin(b) \/ FanoutEnd(b) \/ \E n \in Nodes : FanoutOffer(b, n)
      PROVE  /\ UNCHANGED <<version, stamp>>
             /\ \A c \in Updates : bpc'[c] = "idle" <=> bpc[c] = "idle"
  <2>1. UNCHANGED <<version, stamp>>
    BY <1>3 DEF FanoutBegin, FanoutEnd, FanoutOffer, server
  <2>2. b \notin Purges /\ b \in Broadcasts /\ bpc \in [Broadcasts -> {"idle", "stamped", "fanout", "done"}]
    BY NamesAssumption DEF Broadcasts, IInv, TypeOK
  <2>3. \A c \in Updates : bpc'[c] = "idle" <=> bpc[c] = "idle"
    BY <1>3, <2>2 DEF FanoutBegin, FanoutEnd, FanoutOffer, Broadcasts
  <2> QED  BY <2>1, <2>3
<1>4. /\ UNCHANGED <<version, stamp>>
      /\ \A c \in Updates : bpc'[c] = "idle" <=> bpc[c] = "idle"
  BY <1>2, <1>3 DEF ServerNext
<1>5. UNCHANGED <<rev, job, change, snap>>
  BY <1>1 DEF jobs
<1> QED  BY <1>1, <1>4, <1>5 DEF JobsConsistent

LEMMA NextJobs == IInv /\ JobsConsistent /\ [PushNext]_pushVars => JobsConsistent'
<1> SUFFICES ASSUME IInv, JobsConsistent, [PushNext]_pushVars  PROVE JobsConsistent'
  OBVIOUS
<1>1. ASSUME NEW b \in Updates, Commit(b)  PROVE JobsConsistent'
  BY <1>1 DEF JobsConsistent, Commit, vars, bcasts
<1>2. CASE CommitSilently
  BY <1>2 DEF JobsConsistent, CommitSilently, vars, bcasts
<1>3. ASSUME NEW b \in Updates, Notify(b) \/ LoadFail(b)  PROVE JobsConsistent'
  BY <1>3 DEF JobsConsistent, Notify, LoadFail, vars, bcasts
<1>4. ASSUME NEW b \in Updates, Load(b)  PROVE JobsConsistent'
  BY <1>4 DEF JobsConsistent, Load, Snapshot, vars, bcasts
<1>5. ASSUME NEW b \in Updates, Broadcast(b)  PROVE JobsConsistent'
  <2>1. bpc \in [Broadcasts -> {"idle", "stamped", "fanout", "done"}] /\ b \in Broadcasts
    BY DEF IInv, TypeOK, Broadcasts
  <2>2. bpc' = [bpc EXCEPT ![b] = "stamped"]
    BY <1>5 DEF Broadcast, UpdateStamp
  <2> QED  BY <1>5, <2>1, <2>2 DEF JobsConsistent, Broadcast, Broadcasts
<1>6. ASSUME NEW s \in Streams, FetchNext(s)  PROVE JobsConsistent'
  BY <1>6 DEF JobsConsistent, FetchNext, FetchLoad, FetchFail, FetchReply, jobs, vars, bcasts
<1>7. CASE UNCHANGED pushVars
  BY <1>7 DEF JobsConsistent, pushVars, jobs, vars, bcasts
<1> QED
  BY <1>1, <1>2, <1>3, <1>4, <1>5, <1>6, <1>7, ServerStepKeepsJobs, FetchersAssumption
     DEF PushNext, JobNext

LEMMA NextFetches ==
  IInv /\ JobsConsistent /\ FetchesConsistent /\ [PushNext]_pushVars => FetchesConsistent'
<1> SUFFICES ASSUME IInv, JobsConsistent, FetchesConsistent, [PushNext]_pushVars
             PROVE  FetchesConsistent'
  OBVIOUS
<1>a. /\ version \in Nat /\ stamp \in [Broadcasts -> Nat] /\ Updates \subseteq Broadcasts
      /\ since \in [Streams -> Nat]
      /\ \A b \in Updates : stamp[b] =< version
      /\ \A b \in Updates : job[b] # "broadcasting" => stamp[b] = 0
  BY DEF IInv, TypeOK, StampBounded, JobsConsistent, Broadcasts
<1>1. ASSUME NEW b \in Updates, Commit(b) \/ Notify(b) \/ LoadFail(b)
      PROVE  FetchesConsistent'
  BY <1>1 DEF FetchesConsistent, FullConfigFresh, Commit, Notify, LoadFail, vars, server,
              streams, bcasts, history, fetches
<1>2. CASE CommitSilently
  BY <1>2 DEF FetchesConsistent, FullConfigFresh, CommitSilently, vars, server,
              streams, bcasts, history, fetches
<1>3. ASSUME NEW b \in Updates, Load(b)  PROVE FetchesConsistent'
  <2>1. stamp[b] = 0 /\ \A c \in Updates \ {b} : snap'[c] = snap[c]
    BY <1>3, <1>a DEF Load, JobsConsistent
  <2>2. UNCHANGED <<version, stamp, pc, since, fetch, fetchRev, fetchedAt, subscribed>>
    BY <1>3 DEF Load, vars, server, streams, bcasts, history, fetches
  <2> QED  BY <2>1, <2>2 DEF FetchesConsistent, FullConfigFresh
<1>4. ASSUME NEW b \in Updates, Broadcast(b)  PROVE FetchesConsistent'
  <2>1. /\ version' = version + 1 /\ stamp'[b] = version + 1
        /\ \A c \in Updates \ {b} : stamp'[c] = stamp[c]
    BY <1>4, <1>a DEF Broadcast, UpdateStamp, NextVersion
  <2>2. UNCHANGED <<snap, pc, since, fetch, fetchRev, fetchedAt, subscribed>>
    BY <1>4 DEF Broadcast, UpdateStamp, streams, history, fetches
  <2>3. \A s \in Streams : fetchedAt[s] \in Nat /\ fetchedAt[s] =< version
    BY DEF FetchesConsistent
  <2>4. FullConfigFresh'
    BY <2>1, <2>2, <2>3, <1>a DEF FetchesConsistent, FullConfigFresh
  <2> QED  BY <2>1, <2>2, <2>3, <2>4, <1>a DEF FetchesConsistent
<1>5. ASSUME NEW s \in Streams, FetchLoad(s)  PROVE FetchesConsistent'
  <2>1. UNCHANGED <<version, stamp, pc, since, snap>>
    BY <1>5 DEF FetchLoad, vars, server, streams, bcasts, history, jobs
  <2>2. /\ fetchRev'[s] = rev /\ fetchedAt'[s] = version /\ fetch'[s] = "loaded"
        /\ \A t \in Streams \ {s} : /\ fetchRev'[t] = fetchRev[t]
                                    /\ fetchedAt'[t] = fetchedAt[t]
                                    /\ fetch'[t] = fetch[t]
    BY <1>5 DEF FetchLoad, FetchSnapshot, FetchesConsistent
  <2>a. /\ subscribed' = subscribed \/ (subscribed' = subscribed \cup {s} /\ Open(s))
        /\ subscribed' \subseteq Streams
    <3>1. subscribed' = IF Open(s) THEN subscribed \cup {s} ELSE subscribed
      BY <1>5 DEF FetchLoad
    <3>2. subscribed \subseteq Streams
      BY DEF FetchesConsistent
    <3>3. CASE Open(s)
      BY <3>1, <3>2, <3>3
    <3>4. CASE ~Open(s)
      BY <3>1, <3>2, <3>4
    <3> QED  BY <3>3, <3>4
  <2>3. s \notin subscribed
    BY <1>5 DEF FetchLoad, FetchesConsistent
  <2>4. since[s] =< version
    BY DEF IInv, SinceBounded
  <2>5. FullConfigFresh'
    BY <2>1, <2>2 DEF FetchesConsistent, FullConfigFresh, JobsConsistent
  <2>6. /\ fetch' \in [Streams -> {"idle", "loaded", "replied", "failed"}]
        /\ fetchRev' \in [Streams -> Nat]
        /\ fetchedAt' \in [Streams -> Nat]
    BY <1>5, <1>a DEF FetchLoad, FetchSnapshot, FetchesConsistent, JobsConsistent
  <2> QED  BY <2>1, <2>2, <2>a, <2>3, <2>4, <2>5, <2>6, <1>a DEF FetchesConsistent, Open
<1>6. ASSUME NEW s \in Streams, FetchFail(s) \/ FetchReply(s)  PROVE FetchesConsistent'
  <2>1. /\ UNCHANGED <<version, stamp, pc, since, snap, fetchRev, fetchedAt, subscribed>>
        /\ \A t \in Streams \ {s} : fetch'[t] = fetch[t]
    BY <1>6 DEF FetchFail, FetchReply, vars, server, streams, bcasts, history, jobs,
                FetchesConsistent
  <2>2. \/ fetch[s] = "idle" /\ fetch'[s] = "failed"
        \/ fetch[s] = "loaded" /\ fetch'[s] = "replied"
    BY <1>6 DEF FetchFail, FetchReply, FetchesConsistent
  <2>3. fetch' \in [Streams -> {"idle", "loaded", "replied", "failed"}]
    BY <1>6 DEF FetchFail, FetchReply, FetchesConsistent
  <2> QED  BY <2>1, <2>2, <2>3 DEF FetchesConsistent, FullConfigFresh
<1>7. CASE ServerNext
  <2>1. UNCHANGED <<version, stamp, snap, fetch, fetchRev, fetchedAt, subscribed>>
    BY <1>7, ServerStepKeepsJobs DEF jobs, fetches
  <2>2. \A s \in Streams : pc[s] # "idle" => pc'[s] # "idle" /\ since'[s] = since[s]
    <3>1. ASSUME NEW t \in Streams, StreamNext(t), NEW s \in Streams, pc[s] # "idle"
          PROVE  pc'[s] # "idle" /\ since'[s] = since[s]
      BY <3>1 DEF StreamNext, WatchRegister, WatchReceive, WatchSend, WatchSendError,
                WatchContextDone, WatchUnregister, Disconnect, history, IInv, TypeOK
    <3>2. ASSUME NEW b \in Updates,
                 FanoutBegin(b) \/ FanoutEnd(b) \/ \E n \in Nodes : FanoutOffer(b, n)
          PROVE  UNCHANGED <<pc, since>>
      BY <3>2 DEF FanoutBegin, FanoutEnd, FanoutOffer, streams, history
    <3> QED  BY <1>7, <3>1, <3>2 DEF ServerNext
  <2> QED  BY <2>1, <2>2 DEF FetchesConsistent, FullConfigFresh
<1>8. CASE UNCHANGED pushVars
  BY <1>8 DEF FetchesConsistent, FullConfigFresh, pushVars, vars, server, streams, bcasts,
              history, jobs, fetches
<1> QED
  BY <1>1, <1>2, <1>3, <1>4, <1>5, <1>6, <1>7, <1>8, FetchersAssumption
     DEF PushNext, JobNext, FetchNext

LEMMA InitPushIInv == PushInit => PushIInv
BY InitIInv, InitConsistent DEF PushInit, PushIInv

LEMMA NextPushIInv == PushIInv /\ [PushNext]_pushVars => PushIInv'
BY PushStepIsServerStep, NextIInv, NextJobs, NextFetches DEF PushIInv

(* In every reachable state of the pipeline the goroutines, the fetches and
   the server agree. *)
THEOREM PushInductive == PushSpec => []PushIInv
BY InitPushIInv, NextPushIInv, PTL DEF PushSpec

(* A full configuration is not older than any update stamped before it was
   read. *)
THEOREM FullConfigNotStale == PushSpec => []FullConfigFresh
<1>1. PushIInv => FullConfigFresh
  BY DEF PushIInv, FetchesConsistent
<1> QED  BY <1>1, PushInductive, PTL

(* Subscribing first and fetching then leaves no broadcast out, unless the
   fetch itself was cut short: one that was stamped before the stream
   registered is in the full configuration, and a later one is on the stream by
   BroadcastReaches. *)
THEOREM SubscribersMissNothing == PushSpec => []SubscribeThenFetch
<1>1. PushIInv => SubscribeThenFetch
  <2> SUFFICES ASSUME PushIInv, NEW s \in subscribed \ fetchPartial, NEW b \in Updates,
                      Done(b), Open(s), s \notin overlapped
               PROVE  snap[b] =< fetchRev[s] \/ Carries(s, b) \/ b \in dropped[s]
    BY DEF SubscribeThenFetch
  <2>1. /\ s \in Streams /\ fetch[s] \in {"loaded", "replied"}
        /\ since[s] =< fetchedAt[s] /\ since[s] \in Nat /\ fetchedAt[s] \in Nat
    BY DEF PushIInv, FetchesConsistent, IInv, TypeOK
  <2>2. stamp[b] \in Nat /\ stamp[b] >= 1
    <3>1. stamp[b] \in 2 .. version /\ version \in Nat
      BY DEF Done, PushIInv, IInv, TypeOK, VersionsDense
    <3> QED  BY <3>1
  <2>3. CASE since[s] < stamp[b]
    <3>1. SoleStreamsReached
      BY DEF PushIInv, IInv, FanoutProgress, SoleStreamsReached
    <3> QED  BY <2>1, <2>3, <3>1 DEF SoleStreamsReached, Done
  <2>4. CASE ~(since[s] < stamp[b])
    <3>1. stamp[b] \in 1 .. fetchedAt[s]
      BY <2>1, <2>2, <2>4
    <3> QED  BY <2>1, <3>1 DEF PushIInv, FetchesConsistent, FullConfigFresh
  <2> QED  BY <2>3, <2>4
<1> QED  BY <1>1, PushInductive, PTL
-----------------------------------------------------------------------------
(* ConfigFeed.                                                             *)

(* Publication number v is the snapshot of the update with version v + 1.  *)
PublishedAsStamped ==
  \A b \in Updates :
    bpc[b] # "idle" =>
      stamp[b] - 1 \in DOMAIN Published /\ Published[stamp[b] - 1] = Shown(b)

Snapshots == [rev : Nat, whole : BOOLEAN]

LEMMA PublishedValue == PushIInv => PublishedAsStamped
<1> SUFFICES ASSUME PushIInv, NEW b \in Updates, bpc[b] # "idle"
             PROVE  stamp[b] - 1 \in DOMAIN Published /\ Published[stamp[b] - 1] = Shown(b)
  BY DEF PublishedAsStamped
<1>1. /\ version \in Nat /\ stamp[b] \in 2 .. version
      /\ \A c \in Updates : stamp[c] = stamp[b] => c = b
  <2>1. version \in Nat /\ stamp[b] \in 2 .. version
    BY DEF PushIInv, IInv, TypeOK, VersionsDense
  <2>2. PICK d \in Updates :
          stamp[d] = stamp[b] /\ \A c \in Updates : stamp[c] = stamp[b] => c = d
    BY <2>1 DEF PushIInv, IInv, VersionsDense
  <2> QED  BY <2>1, <2>2
<1>2. stamp[b] - 1 \in 1 .. version - 1 /\ (stamp[b] - 1) + 1 = stamp[b]
  BY <1>1
<1>3. (CHOOSE c \in Updates : stamp[c] = stamp[b]) = b
  BY <1>1
<1> QED  BY <1>2, <1>3 DEF Published

(* Every publication comes from one update.                                *)
LEMMA PublishedSource ==
  ASSUME PushIInv, NEW v \in 1 .. version - 1
  PROVE  \E b \in Updates : bpc[b] # "idle" /\ stamp[b] = v + 1 /\ Published[v] = Shown(b)
<1>1. version \in Nat /\ v + 1 \in 2 .. version
  BY DEF PushIInv, IInv, TypeOK
<1>2. PICK b \in Updates : stamp[b] = v + 1
  BY <1>1 DEF PushIInv, IInv, VersionsDense
<1>3. bpc[b] # "idle" /\ (v + 1) - 1 = v
  BY <1>1, <1>2 DEF PushIInv, IInv, StampBounded, Broadcasts
<1> QED  BY <1>2, <1>3, PublishedValue DEF PublishedAsStamped

(* Publications stay what they are: no step rewrites the snapshot or the
   version of a broadcast that has begun. *)
LEMMA PublishedKept ==
  ASSUME PushIInv, PushIInv', version =< version',
         \A b \in Updates :
           bpc[b] # "idle" => bpc'[b] # "idle" /\ stamp'[b] = stamp[b] /\ Shown(b)' = Shown(b)
  PROVE  \A v \in 1 .. version - 1 : v \in 1 .. version' - 1 /\ Published'[v] = Published[v]
<1> SUFFICES ASSUME NEW v \in 1 .. version - 1
             PROVE  v \in 1 .. version' - 1 /\ Published'[v] = Published[v]
  OBVIOUS
<1>1. version \in Nat /\ version' \in Nat
  BY DEF PushIInv, IInv, TypeOK
<1>2. PICK b \in Updates : bpc[b] # "idle" /\ stamp[b] = v + 1 /\ Published[v] = Shown(b)
  BY PublishedSource
<1>3. bpc'[b] # "idle" /\ stamp'[b] = v + 1 /\ Shown(b)' = Shown(b)
  BY <1>2
<1>4. PublishedAsStamped'
  BY PublishedValue, PTL
<1>5. Published'[stamp'[b] - 1] = Shown(b)'
  BY <1>3, <1>4 DEF PublishedAsStamped
<1>6. stamp'[b] - 1 = v /\ v \in 1 .. version' - 1
  BY <1>1, <1>3
<1> QED  BY <1>2, <1>3, <1>5, <1>6

LEMMA PublishedIsSeq ==
  PushIInv => Published \in Seq(Snapshots) /\ Len(Published) = version - 1
<1> SUFFICES ASSUME PushIInv  PROVE Published \in Seq(Snapshots) /\ Len(Published) = version - 1
  OBVIOUS
<1>1. version \in Nat /\ version >= 1
  BY DEF PushIInv, IInv, TypeOK, StampBounded
<1>2. ASSUME NEW v \in 1 .. version - 1  PROVE Published[v] \in Snapshots
  <2>1. PICK b \in Updates : Published[v] = Shown(b)
    BY PublishedSource
  <2>2. Shown(b) \in Snapshots
    <3>1. snap[b] \in Nat
      BY DEF PushIInv, JobsConsistent
    <3> QED  BY <3>1 DEF Shown, Snapshots
  <2> QED  BY <2>1, <2>2, Zenon
<1>3. Published = [v \in 1 .. version - 1 |-> Published[v]]
  BY DEF Published
<1>4. Published \in [1 .. version - 1 -> Snapshots] /\ version - 1 \in Nat
  BY <1>1, <1>2, <1>3
<1> HIDE DEF Published
<1> QED  BY <1>4

(* Nothing is published while Server.version stays. *)
LEMMA PublishedSame ==
  ASSUME PushIInv, PushIInv', version' = version,
         \A b \in Updates :
           bpc[b] # "idle" => bpc'[b] # "idle" /\ stamp'[b] = stamp[b] /\ Shown(b)' = Shown(b)
  PROVE  Published' = Published
<1>1. version \in Nat
  BY DEF PushIInv, IInv, TypeOK
<1>2. \A v \in 1 .. version - 1 : Published'[v] = Published[v]
  BY <1>1, PublishedKept
<1>3. /\ Published = [v \in 1 .. version - 1 |-> Published[v]]
      /\ Published' = [v \in 1 .. version - 1 |-> Published'[v]]
  BY DEF Published
<1> HIDE DEF Published
<1> QED  BY <1>2, <1>3

(* The revision each owed change stands for is its own. *)
LEMMA OwedWithout ==
  ASSUME JobsConsistent, NEW b \in Updates, job[b] \in {"committed", "spawned", "loaded"},
         job'[b] \notin {"committed", "spawned", "loaded"}, change' = change,
         \A c \in Updates \ {b} : job'[c] = job[c]
  PROVE  change[b] \in Owed /\ Owed' = Owed \ {change[b]}
BY DEF Owed, JobsConsistent

LEMMA FeedInitially == PushInit => Feed!FeedInit
<1> SUFFICES ASSUME PushInit  PROVE Feed!FeedInit
  OBVIOUS
<1>1. rev = 0 /\ Owed = {} /\ version = 1
  BY DEF PushInit, Init, Owed
<1>2. PushIInv
  BY InitPushIInv
<1>3. Published \in Seq(Snapshots) /\ Len(Published) = 0
  BY <1>1, <1>2, PublishedIsSeq
<1>4. Published = <<>>
  <2> HIDE DEF Published
  <2> QED  BY <1>3
<1> QED  BY <1>1, <1>4 DEF Feed!FeedInit

LEMMA FeedStep ==
  PushIInv /\ PushIInv' /\ [PushNext]_pushVars => [Feed!FeedNext]_(Feed!feedVars)
<1> SUFFICES ASSUME PushIInv, PushIInv', [PushNext]_pushVars
             PROVE  [Feed!FeedNext]_(Feed!feedVars)
  OBVIOUS
<1> USE DEF Feed!FeedNext, Feed!feedVars
<1>a. JobsConsistent
  BY DEF PushIInv
<1>1. ASSUME NEW b \in Updates, Commit(b)  PROVE Feed!Change
  <2>1. Published' = Published
    BY <1>1, PublishedSame DEF Shown, Commit, vars, server, bcasts
  <2>2. rev' = rev + 1 /\ Owed' = Owed \cup {rev + 1}
    BY <1>1, <1>a DEF Commit, Owed, JobsConsistent
  <2> QED  BY <2>1, <2>2 DEF Feed!Change
<1>2. CASE CommitSilently
  <2>1. Published' = Published
    BY <1>2, PublishedSame DEF Shown, CommitSilently, vars, server, bcasts
  <2> QED  BY <1>2, <2>1 DEF CommitSilently, Owed, Feed!ChangeSilently
<1>3. ASSUME NEW b \in Updates, Notify(b) \/ Load(b)  PROVE UNCHANGED <<rev, Owed, Published>>
  <2>1. \A c \in Updates : bpc[c] # "idle" => Shown(c)' = Shown(c)
    BY <1>3, <1>a DEF Notify, Load, JobsConsistent, Shown
  <2>2. Published' = Published
    BY <1>3, <2>1, PublishedSame DEF Notify, Load, vars, server, bcasts
  <2>3. /\ rev' = rev /\ change' = change
        /\ \A c \in Updates : job'[c] \in {"committed", "spawned", "loaded"} <=>
                             job[c] \in {"committed", "spawned", "loaded"}
    BY <1>3, <1>a DEF Notify, Load, JobsConsistent
  <2>4. Owed' = Owed
    BY <2>3 DEF Owed
  <2> QED  BY <2>2, <2>3, <2>4
<1>4. ASSUME NEW b \in Updates, LoadFail(b)  PROVE \E c \in Owed : Feed!Abandon(c)
  <2>1. Published' = Published
    BY <1>4, PublishedSame DEF Shown, LoadFail, vars, server, bcasts
  <2>2. /\ job[b] = "spawned" /\ job'[b] = "failed" /\ change' = change /\ rev' = rev
        /\ \A c \in Updates \ {b} : job'[c] = job[c]
    BY <1>4, <1>a DEF LoadFail, JobsConsistent
  <2>3. change[b] \in Owed /\ Owed' = Owed \ {change[b]}
    BY <2>2, <1>a, OwedWithout
  <2> QED  BY <2>1, <2>2, <2>3 DEF Feed!Abandon
<1>5. ASSUME NEW b \in Updates, Broadcast(b)  PROVE \E c \in Owed : Feed!Publish(c)
  <2>1. /\ version \in Nat /\ version >= 1 /\ bpc[b] = "idle" /\ b \in Broadcasts
        /\ stamp \in [Broadcasts -> Nat]
        /\ bpc \in [Broadcasts -> {"idle", "stamped", "fanout", "done"}]
    BY <1>5 DEF Broadcast, UpdateStamp, PushIInv, IInv, TypeOK, StampBounded, Broadcasts
  <2>2. /\ version' = version + 1 /\ stamp'[b] = version + 1 /\ bpc'[b] = "stamped"
        /\ \A c \in Updates \ {b} : stamp'[c] = stamp[c] /\ bpc'[c] = bpc[c]
        /\ snap' = snap /\ partial' = partial /\ rev' = rev /\ change' = change
    BY <1>5, <2>1 DEF Broadcast, UpdateStamp, NextVersion, Broadcasts
  <2>3. /\ job[b] = "loaded" /\ job'[b] = "broadcasting"
        /\ \A c \in Updates \ {b} : job'[c] = job[c]
    BY <1>5, <1>a DEF Broadcast, JobsConsistent
  <2>4. change[b] \in Owed /\ Owed' = Owed \ {change[b]}
    BY <2>2, <2>3, <1>a, OwedWithout
  <2>5. snap[b] \in change[b] .. rev
    BY <2>3, <1>a DEF JobsConsistent
  <2>6. \A v \in 1 .. version - 1 : Published'[v] = Published[v]
    BY <2>1, <2>2, PublishedKept DEF Shown
  <2>7. Published'[version] = Shown(b)
    <3>1. PublishedAsStamped'
      BY PublishedValue, PTL
    <3>2. Published'[stamp'[b] - 1] = Shown(b)'
      BY <2>2, <3>1 DEF PublishedAsStamped
    <3> QED  BY <2>1, <2>2, <3>2 DEF Shown
  <2>8. /\ Published \in Seq(Snapshots) /\ Len(Published) = version - 1
        /\ Published' \in Seq(Snapshots) /\ Len(Published') = version
    <3>1. (Published \in Seq(Snapshots) /\ Len(Published) = version - 1)'
      BY PublishedIsSeq, PTL
    <3> QED  BY <2>1, <2>2, <3>1, PublishedIsSeq
  <2>9. Published' = Append(Published, Shown(b))
    <3> HIDE DEF Published
    <3>1. Shown(b) \in Snapshots
      BY <1>a DEF JobsConsistent, Shown, Snapshots
    <3>2. /\ Append(Published, Shown(b)) \in Seq(Snapshots)
          /\ Len(Append(Published, Shown(b))) = version
          /\ \A v \in 1 .. version - 1 : Append(Published, Shown(b))[v] = Published[v]
          /\ Append(Published, Shown(b))[version] = Shown(b)
      BY <2>1, <2>8, <3>1, AppendProperties
    <3>3. \A v \in 1 .. version : Published'[v] = Append(Published, Shown(b))[v]
      BY <2>1, <2>6, <2>7, <3>2
    <3> QED  BY <2>8, <3>2, <3>3, SeqEqual
  <2>10. Shown(b) = [rev |-> snap[b], whole |-> b \notin partial]
         /\ (b \notin partial) \in BOOLEAN
    BY DEF Shown
  <2> QED  BY <2>2, <2>4, <2>5, <2>9, <2>10 DEF Feed!Publish
<1>6. ASSUME NEW s \in Streams, FetchNext(s)  PROVE UNCHANGED <<rev, Owed, Published>>
  <2>1. UNCHANGED <<rev, job, change, snap, partial, version, stamp, bpc>>
    BY <1>6 DEF FetchNext, FetchLoad, FetchFail, FetchReply, jobs, vars, server, bcasts
  <2> QED  BY <2>1, PublishedSame DEF Owed, Shown
<1>7. CASE ServerNext
  <2>1. UNCHANGED <<rev, job, change, snap, partial, version, stamp>>
    BY <1>7, ServerStepKeepsJobs DEF PushIInv, jobs
  <2>2. \A c \in Updates : bpc'[c] = "idle" <=> bpc[c] = "idle"
    BY <2>1 DEF PushIInv, JobsConsistent
  <2> QED  BY <2>1, <2>2, PublishedSame DEF Owed, Shown
<1>8. CASE UNCHANGED pushVars
  <2>1. UNCHANGED <<rev, job, change, snap, partial, version, stamp, bpc>>
    BY <1>8 DEF pushVars, jobs, vars, server, bcasts
  <2> QED  BY <2>1, PublishedSame DEF Owed, Shown
<1> QED
  BY <1>1, <1>2, <1>3, <1>4, <1>5, <1>6, <1>7, <1>8, FetchersAssumption
     DEF PushNext, JobNext

(* The push pipeline, seen from the database and the version counter, is the
   feed: every version is a snapshot, whole or cut short, of a revision that
   contains the one notified change it answers, and never changes afterwards. *)
THEOREM PushImplementsFeed == PushSpec => ImplementsFeed
<1>1. PushInit => Feed!FeedInit
  BY FeedInitially
<1>2. PushIInv /\ PushIInv' /\ [PushNext]_pushVars => [Feed!FeedNext]_(Feed!feedVars)
  BY FeedStep
<1> QED  BY <1>1, <1>2, PushInductive, PTL DEF PushSpec, ImplementsFeed, Feed!FeedSpec
-----------------------------------------------------------------------------
(* The pushes that came one after the other.                               *)

(* BroadcastPurge is called by nobody.                                     *)
NoPurges == \A b \in Purges : bpc[b] = "idle"

OneUnderWay == \A b, c \in Updates : Unfinished(b) /\ Unfinished(c) => b = c

(* Stamped in the order of the snapshots; one that is loaded and not yet
   stamped has the newest snapshot. *)
SnapshotsInOrder ==
  \A b, c \in Updates :
    bpc[b] # "idle" =>
      /\ (bpc[c] # "idle" /\ stamp[b] =< stamp[c]) => snap[b] =< snap[c]
      /\ job[c] = "loaded" => snap[b] =< snap[c]

NewestUnderWay ==
  \A b \in Updates : bpc[b] \in {"stamped", "fanout"} => stamp[b] = version

(* A stream carries updates stamped since it registered, by their stamp.   *)
LogInOrder ==
  \A s \in Streams : \A j \in DOMAIN StreamLog(s) :
    /\ since[s] =< stamp[StreamLog(s)[j].id]
    /\ \A i \in DOMAIN StreamLog(s) :
         i =< j => stamp[StreamLog(s)[i].id] =< stamp[StreamLog(s)[j].id]

SerialInv ==
  /\ NoPurges
  /\ ~raced => OneUnderWay /\ SnapshotsInOrder /\ NewestUnderWay /\ LogInOrder
-----------------------------------------------------------------------------
LEMMA InitSerial == PushInit => SerialInv
<1>1. SUFFICES ASSUME PushInit
               PROVE  SerialInv
  OBVIOUS
<1>2. Init /\ \A s \in Streams : pc[s] = "idle"
  BY <1>1 DEF PushInit, Init
<1>3. \A s \in Streams : StreamLog(s) = <<>>
  BY <1>2, InitLog DEF LogInv, IdleUnlogged
<1>4. LogInOrder
  BY <1>3 DEF LogInOrder
<1>5. QED
  BY <1>1, <1>2, <1>4 DEF PushInit, Init, SerialInv, NoPurges, OneUnderWay, Unfinished,
                          SnapshotsInOrder, NewestUnderWay, Broadcasts

(* The steps that touch a broadcast are those of updates, and forward. *)
LEMMA UpdatesOnly ==
  ASSUME TypeOK, [PushNext]_pushVars
  PROVE  /\ \A b \in Purges : bpc'[b] = bpc[b]
         /\ \A b \in Updates : bpc[b] = "done" => bpc'[b] = "done"
<1>1. ASSUME NEW b \in Updates, Broadcast(b) \/ FanoutBegin(b) \/ FanoutEnd(b)
      PROVE  /\ \A c \in Broadcasts \ {b} : bpc'[c] = bpc[c]
             /\ bpc[b] # "done"
  <2>1. b \notin Purges /\ bpc \in [Broadcasts -> {"idle", "stamped", "fanout", "done"}]
    BY NamesAssumption DEF TypeOK
  <2>2. QED
    BY <1>1, <2>1 DEF Broadcast, UpdateStamp, FanoutBegin, FanoutEnd
<1>2. CASE UNCHANGED bpc
  BY <1>2
<1>3. CASE \E b \in Updates : Broadcast(b) \/ FanoutBegin(b) \/ FanoutEnd(b)
  BY <1>1, <1>3, NamesAssumption DEF Broadcasts
<1>4. QED
  BY <1>2, <1>3
     DEF PushNext, JobNext, Commit, CommitSilently, Notify, Load, LoadFail, FetchNext,
         FetchLoad, FetchFail, FetchReply, ServerNext, StreamNext, WatchRegister,
         WatchReceive, WatchSend, WatchSendError, WatchContextDone, WatchUnregister,
         Disconnect, FanoutOffer, pushVars, vars, bcasts

LEMMA NextNoPurges == TypeOK /\ NoPurges /\ [PushNext]_pushVars => NoPurges'
BY UpdatesOnly DEF NoPurges

(* The broadcasts: what a step does to the serial order. *)
LEMMA NextOrder ==
  ASSUME PushIInv, [PushNext]_pushVars, ~raced',
         OneUnderWay, SnapshotsInOrder, NewestUnderWay
  PROVE  OneUnderWay' /\ SnapshotsInOrder' /\ NewestUnderWay'
<1> USE DEF OneUnderWay, SnapshotsInOrder, NewestUnderWay, Unfinished
<1>a. /\ JobsConsistent /\ StampBounded /\ version \in Nat
      /\ stamp \in [Broadcasts -> Nat]
      /\ bpc \in [Broadcasts -> {"idle", "stamped", "fanout", "done"}]
      /\ Updates \subseteq Broadcasts
  BY DEF PushIInv, IInv, TypeOK, Broadcasts
<1>1. ASSUME NEW b \in Updates, Commit(b) \/ Notify(b) \/ LoadFail(b)
      PROVE  OneUnderWay' /\ SnapshotsInOrder' /\ NewestUnderWay'
  <2>1. /\ UNCHANGED <<bpc, stamp, version, snap>>
        /\ \A c \in Updates : /\ (job'[c] = "loaded") <=> (job[c] = "loaded")
                              /\ (job'[c] = "broadcasting") <=> (job[c] = "broadcasting")
    BY <1>1, <1>a DEF Commit, Notify, LoadFail, JobsConsistent, vars, server, bcasts
  <2>2. QED
    BY <2>1
<1>2. ASSUME NEW b \in Updates, Load(b)
      PROVE  OneUnderWay' /\ SnapshotsInOrder' /\ NewestUnderWay'
  <2>1. /\ \A c \in Updates : ~Unfinished(c)
        /\ job[b] = "spawned" /\ job'[b] = "loaded" /\ bpc[b] = "idle" /\ snap'[b] = rev
        /\ \A c \in Updates \ {b} : job'[c] = job[c] /\ snap'[c] = snap[c]
        /\ UNCHANGED <<bpc, stamp, version>>
    BY <1>2, <1>a DEF Load, Snapshot, JobsConsistent, vars, server, bcasts
  <2>2. \A c \in Updates : snap[c] =< rev /\ job[c] # "loaded"
    BY <2>1, <1>a DEF JobsConsistent
  <2>3. QED
    BY <2>1, <2>2
<1>3. ASSUME NEW b \in Updates, Broadcast(b)
      PROVE  OneUnderWay' /\ SnapshotsInOrder' /\ NewestUnderWay'
  <2>1. /\ job[b] = "loaded" /\ job'[b] = "broadcasting"
        /\ bpc[b] = "idle" /\ bpc'[b] = "stamped"
        /\ version' = version + 1 /\ stamp'[b] = version + 1 /\ UNCHANGED snap
        /\ \A c \in Updates \ {b} :
             job'[c] = job[c] /\ bpc'[c] = bpc[c] /\ stamp'[c] = stamp[c]
    BY <1>3, <1>a DEF Broadcast, UpdateStamp, NextVersion, JobsConsistent
  <2>2. \A c \in Updates \ {b} : bpc[c] \in {"idle", "done"} /\ job[c] # "loaded"
    BY <2>1, <1>a DEF JobsConsistent
  <2>3. \A c \in Updates : stamp[c] =< version
    BY <1>a DEF StampBounded
  <2>4. OneUnderWay' /\ NewestUnderWay'
    BY <2>1, <2>2, <1>a DEF JobsConsistent
  <2>5. SnapshotsInOrder'
    BY <2>1, <2>2, <2>3, <1>a DEF JobsConsistent
  <2>6. QED
    BY <2>4, <2>5
<1>4. CASE UNCHANGED <<bpc, stamp, version, snap, job>>
  BY <1>4
<1>5. CASE ServerNext
  <2>1. UNCHANGED <<version, stamp, snap, job>>
    BY <1>5, ServerStepKeepsJobs DEF PushIInv, jobs
  <2>2. \A c \in Updates :
          /\ (bpc'[c] = "idle") <=> (bpc[c] = "idle")
          /\ bpc[c] = "done" => bpc'[c] = "done"
          /\ bpc'[c] \in {"idle", "stamped", "fanout", "done"}
    <3>1. JobsConsistent'
      BY <1>5, ServerStepKeepsJobs DEF PushIInv
    <3>2. TypeOK'
      BY PushStepIsServerStep, NextTypeOK DEF PushIInv, IInv
    <3>3. TypeOK /\ [PushNext]_pushVars
      BY DEF PushIInv, IInv
    <3>4. \A c \in Updates : (bpc'[c] = "idle") <=> (bpc[c] = "idle")
      BY <1>a, <2>1, <3>1 DEF JobsConsistent
    <3>5. \A c \in Updates : bpc[c] = "done" => bpc'[c] = "done"
      BY <3>3, UpdatesOnly
    <3>6. \A c \in Updates : bpc'[c] \in {"idle", "stamped", "fanout", "done"}
      BY <1>a, <3>2 DEF TypeOK
    <3>7. QED
      BY <3>4, <3>5, <3>6
  <2>3. \A c \in Updates : bpc'[c] \in {"stamped", "fanout"} => bpc[c] \in {"stamped", "fanout"}
    BY <2>2, <1>a
  <2>4. QED
    BY <2>1, <2>2, <2>3
<1>6. QED
  BY <1>1, <1>2, <1>3, <1>4, <1>5
     DEF PushNext, JobNext, CommitSilently, FetchNext, FetchLoad, FetchFail, FetchReply,
         pushVars, vars, server, bcasts, jobs

(* The streams: an offer is of the newest version. *)
LEMMA NextLogInOrder ==
  ASSUME PushIInv, PushIInv', LogInv, NoPurges, [PushNext]_pushVars,
         OneUnderWay, NewestUnderWay, LogInOrder
  PROVE  LogInOrder'
<1>a. /\ TypeOK /\ TypeOK' /\ [Next]_vars /\ StampBounded /\ SinceBounded
      /\ stamp \in [Broadcasts -> Nat] /\ since \in [Streams -> Nat] /\ version \in Nat
  BY PushStepIsServerStep DEF PushIInv, IInv, TypeOK
<1>1. \A b \in Broadcasts : bpc[b] \in {"fanout", "done"} => stamp'[b] = stamp[b]
  BY <1>a DEF Next, StreamNext, WatchRegister, WatchReceive, WatchSend, WatchSendError,
              WatchContextDone, WatchUnregister, Disconnect, BroadcastNext, UpdateStamp,
              FanoutBegin, FanoutOffer, FanoutEnd, vars, bcasts
<1>2. \A s \in Streams : since'[s] = since[s] \/ (StreamLog(s) = <<>> /\ StreamLog(s)' = <<>>)
  <2>1. CASE \E r \in Streams, n \in Nodes : WatchRegister(r, n)
    <3>1. UNCHANGED <<delivered, hand, ch>>
      BY <2>1 DEF WatchRegister
    <3>2. \A s \in Streams : StreamLog(s)' = StreamLog(s)
      BY <3>1, LogSame
    <3>3. \A s \in Streams : since'[s] = since[s] \/ pc[s] = "idle"
      BY <2>1, <1>a DEF WatchRegister
    <3>4. QED
      BY <3>2, <3>3 DEF LogInv, IdleUnlogged
  <2>2. CASE UNCHANGED since
    BY <2>2
  <2>3. QED
    BY <1>a, <2>1, <2>2
       DEF Next, StreamNext, WatchReceive, WatchSend, WatchSendError, WatchContextDone,
           WatchUnregister, Disconnect, BroadcastNext, UpdateStamp, FanoutBegin,
           FanoutOffer, FanoutEnd, vars, history
<1>3. \A s \in Streams : \A i \in DOMAIN StreamLog(s) :
        /\ StreamLog(s)[i].id \in Broadcasts
        /\ stamp'[StreamLog(s)[i].id] = stamp[StreamLog(s)[i].id]
        /\ stamp[StreamLog(s)[i].id] =< version
  BY <1>1, <1>a DEF LogInv, LoggedVisited, StampBounded
<1>4. SUFFICES ASSUME NEW s \in Streams, NEW j \in DOMAIN StreamLog(s)'
               PROVE  /\ since'[s] =< stamp'[StreamLog(s)'[j].id]
                      /\ \A i \in DOMAIN StreamLog(s)' :
                           i =< j => stamp'[StreamLog(s)'[i].id] =< stamp'[StreamLog(s)'[j].id]
  BY DEF LogInOrder
<1>5. CASE StreamLog(s)' = StreamLog(s)
  BY <1>2, <1>3, <1>4, <1>5 DEF LogInOrder
<1>6. ASSUME NEW b \in Broadcasts, NEW n \in Nodes, FanoutOffer(b, n),
             StreamLog(s)' = Append(StreamLog(s), Message(b))
      PROVE  /\ since'[s] =< stamp'[StreamLog(s)'[j].id]
             /\ \A i \in DOMAIN StreamLog(s)' :
                  i =< j => stamp'[StreamLog(s)'[i].id] =< stamp'[StreamLog(s)'[j].id]
  <2>1. /\ b \in Updates /\ stamp[b] = version /\ UNCHANGED <<stamp, since>>
    BY <1>6 DEF FanoutOffer, NoPurges, NewestUnderWay, Broadcasts
  <2>2. /\ StreamLog(s) \in Seq(Messages) /\ Message(b) \in Messages
        /\ Message(b).id = b
    BY <1>a, LogTyped, MessageTyped DEF Message
  <2>3. /\ Len(StreamLog(s)) \in Nat
        /\ DOMAIN StreamLog(s) = 1 .. Len(StreamLog(s))
        /\ DOMAIN StreamLog(s)' = 1 .. Len(StreamLog(s)) + 1
        /\ \A i \in DOMAIN StreamLog(s) : StreamLog(s)'[i] = StreamLog(s)[i]
        /\ StreamLog(s)'[Len(StreamLog(s)) + 1] = Message(b)
    BY <1>6, <2>2, AppendElements, LenProperties
  <2>4. since[s] =< version
    BY <1>a DEF SinceBounded
  <2>5. CASE j = Len(StreamLog(s)) + 1
    <3>1. \A i \in DOMAIN StreamLog(s)' : stamp[StreamLog(s)'[i].id] =< version
      <4>1. \A i \in DOMAIN StreamLog(s) : stamp[StreamLog(s)'[i].id] =< version
        BY <1>3, <2>3
      <4>2. stamp[StreamLog(s)'[Len(StreamLog(s)) + 1].id] =< version
        BY <1>a, <2>1, <2>2, <2>3
      <4>3. QED
        BY <2>3, <4>1, <4>2
    <3>2. stamp[StreamLog(s)'[j].id] = version
      BY <2>1, <2>2, <2>3, <2>5
    <3>3. QED
      BY <2>1, <2>4, <3>1, <3>2
  <2>6. CASE j \in DOMAIN StreamLog(s)
    <3>1. \A i \in DOMAIN StreamLog(s)' : i =< j => i \in DOMAIN StreamLog(s)
      BY <2>3, <2>6
    <3>2. QED
      BY <2>1, <2>3, <2>6, <3>1 DEF LogInOrder
  <2>7. QED
    BY <1>4, <2>3, <2>5, <2>6
<1>7. QED
  BY <1>a, <1>4, <1>5, <1>6, LogStep

LEMMA NextSerial ==
  PushIInv /\ PushIInv' /\ LogInv /\ SerialInv /\ [PushNext]_pushVars => SerialInv'
<1>1. ASSUME PushIInv, [PushNext]_pushVars, raced
      PROVE  raced'
  BY <1>1, ServerStepKeepsJobs
     DEF PushNext, JobNext, Commit, CommitSilently, Notify, Load, LoadFail, Broadcast,
         FetchNext, FetchLoad, FetchFail, FetchReply, ServerNext, jobs, pushVars
<1>2. QED
  BY <1>1, NextNoPurges, NextOrder, NextLogInOrder DEF SerialInv, PushIInv, IInv

(* SerialInv holds in every state of every behaviour. *)
THEOREM SerialInductive == PushSpec => []SerialInv
<1>1. PushSpec => []LogInv
  BY PushImplementsServer, LogInductive, PTL
<1>2. QED
  BY <1>1, InitSerial, NextSerial, PushInductive, PTL DEF PushSpec
-----------------------------------------------------------------------------
(* Types.                                                                  *)

LEMMA InitPushTypes == PushInit => PushTypeOK
<1>1. SUFFICES ASSUME PushInit
               PROVE  PushTypeOK
  OBVIOUS
<1>2. TypeOK /\ version = 1 /\ rev = 0
  BY <1>1, InitTypeOK DEF PushInit, Init
<1>3. TypeOK /\ rev \in 0 .. MaxRev
  BY <1>2, MaxRevAssumption
<1>4. /\ raced \in BOOLEAN /\ subscribed \in SUBSET Streams
      /\ partial \in SUBSET Updates /\ fetchPartial \in SUBSET Streams
  BY <1>1 DEF PushInit
<1>5. /\ job \in [Updates -> {"idle", "committed", "spawned", "loaded", "failed",
                            "broadcasting"}]
      /\ change \in [Updates -> 0 .. rev] /\ snap \in [Updates -> 0 .. rev]
      /\ fetch \in [Streams -> {"idle", "loaded", "replied", "failed"}]
      /\ fetchRev \in [Streams -> 0 .. rev]
      /\ fetchVersion \in [Streams -> 0 .. version]
      /\ loadedAt \in [Updates -> 0 .. version]
      /\ fetchedAt \in [Streams -> 0 .. version]
  BY <1>1, <1>2 DEF PushInit
<1>6. \A b \in Updates : /\ job[b] = "idle" <=> change[b] = 0
                         /\ bpc[b] # "idle" <=> job[b] = "broadcasting"
  BY <1>1 DEF PushInit, Init, Broadcasts
<1>7. QED
  BY <1>3, <1>4, <1>5, <1>6 DEF PushTypeOK

LEMMA NextPushTypes ==
  ASSUME PushIInv, PushIInv', PushTypeOK, [PushNext]_pushVars
  PROVE  PushTypeOK'
<1>a. /\ rev \in Nat /\ rev' \in Nat /\ rev =< rev'
      /\ version \in Nat /\ version' \in Nat /\ version =< version'
  <2>1. version =< version' /\ version \in Nat /\ version' \in Nat
    BY PushStepIsServerStep, VersionGrows DEF PushIInv, IInv, TypeOK
  <2>2. rev =< rev'
    BY ServerStepKeepsJobs
       DEF PushIInv, JobsConsistent, PushNext, JobNext, Commit, CommitSilently, Notify, Load,
           LoadFail, Broadcast, FetchNext, FetchLoad, FetchFail, FetchReply, jobs, pushVars
  <2>3. QED
    BY <2>1, <2>2 DEF PushIInv, JobsConsistent
<1>1. rev' =< MaxRev
  BY ServerStepKeepsJobs, MaxRevAssumption
     DEF PushTypeOK, PushIInv, PushNext, JobNext, Commit, CommitSilently, Notify, Load,
         LoadFail, Broadcast, FetchNext, FetchLoad, FetchFail, FetchReply, jobs, pushVars
<1>2. change' \in [Updates -> 0 .. rev'] /\ snap' \in [Updates -> 0 .. rev']
  BY <1>a DEF PushIInv, JobsConsistent
<1>3. fetchRev' \in [Streams -> 0 .. rev']
  <2>1. CASE UNCHANGED fetchRev
    BY <1>a, <2>1 DEF PushTypeOK
  <2>2. CASE \E s \in Fetchers : fetchRev' = [fetchRev EXCEPT ![s] = rev] /\ rev' = rev
    <3>1. rev \in 0 .. rev /\ fetchRev \in [Streams -> 0 .. rev]
      BY <1>a DEF PushTypeOK
    <3>2. QED
      BY <2>2, <3>1
  <2>3. QED
    BY <2>1, <2>2
       DEF PushNext, JobNext, Commit, CommitSilently, Notify, Load, LoadFail, Broadcast,
           FetchNext, FetchLoad, FetchSnapshot, FetchFail, FetchReply, ServerNext,
           pushVars, fetches, jobs
<1>4. fetchVersion' \in [Streams -> 0 .. version']
  <2>1. CASE UNCHANGED fetchVersion
    BY <1>a, <2>1 DEF PushTypeOK
  <2>2. CASE \E s \in Fetchers :
               fetchVersion' = [fetchVersion EXCEPT ![s] = version] /\ version' = version
    <3>1. version \in 0 .. version /\ fetchVersion \in [Streams -> 0 .. version]
      BY <1>a DEF PushTypeOK
    <3>2. QED
      BY <2>2, <3>1
  <2>3. QED
    BY <2>1, <2>2
       DEF PushNext, JobNext, Commit, CommitSilently, Notify, Load, LoadFail, Broadcast,
           FetchNext, FetchLoad, FetchFail, FetchReply, ServerNext, pushVars, fetches,
           vars, server
<1>5. fetchedAt' \in [Streams -> 0 .. version']
  BY <1>a DEF PushIInv, FetchesConsistent
<1>6. loadedAt' \in [Updates -> 0 .. version']
  <2>1. CASE UNCHANGED loadedAt
    BY <1>a, <2>1 DEF PushTypeOK
  <2>2. CASE \E b \in Updates :
               loadedAt' = [loadedAt EXCEPT ![b] = version] /\ version' = version
    BY <1>a, <2>2 DEF PushTypeOK
  <2>3. QED
    BY <2>1, <2>2
       DEF PushNext, JobNext, Commit, CommitSilently, Notify, Load, LoadFail, Broadcast,
           FetchNext, FetchLoad, FetchFail, FetchReply, ServerNext, pushVars, jobs,
           vars, server
<1>7. raced' \in BOOLEAN
  <2>1. CASE UNCHANGED raced
    BY <2>1 DEF PushTypeOK
  <2>2. CASE \E b \in Updates : Load(b)
    BY <2>2 DEF Load
  <2>3. QED
    BY <2>1, <2>2
       DEF PushNext, JobNext, Commit, CommitSilently, Notify, LoadFail, Broadcast,
           FetchNext, FetchLoad, FetchFail, FetchReply, ServerNext, pushVars, jobs
<1>8. TypeOK' /\ JobsConsistent' /\ FetchesConsistent'
  BY DEF PushIInv, IInv
<1>9. partial' \subseteq Updates
  <2>1. CASE UNCHANGED partial
    BY <2>1 DEF PushTypeOK
  <2>2. CASE \E b \in Updates : partial' = partial \cup {b}
    BY <2>2 DEF PushTypeOK
  <2>3. QED
    BY <2>1, <2>2
       DEF PushNext, JobNext, Commit, CommitSilently, Notify, Load, LoadFail, Broadcast,
           FetchNext, FetchLoad, FetchFail, FetchReply, ServerNext, pushVars, jobs
<1>10. fetchPartial' \subseteq Streams
  <2>1. CASE UNCHANGED fetchPartial
    BY <2>1 DEF PushTypeOK
  <2>2. CASE \E s \in Fetchers : fetchPartial' = fetchPartial \cup {s}
    BY <2>2, FetchersAssumption DEF PushTypeOK
  <2>3. QED
    BY <2>1, <2>2
       DEF PushNext, JobNext, Commit, CommitSilently, Notify, Load, LoadFail, Broadcast,
           FetchNext, FetchLoad, FetchFail, FetchReply, ServerNext, pushVars, fetches
<1>11. QED
  BY <1>a, <1>1, <1>2, <1>3, <1>4, <1>5, <1>6, <1>7, <1>8, <1>9, <1>10
     DEF PushTypeOK, JobsConsistent, FetchesConsistent

(* Type correctness of the pipeline, whatever the number of requests. *)
THEOREM PushTypeCorrect == PushSpec => []PushTypeOK
BY InitPushTypes, NextPushTypes, PushInductive, PTL DEF PushSpec
-----------------------------------------------------------------------------
(* All of the log is delivered to an edge that has caught up. *)
LEMMA CaughtUpLog ==
  ASSUME TypeOK, NEW s \in Streams, CaughtUp(s)
  PROVE  StreamLog(s) = Sent(s)
<1>1. hand[s] = <<>> /\ ch[s] = <<>>
  BY DEF CaughtUp, TypeOK
<1>2. QED
  BY <1>1, LogTyped, SentTyped, ConcatEmptySeq

(* When the pushes came one after the other, an edge ends with the newest
   configuration any of them loaded: what was broadcast before its stream
   registered is not newer than what the stream carries, and the stream
   carries the rest in order. *)
THEOREM SerialPushesConverge == PushSpec => []SerialConverges
<1>1. PushIInv /\ SerialInv /\ LogInv => SerialConverges
  <2>1. SUFFICES ASSUME PushIInv, SerialInv, LogInv, NEW s \in Streams,
                        ~raced, CaughtUp(s), delivered[s] # <<>>,
                        NEW b \in Updates, Done(b)
                 PROVE  snap[b] =< snap[delivered[s][Len(delivered[s])].update.id]
    BY DEF SerialConverges
  <2> DEFINE last == delivered[s][Len(delivered[s])].update.id
             log == StreamLog(s)
  <2>2. /\ delivered[s] \in Seq([update : Messages, version : Nat])
        /\ Len(delivered[s]) \in Nat \ {0}
        /\ DOMAIN delivered[s] = 1 .. Len(delivered[s])
    <3>1. delivered[s] \in Seq([update : Messages, version : Nat])
      BY <2>1 DEF PushIInv, IInv, TypeOK
    <3>2. QED
      BY <2>1, <3>1, EmptySeq, LenProperties
  <2>3. /\ DOMAIN log = 1 .. Len(delivered[s])
        /\ \A i \in DOMAIN log : log[i].id = delivered[s][i].update.id
        /\ log[Len(delivered[s])].id = last
        /\ Len(delivered[s]) \in DOMAIN log
    BY <2>1, <2>2, CaughtUpLog DEF PushIInv, IInv, Sent
  <2>4. last \in Updates /\ bpc[last] # "idle"
    BY <2>1, <2>3 DEF LogInv, LoggedVisited, SerialInv, NoPurges, Broadcasts
  <2>5. SnapshotsInOrder /\ LogInOrder
    BY <2>1 DEF SerialInv
  <2>6. stamp[b] =< stamp[last]
    <3>1. CASE since[s] < stamp[b]
      <4>1. Carries(s, b)
        <5>1. SoleStreamsReached
          BY <2>1 DEF PushIInv, IInv, FanoutProgress, SoleStreamsReached
        <5>2. Open(s) /\ s \notin overlapped /\ dropped[s] = {}
          BY <2>1 DEF CaughtUp, Open
        <5>3. QED
          BY <2>1, <3>1, <5>1, <5>2 DEF SoleStreamsReached, Done
      <4>2. PICK i \in DOMAIN log : log[i].id = b
        <5>1. hand[s] = <<>> /\ ch[s] = <<>>
          BY <2>1 DEF CaughtUp, PushIInv, IInv, TypeOK
        <5>2. QED
          BY <2>2, <2>3, <4>1, <5>1 DEF Carries
      <4>3. i =< Len(delivered[s])
        BY <2>2, <2>3
      <4>4. QED
        BY <2>3, <2>5, <4>2, <4>3 DEF LogInOrder
    <3>2. CASE ~(since[s] < stamp[b])
      <4>1. since[s] =< stamp[last]
        BY <2>3, <2>5 DEF LogInOrder
      <4>2. since[s] \in Nat /\ stamp[b] \in Nat /\ stamp[last] \in Nat
        BY <2>1, <2>4 DEF PushIInv, IInv, TypeOK, Broadcasts
      <4>3. QED
        BY <3>2, <4>1, <4>2
    <3>3. QED
      BY <3>1, <3>2
  <2>7. bpc[b] # "idle"
    BY <2>1 DEF Done
  <2>8. QED
    BY <2>4, <2>5, <2>6, <2>7 DEF SnapshotsInOrder
<1>2. PushSpec => []LogInv
  BY PushImplementsServer, LogInductive, PTL
<1>3. QED
  BY <1>1, <1>2, SerialInductive, PushInductive, PTL

(* When the pushes came one after the other, the responses of a stream do too:
   by LogInOrder they are in the order of their stamps, no two of which are the
   same, and the snapshots follow the stamps. *)
THEOREM SerialPushesInOrder == PushSpec => []SerialInOrder
<1>1. PushIInv /\ SerialInv /\ LogInv /\ LoggedStamped => SerialInOrder
  <2>1. SUFFICES ASSUME PushIInv, SerialInv, LogInv, LoggedStamped, ~raced,
                        NEW s \in Streams, NEW i \in DOMAIN delivered[s],
                        NEW j \in DOMAIN delivered[s], i < j
                 PROVE  LET former == delivered[s][i].update
                            later == delivered[s][j].update
                        IN  /\ former.version < later.version
                            /\ snap[former.id] =< snap[later.id]
    BY DEF SerialInOrder
  <2> DEFINE b == delivered[s][i].update.id
             c == delivered[s][j].update.id
  <2>2. TypeOK /\ VersionsDense /\ SnapshotsInOrder /\ LogInOrder
    BY <2>1 DEF PushIInv, IInv, SerialInv
  <2>3. /\ i \in DOMAIN StreamLog(s) /\ StreamLog(s)[i] = delivered[s][i].update
        /\ j \in DOMAIN StreamLog(s) /\ StreamLog(s)[j] = delivered[s][j].update
    BY <2>2, SentFirst
  <2>4. b \in Updates /\ bpc[b] # "idle" /\ c \in Updates /\ bpc[c] # "idle"
    BY <2>1, <2>3 DEF LogInv, LoggedVisited, SerialInv, NoPurges, Broadcasts
  <2>5. i \in Nat /\ j \in Nat /\ i # j /\ i =< j
    <3>1. delivered[s] \in Seq([update : Messages, version : Nat])
      BY <2>2 DEF TypeOK
    <3>2. i \in Nat /\ j \in Nat
      BY <3>1, LenProperties
    <3>3. QED
      BY <2>1, <3>2
  <2>6. b # c
    BY <2>1, <2>3, <2>5 DEF LogInv, AtMostOncePerNode
  <2>7. stamp[b] =< stamp[c]
    BY <2>2, <2>3, <2>5 DEF LogInOrder
  <2>8. stamp[b] # stamp[c]
    BY <2>2, <2>4, <2>6 DEF VersionsDense
  <2>9. stamp[b] \in Nat /\ stamp[c] \in Nat
    BY <2>2, <2>4 DEF TypeOK, Broadcasts
  <2>10. /\ delivered[s][i].update.version = stamp[b]
         /\ delivered[s][j].update.version = stamp[c]
    BY <2>1, <2>3 DEF LoggedStamped
  <2>11. snap[b] =< snap[c]
    BY <2>2, <2>4, <2>7 DEF SnapshotsInOrder
  <2>12. QED
    BY <2>7, <2>8, <2>9, <2>10, <2>11
<1>2. PushSpec => [](LogInv /\ LoggedStamped)
  BY PushImplementsServer, LogInductive, StampsCarried, PTL
<1>3. QED
  BY <1>1, <1>2, SerialInductive, PushInductive, PTL
=============================================================================
