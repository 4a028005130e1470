----------------------------- MODULE ConfigPush -----------------------------
(***************************************************************************)
(* Configuration push from end to end: a REST handler commits a change,    *)
(* calls notifyConfigChange, and the goroutine it starts runs the closure  *)
(* main.go registered: LoadDomainConfigs, then BroadcastUpdate.  Edge      *)
(* nodes also pull the whole configuration with GetFullConfig.             *)
(*                                                                         *)
(* Composes EdgeServer with the database seen as a revision number: the    *)
(* count of statements that changed the tables LoadDomainConfigs reads.    *)
(* LoadDomainConfigs is one SELECT, so a snapshot is the revision at the   *)
(* moment it runs, or a part of that revision: when the connection breaks  *)
(* between two rows, what was read counts as everything (DomainConfigs).   *)
(* A request that changes the configuration, its goroutine and its         *)
(* BroadcastUpdate share one name, a member of Updates.                    *)
(* The deployment is one with grpc_listen set: the notifier is registered  *)
(* before the router serves the first request.  One life of the process: a *)
(* restart begins with no streams and version 1, and what it loses of the  *)
(* changes under way is in ConfigStore and ControlPlane.                   *)
(***************************************************************************)
EXTENDS EdgeServer

CONSTANTS
  MaxRev,       (* bound on the number of changes                          *)
  Fetchers,     (* streams whose edge node also calls GetFullConfig        *)
  LoadMayFail   (* whether the SELECT of LoadDomainConfigs may return an error
                   or break off unnoticed                                  *)

ASSUME MaxRevAssumption == MaxRev \in Nat
ASSUME FetchersAssumption == Fetchers \subseteq Streams
ASSUME LoadMayFailAssumption == LoadMayFail \in BOOLEAN

VARIABLES
  rev,          (* revision of the configuration in the database           *)
  job,          (* control state of each request and then of its goroutine *)
  change,       (* revision made by each request, 0 before                 *)
  snap,         (* revision each goroutine loaded, 0 before                *)
  partial,      (* goroutines that loaded only a part of it                *)
  fetch,        (* control state of the GetFullConfig call of the edge that
                   opens the stream                                        *)
  fetchRev,     (* revision that call loaded                               *)
  fetchPartial, (* streams whose call loaded only a part of it             *)
  fetchVersion  (* Server.version it replied with                          *)

(* History, read by the properties only. *)
VARIABLES
  loadedAt,     (* Server.version when the goroutine loaded                *)
  raced,        (* two goroutines were between load and end of fan-out     *)
  fetchedAt,    (* Server.version when GetFullConfig loaded                *)
  subscribed    (* streams that were open when their edge's fetch loaded   *)

jobs      == <<rev, job, change, snap, partial, loadedAt, raced>>
fetches   == <<fetch, fetchRev, fetchPartial, fetchVersion, fetchedAt, subscribed>>
pushVars  == <<vars, jobs, fetches>>

PushInit ==
  /\ Init
  /\ rev = 0
  /\ job = [b \in Updates |-> "idle"]
  /\ change = [b \in Updates |-> 0]
  /\ snap = [b \in Updates |-> 0]
  /\ partial = {}
  /\ loadedAt = [b \in Updates |-> 0]
  /\ raced = FALSE
  /\ fetch = [s \in Streams |-> "idle"]
  /\ fetchRev = [s \in Streams |-> 0]
  /\ fetchPartial = {}
  /\ fetchVersion = [s \in Streams |-> 0]
  /\ fetchedAt = [s \in Streams |-> 0]
  /\ subscribed = {}
-----------------------------------------------------------------------------
(* The statement of a domain or origin handler takes effect.               *)
Commit(b) ==
  /\ job[b] = "idle"
  /\ rev < MaxRev
  /\ rev' = rev + 1
  /\ change' = [change EXCEPT ![b] = rev + 1]
  /\ job' = [job EXCEPT ![b] = "committed"]
  /\ UNCHANGED <<vars, snap, partial, loadedAt, raced, fetches>>

(* The configuration changes and nobody is notified: VerifyHandler.Verify
   sets the status of a domain, or the statement of a handler takes effect, its
   reply is lost and the handler returns with an error. *)
CommitSilently ==
  /\ rev < MaxRev
  /\ rev' = rev + 1
  /\ UNCHANGED <<vars, job, change, snap, partial, loadedAt, raced, fetches>>

(* A bug: no goroutine for a change while another goroutine is on its way.  *)
NotifyCoalesced(b) ==
  /\ job[b] = "committed"
  /\ job' = [job EXCEPT ![b] = IF \E c \in Updates : job[c] \in {"spawned", "loaded"}
                              THEN "failed" ELSE "spawned"]
  /\ UNCHANGED <<vars, rev, change, snap, partial, loadedAt, raced, fetches>>

(* The response is written, then notifyConfigChange starts the goroutine.  *)
Notify(b) ==
  /\ job[b] = "committed"
  /\ job' = [job EXCEPT ![b] = "spawned"]
  /\ UNCHANGED <<vars, rev, change, snap, partial, loadedAt, raced, fetches>>

Unfinished(b) == job[b] \in {"loaded", "broadcasting"} /\ bpc[b] # "done"

SnapshotOfOwnChange(b) == change[b]        \* a bug: what the handler saw is pushed
SnapshotBeforeChange(b) == change[b] - 1   \* a bug: loaded before the statement

Snapshot(b) == rev

Load(b) ==
  /\ job[b] = "spawned"
  /\ job' = [job EXCEPT ![b] = "loaded"]
  /\ snap' = [snap EXCEPT ![b] = Snapshot(b)]
  /\ \/ UNCHANGED partial
     \/ LoadMayFail /\ partial' = partial \cup {b}
  /\ loadedAt' = [loadedAt EXCEPT ![b] = version]
  /\ raced' = (raced \/ \E c \in Updates : Unfinished(c))
  /\ UNCHANGED <<vars, rev, change, fetches>>

(* The error is logged and the goroutine returns: nobody retries.          *)
LoadFail(b) ==
  /\ LoadMayFail
  /\ job[b] = "spawned"
  /\ job' = [job EXCEPT ![b] = "failed"]
  /\ UNCHANGED <<vars, rev, change, snap, partial, loadedAt, raced, fetches>>

(* The goroutine enters BroadcastUpdate; EdgeServer takes it from there.   *)
Broadcast(b) ==
  /\ job[b] = "loaded"
  /\ UpdateStamp(b)
  /\ job' = [job EXCEPT ![b] = "broadcasting"]
  /\ UNCHANGED <<rev, change, snap, partial, loadedAt, raced, fetches>>
-----------------------------------------------------------------------------
(* GetFullConfig: LoadDomainConfigs, then Server.version without the lock. *)
FetchCached(s) == 0                        \* a bug: the configuration at startup

FetchSnapshot(s) == rev

FetchLoad(s) ==
  /\ fetch[s] = "idle"
  /\ fetch' = [fetch EXCEPT ![s] = "loaded"]
  /\ fetchRev' = [fetchRev EXCEPT ![s] = FetchSnapshot(s)]
  /\ \/ UNCHANGED fetchPartial
     \/ LoadMayFail /\ fetchPartial' = fetchPartial \cup {s}
  /\ fetchedAt' = [fetchedAt EXCEPT ![s] = version]
  /\ subscribed' = IF Open(s) THEN subscribed \cup {s} ELSE subscribed
  /\ UNCHANGED <<vars, jobs, fetchVersion>>

FetchFail(s) ==
  /\ LoadMayFail
  /\ fetch[s] = "idle"
  /\ fetch' = [fetch EXCEPT ![s] = "failed"]
  /\ UNCHANGED <<vars, jobs, fetchRev, fetchPartial, fetchVersion, fetchedAt, subscribed>>

FetchReply(s) ==
  /\ fetch[s] = "loaded"
  /\ fetch' = [fetch EXCEPT ![s] = "replied"]
  /\ fetchVersion' = [fetchVersion EXCEPT ![s] = version]
  /\ UNCHANGED <<vars, jobs, fetchRev, fetchPartial, fetchedAt, subscribed>>
-----------------------------------------------------------------------------
JobNext(b) == Commit(b) \/ Notify(b) \/ Load(b) \/ LoadFail(b) \/ Broadcast(b)

FetchNext(s) == FetchLoad(s) \/ FetchFail(s) \/ FetchReply(s)

(* The steps of EdgeServer, BroadcastUpdate being called by Broadcast only *)
(* and BroadcastPurge by no code of the repository.                        *)
ServerNext ==
  /\ \/ \E s \in Streams : StreamNext(s)
     \/ \E b \in Updates : \/ FanoutBegin(b)
                           \/ \E n \in Nodes : FanoutOffer(b, n)
                           \/ FanoutEnd(b)
  /\ UNCHANGED <<jobs, fetches>>

PushNext ==
  \/ \E b \in Updates : JobNext(b)
  \/ CommitSilently
  \/ \E s \in Fetchers : FetchNext(s)
  \/ ServerNext

PushSpec == PushInit /\ [][PushNext]_pushVars

(* The Go runtime runs the goroutines of notifyConfigChange.  Lock may be
   taken again and again by the fan-outs of others (strong fairness).  The
   edge server has its own fairness, and so do its fan-outs.               *)
PushFairness(b) ==
  /\ WF_pushVars(Notify(b))
  /\ WF_pushVars(Load(b))
  /\ SF_pushVars(Broadcast(b))

FairPushSpec ==
  /\ PushSpec
  /\ \A s \in Streams : StreamFairness(s)
  /\ \A b \in Updates : PushFairness(b) /\ FanoutFairness(b)
-----------------------------------------------------------------------------
(* Properties.                                                             *)

(* Types; a goroutine holds its change and its snapshot exactly from the
   steps that make them, and is in BroadcastUpdate when EdgeServer says so. *)
PushTypeOK ==
  /\ TypeOK
  /\ rev \in 0 .. MaxRev
  /\ job \in [Updates -> {"idle", "committed", "spawned", "loaded", "failed",
                         "broadcasting"}]
  /\ change \in [Updates -> 0 .. rev]
  /\ snap \in [Updates -> 0 .. rev]
  /\ fetch \in [Streams -> {"idle", "loaded", "replied", "failed"}]
  /\ fetchRev \in [Streams -> 0 .. rev]
  /\ fetchVersion \in [Streams -> 0 .. version]
  /\ loadedAt \in [Updates -> 0 .. version]
  /\ fetchedAt \in [Streams -> 0 .. version]
  /\ raced \in BOOLEAN
  /\ partial \in SUBSET Updates
  /\ fetchPartial \in SUBSET Streams
  /\ subscribed \in SUBSET Streams
  /\ \A b \in Updates : /\ job[b] = "idle" <=> change[b] = 0
                        /\ bpc[b] # "idle" <=> job[b] = "broadcasting"

Done(b) == bpc[b] = "done"

Quiet == \A b \in Updates : job[b] \in {"idle", "failed"} \/ Done(b)

(* The edge behind s got all there is to get.                              *)
CaughtUp(s) ==
  /\ pc[s] = "select" /\ ch[s] = <<>>
  /\ s \notin overlapped /\ dropped[s] = {}

(* When the pushes came one after the other, an edge that applies responses
   in the order it gets them ends with the newest revision any of them loaded,
   or the part of it that was read.  Without ~raced this is false: two
   goroutines of notifyConfigChange may load in one order and get their
   versions in the other. *)
SerialConverges ==
  \A s \in Streams :
    (Quiet /\ ~raced /\ CaughtUp(s) /\ delivered[s] # <<>>)
      => LET last == delivered[s][Len(delivered[s])].update.id
         IN  \A b \in Updates : Done(b) => snap[b] =< snap[last]

(* When the pushes came one after the other, so do the responses of a stream:
   each has a later version than the one before and a configuration that is not
   older.  An edge that refuses what is not newer than what it has then loses
   nothing.  With raced, two fan-outs may fill a channel against the order of
   their versions. *)
SerialInOrder ==
  ~raced =>
    \A s \in Streams : \A i, j \in DOMAIN delivered[s] :
      LET former == delivered[s][i].update
          later == delivered[s][j].update
      IN  i < j => former.version < later.version /\ snap[former.id] =< snap[later.id]

(* An edge that opens its WatchConfig stream first and calls GetFullConfig
   then misses nothing, provided that its load was not cut short: what a
   finished broadcast showed is in the full configuration, or on the stream, or
   was skipped because the channel was full.  It relates the database, the
   registry and the channels. *)
SubscribeThenFetch ==
  \A s \in subscribed \ fetchPartial, b \in Updates :
    (Done(b) /\ Open(s) /\ s \notin overlapped)
      => snap[b] =< fetchRev[s] \/ Carries(s, b) \/ b \in dropped[s]

(* GetFullConfig, whole or cut short, is not older than an update that had its
   version when it read the database.  The version in its reply is another
   matter: it is read later, and may be that of an update the reply does not
   contain. *)
FullConfigFresh ==
  \A s \in Streams, b \in Updates :
    (fetch[s] \in {"loaded", "replied"} /\ stamp[b] \in 1 .. fetchedAt[s])
      => snap[b] =< fetchRev[s]

(* While the process lives and the database answers, every change whose handler
   knows of it is in a complete configuration that is broadcast to the end
   ("notifyConfigChange", "go fn()"). *)
EveryChangeBroadcast ==
  \A b \in Updates :
    job[b] = "committed" ~>
      \E c \in Updates : Done(c) /\ c \notin partial /\ snap[c] >= change[b]

(* The push pipeline implements the feed: each BroadcastUpdate publishes the
   snapshot of the change that started it, under the next version. *)
Owed == {change[b] : b \in {c \in Updates : job[c] \in {"committed", "spawned", "loaded"}}}

Shown(b) == [rev |-> snap[b], whole |-> b \notin partial]

Published ==
  [v \in 1 .. version - 1 |-> Shown(CHOOSE b \in Updates : stamp[b] = v + 1)]

Feed == INSTANCE ConfigFeed WITH owed <- Owed, feed <- Published

ImplementsFeed == Feed!FeedSpec
=============================================================================
