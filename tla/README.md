# Verification of the EdgeFlow CDN control plane

TLA+ models of `cdn-control`, checked with TLC on small instances, and theorems
about them checked with TLAPS for every value of the constants. Paths below are
those of the repository.

## 1. The system

`cdn-control` is one Go process. A REST API (gin, behind JWT) edits the
configuration of a CDN in PostgreSQL; a gRPC server keeps a stream open to
every edge node and pushes the whole configuration to them after each change.

| Component | State | Operations | Where |
|---|---|---|---|
| Edge server | `edges` (node id -> channel), `version`, one goroutine and one channel per `WatchConfig` | `WatchConfig`, `GetFullConfig`, `BroadcastUpdate`, `BroadcastPurge`, `PurgeNotify`, `Heartbeat` | `grpc/service.go` |
| Configuration push | one goroutine per change | `notifyConfigChange`, the closure registered in `main` (load, then broadcast) | `handler/notifier.go`, `cmd/main.go` |
| Configuration store | tables `domains`, `origins`, `cache_rules`, `certificates` | create, update, delete; CNAME verification | `handler/{domain,origin,cache_rule,cert,verify}.go`, `db/db.go` |
| Domain configuration load | locals of one call | `LoadDomainConfigs` | `grpc/service.go` |
| Accounts | table `users`; tokens in the hands of their users | `InitAdmin`, `Login`, `Create`, `ChangePassword`, TOTP `Setup`/`Verify`/`Disable` | `handler/{auth,user,totp}.go`, `middleware/auth.go` |
| Webhooks | table `webhooks`, one goroutine per delivery | `Create`, `Delete`, `SendWebhook` (no caller yet) | `handler/webhook.go` |
| Audit trail | table `audit_logs`; one request goroutine | `AuditLog`: read the body, run the handler, INSERT | `middleware/audit.go` |
| Lifecycle | where `main` is, `notifierFn`, the connections of the pool | start-up order, graceful shutdown, exit | `cmd/main.go`, `db/db.go` |
| Purge tasks, nodes, statistics | tables `purge_tasks`, `nodes` | single statements; the dispatch to edges is a TODO | `handler/{purge,node,stats}.go` |

How they interact: a handler runs its SQL statement, answers the request and
calls `notifyConfigChange`, which starts a goroutine; the goroutine calls
`LoadDomainConfigs` (one SELECT over active domains and their origins) and then
`BroadcastUpdate`, which takes the next version under `mu` and offers the
message to every registered channel under `mu.RLock`, skipping the full ones.
`WatchConfig` of each node receives from its channel and sends. The database is
the only thing the REST side and the goroutines share; `mu`, `edges` and the
channels are what the goroutines and the streams share. `version` is also read
without the lock. Requests and goroutines compete for the connections of one
pool, which `main` closes at the end: a request takes a connection for its
statement and another, afterwards, for its row in `audit_logs`.

Hard behaviours, each listed with its line and its properties under `hazards`
in `PROJECT.json`: streams of one node that overlap when it reconnects;
channels at their capacity; a slow edge that blocks `Send`; unlocked reads of
`version`; goroutines of two changes that overtake one another; a load that
fails, or is cut short and taken for complete; a statement that takes effect
while its reply is lost; the gap between pull and push; verification under way of a delete or an
update; two-statement requests over one row; restarts between the statements;
copies of a webhook that arrive after the sender has given them up; a shutdown,
its deadline or a crash in the middle of requests and of their audit rows; a
pool with fewer connections than there are goroutines that want one.

What makes each component correct:

- *edge server*: the registry names running streams only; a broadcast reaches
  whoever was connected, at most once, and ends however slow the edges are;
  versions count the updates; a stream whose edge has gone returns.
- *push*: every change reaches a broadcast that contains it; an edge converges
  to the newest configuration and can combine pull and push without a gap.
- *store*: the edges are told of everything that changes what they serve, or it
  is known what may have escaped them and why;
  nothing is left of a deleted domain; a verification marks the domain it
  verified and does not put a disabled one back in service.
- *load*: the grouping of rows neither loses nor reorders.
- *accounts*: two-factor authentication asks for codes of a secret the user has
  confirmed; the start never collides with what earlier runs left;
- *webhooks*: every matching URL is tried until it confirms or has had its
  attempts; it gets an event again only when its answer did not arrive; a
  delivery ends;
- *lifecycle and audit*: no change is committed before the notifier is there;
  a shutdown loses no request it was in time for, and ends; what was answered
  or changed has its audit row, but for the failures the code accepts; nobody
  waits for a connection for ever.

## 2. Modules

| Module | Models |
|---|---|
| `EdgeServer` | registry, streams, fan-out, lock |
| `ConfigFeed` | abstract: what push promises, a feed of numbered snapshots |
| `ConfigPush` | commit, notify, load, broadcast and `GetFullConfig`; EXTENDS `EdgeServer`, implements `ConfigFeed` |
| `ServedConfig` | abstract: what the REST side promises of the configuration it serves |
| `ConfigStore` | the tables and the handlers that change them, verification; implements `ServedConfig` |
| `DomainConfigs` | the loop of `LoadDomainConfigs` |
| `Accounts` | users, tokens, the start, two-factor authentication |
| `EventDelivery` | abstract: what `SendWebhook` promises of an event and a receiver |
| `Webhooks` | registrations, `SendWebhook` and its deliveries; implements `EventDelivery` |
| `ControlPlane` | `main` from start to exit, the pool, a request on its way through `AuditLog` and its handler, the goroutines of `notifyConfigChange` as users of the pool |
| `EdgeServerProofs`, `EdgeServerLogProofs` | theorems about `EdgeServer` |
| `ConfigPushProofs` | theorems about `ConfigPush` |
| `ConfigStoreProofs`, `DomainConfigsProofs`, `AccountsProofs`, `WebhooksProofs`, `ControlPlaneProofs` | theorems about the module each is named for |
| `MC*` | instances: model values, symmetry, the final state of a finite instance |

### EdgeServer

Every call of `WatchConfig` is a process in `Streams`, every call of
`BroadcastUpdate` one in `Updates`, of `BroadcastPurge` one in `Purges`. A
channel is named by the stream that reads it, so `edges[n]` is a stream or
`None`. The actions, in the order of the code:

| Code | Action |
|---|---|
| `WatchConfig` 99-102 | `WatchRegister` |
| receive, 115 | `WatchReceive` |
| `stream.Send` 116-121 | `WatchSend`, `WatchSendError` |
| `Context().Done()` 122 | `WatchContextDone` |
| deferred function 104-109 | `WatchUnregister` |
| `BroadcastUpdate` 146-149 | `UpdateStamp` |
| 157-159 | `FanoutBegin` |
| one iteration, 160-164 | `FanoutOffer` |
| `RUnlock` | `FanoutEnd` |

Sections under `Lock` contain no blocking call and are one action; they need
`LockFree`, no fan-out in progress. Fan-outs take `RLock`, may overlap, and are
cut at each channel operation. The unlocked read of `version` at line 118
happens somewhere between the receive and the send: the model sends any value
`version` had in that interval (`seen .. version`). A broken connection is
`Disconnect`, at any moment. `BroadcastPurge` has no caller in the repository:
the module has it, `ConfigPush` does not use it.

### ConfigPush

The database is a revision number: a change is `rev + 1`, a load copies `rev`.
`LoadDomainConfigs` does not ask `rows.Err()`, so a load, by a goroutine or by
`GetFullConfig`, may also return a part of the revision with no error: the
goroutine is then in `partial`, the call in `fetchPartial`, and all goes on as if
the configuration were complete, as in the code.
The request, its goroutine and its `BroadcastUpdate` share one name. `Commit`
and `Notify` are the two halves of a handler, `Load`/`LoadFail` and `Broadcast`
those of the closure in `main`, `FetchLoad`, `FetchReply` those of
`GetFullConfig` (the version is read after the load). `CommitSilently` is
`Verify`, and any statement that takes effect while its reply is lost: the handler
gets an error and returns before `notifyConfigChange`. `ConfigFeed` says what of
this an edge operator relies on: every notified change owes the feed a snapshot
taken after it, whole or cut short, or the load fails and it is abandoned;
versions are places in the feed. The refinement maps `owed` to the changes whose
goroutine has not entered `BroadcastUpdate` and `feed` to the snapshots in the
order of `stamp`, each with whether it is whole. The module is one life of the
process; restarts are in `ConfigStore` and `ControlPlane`.

### ConfigStore

One action per handler, the statement together with the notification (the
interleavings of load and broadcast are `ConfigPush`'s). A statement that takes
effect is followed by `TellEdges`: `NotifyConfigChange`, or `ReplyLost`, where the
handler saw an error and told nobody. Rows are functions from ids; ids come from
a sequence that never goes back. `Verify` is two steps with the DNS lookup in
between. `pending` counts the notifications whose goroutine has not loaded;
`pushed` is what the latest of them loaded, all rows of `LoadDomainConfigs` or,
by `CutShort`, those up to some place in `ORDER BY d.domain, o.priority`. `Restart`
is the end of the process at any moment, between a commit and `go fn()` too, and
its next start: the tables stay, notifications and verifications do not. Names are
numbers because the cut of a load depends on their order. `port`, `weight`,
`protocol`, `cname` and the contents of rules and certificates are left out:
nothing modelled depends on them.

`missed` says what may have escaped the edges since the latest complete load:
`"error"` (a load failed, a reply was lost or the process was started again),
`"cut"` (the latest load was cut short), `"verified"` (a verification changed a
status). `PushedIsCurrent` holds with these exceptions and no others.

`ServedConfig` is what the rest of the system may rely on without knowing the
tables: the configuration is a set of rows, each with a host, and changes under one
host at a time, with a notification (`Announce`), with an error to the client
(`Unheard`), or by a host that leaves it as a whole (`TakeOut`); a notification is
answered once, by the configuration of that moment (`Answer`), by a part of it
(`AnswerPart`) or not at all (`Lose`, `Restart`); and all but `Announce` and `Answer`
are recorded in `missed`. The refinement maps `served` to `LoadDomainConfigs`,
`owed` to `pending` and `Hosts` to `Names`. `VerifyMark` is the only `TakeOut`, and
by the status it writes it can never put a host in.

### DomainConfigs

Every result the SELECT can give up to a length, then the loop a row at a time,
with `Scan` failing at any row and the connection breaking between any two.

### Accounts

`ChangePassword`, `Verify` and `Disable` are a read with its checks and a write;
`Restart` may fall anywhere. `Validate(code, secret)`, the TOTP library, is
modelled by what it compares: a code stands for the secret it was computed from,
the empty one (`NoSecret`) included, which is a key like any other to the library.
Only `Verify` refuses an empty secret before it looks at the code. The time window of
codes is left out, a rejected request changes nothing.

### Webhooks

The rows `SendWebhook` reads are any subset of the matching ones: `Scan` may
fail and the connection break, and both end the loop with no error left for
anyone. Each row read is a *delivery*, named by the call and the id of the hook, a
process with the loop of lines 154-168: `Post` sends a copy, `Answered` gets its
status, `PostError` is `client.Post` with an error, at the latest by `Timeout`.
A copy travels on its own (`Receive`, which is the receiver's and not this
program's) and may be accepted after `PostError`; that is how a receiver gets
an event twice. Registrations are made and deleted meanwhile and do not
stop deliveries that have begun. The pauses of 1 and 2 seconds are stutters.

`EventDelivery` has of all this only how many copies were sent, which of them the
receiver accepted, and the outcome. A delivery is `open` while its goroutine is in
the loop, then `confirmed` or `failed`; copies are sent while it is open and there
are attempts left, it is confirmed only over a copy that was accepted and failed
only when the attempts are used up.

### ControlPlane

`main` is a program counter over `cmd/main.go`: `Start` (25-49), `StartGrpc`
(51-72), `StartHTTP` (74-89), `AwaitSignal`, `Signal` (the start of
`srv.Shutdown`), `ShutdownReturns` or `ShutdownTimesOut` (the 15 seconds), and
`Exit`, which is `pool.Close` waiting for the connections in use and the return
of `main`. `Crash` may fall anywhere, a restart follows. The gRPC server is never
stopped, so it appears only as the reason why `notifierFn` is set and why
`log.Fatalf` may end the process.

A request is a goroutine with the program counter of `AuditLog` around a
handler of one statement: `Accept`, `ReadBody`, (`Reject` | `BeginStatement`,
`EndStatement`), `BeginAudit`, `EndAudit`, `Answer`. It holds a connection of the
pool in `statement` and in `inserting` and nowhere else: `QueryRow(...).Scan` and
`Exec` give it back before they return. `Refuse...` is `Acquire` after
`pool.Close`. `CommitChange` is the statement of a handler that will notify, and
`Notify`, a step of its own, its response and `notifyConfigChange`, which starts a
`job`: a crash, or the exit after the deadline of a shutdown, may come between the
two. `CommitTask` is a handler that does not notify, such as `createTask` of
`handler/purge.go`. `FailStatement` is an error the handler gets, with or without
the effect of the statement (`applied` and `unheard`). The `job` here is only what it holds of the pool; what it
loads and broadcasts is `ConfigPush`'s, whose `Commit` and `Notify` are this
`CommitChange` and `Notify` and whose `LoadFail` includes this `RefuseLoad`.

History variables (`overlapped`, `dropped`, `since`, `raced`, `loadedAt`,
`fetchedAt`, `subscribed`, `missed`, `disabled`, `confirmed`,
`renewed`, `cut`, `confirmed` and `unanswered` of a delivery, and the `marks` of a
request) are read by properties only, never by a guard; `matched` also says
whether a call has been made.

## 3. Runs

| Run | Instance | Checks |
|---|---|---|
| `edge_server` | 2 nodes, 3 streams, an update and a purge, capacity 1 | `TypeOK`, `NoDeadRegistration`, `SoleStreamsReached`, `AtMostOncePerNode` |
| `edge_reconnect` | 1 node, 2 streams, 1 update | `ConnectedNodesReached`, violated |
| `config_push` | 1 stream that also pulls, 2 requests, 2 revisions, loads may fail or be cut short | `PushTypeOK`, `VersionsDense`, `EnvelopeNotOlder`, `EnvelopesAscend`, `SerialConverges`, `SerialInOrder`, `SubscribeThenFetch`, `FullConfigFresh`, `ImplementsFeed` |
| `config_push_live` | the same without pull or failing loads, with fairness | `EveryChangeBroadcast`, `FanoutNeverBlocks`, `DisconnectedReturns` |
| `store` | 2 domain ids and names, 2 origins and addresses, a rule or a certificate, 1 verification, 1 notification not yet loaded; lost replies, cut and failed loads, restarts | `StoreTypeOK`, `PushedIsCurrent`, `DisabledNotServed`, `NoOrphans`, `VerifyHitsItsDomain`, `ImplementsServed` |
| `store_verify` | the same with 1 origin and address, without rules and certificates | `NotifiedOfEveryChange`, violated |
| `load_group` | all sorted results of up to 4 rows over 3 hosts, 2 origins, 2 priorities | `LoadTypeOK`, `GroupedInOrder` |
| `load_complete` | results of up to 2 rows | `ReturnedIsComplete`, violated |
| `accounts` | 2 users, 2 passwords, 2 requests under way, 2 secrets | `AccountsTypeOK`, `EnabledIsConfirmed`, `InitAdminFindsNameFree`, `TokensAreCurrent` |
| `accounts_disable` | 1 user | `DisableDisables`, violated |
| `webhooks` | 1 owner, 1 event, 1 call, 2 hooks, 3 attempts, with fairness | `HooksTypeOK`, `DuplicatesLostAnswers`, `MatchedAreTried`, `DeliveriesEnd`, `ImplementsDelivery` |
| `control_plane` | a change and a task, a pool of 1 connection, gRPC on, with fairness | `CPTypeOK`, `ChangesFindNotifier`, `ShutdownDrains`, `AnsweredIsLogged`, `RequestsEnd`, `ShutdownEnds` |

Bounds. Capacity 1 instead of 100 makes a channel full after one message, the
only thing the code asks of it. Three streams are an old stream of a node, the
one that replaces it, and either the one that comes after the deferred delete
or a stream of another node. An update and a purge, or two updates in
`config_push`, are enough for two fan-outs to overlap and for two goroutines to
overtake one another. Two domain ids allow a delete and a re-creation under the
same name, while a verification of the first is under way. Two origins may be of one
domain, so that a load is cut within a host, or of two, so that it is cut between
hosts; a change of an origin is seen by its address, and the addresses are
symmetric. A rule or a certificate is enough for the cascade, which treats the
tables alike. With one notification at most that is not yet loaded, a request
waits for it unless its reply is lost; with more, the last of their loads sees
everything before it, and the theorems have no such bound. Two verifications mark
in two steps, in some order. Four rows hold a host with several origins before,
between and after those of another. Two requests under way are a `Verify` and the one write that
falls between its statements. Two deliveries of one call are enough for one to
fail while the other must go on, and three attempts are the code's number. With
one connection two requests and a load want it at once; a pool of more
is only less contended, and process runs are not bounded: the process may
start again as often as it likes, a request happens once. The theorems of section 5
have no bounds.

Deadlock is checked where a finite instance has a single way to be finished
(`Finished` in the MC module), in `accounts` and in `control_plane`; it is off in
`config_push_live` (the fair specification has no `Finished` step), in the
store and in `webhooks` (ids run out) and in `load_*` (the function returns).

### What the violated runs show

1. `edge_reconnect`: an edge reconnects, its old `WatchConfig` notices the loss
   afterwards and its deferred `delete(s.edges, req.NodeId)` removes the *new*
   channel. The new stream stays open and gets nothing until it is opened again.
   `SoleStreamsReached` is what remains true.
2. `store_verify`: a successful `Verify` writes `verified`, which takes the
   domain out of `WHERE d.status = 'active'`, without `notifyConfigChange`.
3. `load_complete`: `rows.Err()` is not asked, a broken connection gives a
   shorter configuration that is then pushed as the full one. `ConfigStore` and
   `ConfigPush` have such loads: what `PushedIsCurrent`, `ImplementsServed`,
   `ImplementsFeed` and `SubscribeThenFetch` still promise then is that the part is
   one of the configuration of that moment, and that the next complete load
   makes up for it.
4. `accounts_disable`: a `Verify` that has read the row before `Disable` writes
   it sets the flag again, over an empty secret.

More, about which the documents say nothing definite, can be read off the
models. `SerialConverges` needs `~raced`: two overlapping pushes may load in one
order and be numbered in the other, so the highest version carries an old
configuration. So does `SerialInOrder`: their fan-outs may fill a channel against
the order of their versions, so `Version` of the responses ascends along a stream
(`EnvelopesAscend`) while the version inside the updates does not. `FullConfigFresh` speaks of the version at the load, not of the
later one the reply carries. `UpdateOrigin` and `DeleteOrigin` take no domain: a
request under the path of another domain succeeds. `Setup` replaces the secret of
a user who has two-factor authentication on, and the new one is asked for at the
next login although no code of it was shown: the users in `renewed`, whom
`EnabledIsConfirmed` leaves out.

`AuditLog` "logs all non-GET requests" (`middleware/audit.go:13`) but for the cases
`AnsweredIsLogged` excepts: a crash, a shutdown whose deadline has passed, an
INSERT that fails, as it does for a body that is not JSON (`details` is `JSONB`)
even when the request was otherwise answered with 400. Requests that `JWTAuth`
refuses, and `login`, never reach it. "Graceful shutdown with 15s timeout"
(`cmd/main.go:97`) bounds `srv.Shutdown`; `pool.Close` after it waits for the
connections in use without a limit, which is why `ShutdownEnds` rests on the
database's answers. The goroutines of `notifyConfigChange` are not waited for: a
change committed in time may find the pool closed at its load, and no edge
hears of it before the next change or its next `GetFullConfig`. The same goes for
a change committed just before the process is killed, and for one whose reply is
lost (`handler/domain.go:116` and the other handlers): these are the exceptions of
`ChangesFindNotifier` and, as `"error"`, of `PushedIsCurrent`.

## 4. Fairness

The Go scheduler runs runnable goroutines: weak fairness on the steps of
broadcasts and of the goroutines of notifications, on leaving `select` when it
has a ready case (not on which one), and on the failure of `Send` once the
context is done, which grpc-go guarantees. `Lock` is enabled and disabled by the
fan-outs of others; `sync.RWMutex` lets no new reader pass a waiting writer, so
strong fairness on `WatchUnregister` and on the entry of `BroadcastUpdate`.
Nothing is assumed of `WatchSend`: flow control may block a `Send` for as long
as the edge does not read. Nothing is assumed of edges, of requests or of
disconnections.

A delivery of `Webhooks` moves: `client.Post` returns, with a status or an error,
because the client has a `Timeout` of 10 seconds (`Answered \/ PostError`, weakly
fair: which one is open). Nothing is assumed of receivers.

In `ControlPlane` the statements end (the database answers, with an error at
worst), `srv.Shutdown` returns by its deadline, and `pgxpool` hands free
connections to the waiting goroutines in the order they came: `BeginStatement`,
`BeginAudit` and `BeginLoad` are enabled and disabled by what others hold, so
their fairness is strong. Nothing is assumed of `ReadBody`: a client may never
send its body, and only the deadline of the shutdown ends such a request. Nothing
is assumed of signals, crashes or starts.

## 5. Proofs

A theorem is proved for every value of the constants that the assumptions of
its module allow: the capacity is a positive natural number, `None` is no stream,
updates and purges are disjoint (`EdgeServer`); the bound on revisions is a
natural number, fetchers are streams, `LoadMayFail` is a Boolean (`ConfigPush`);
names and priorities are natural numbers and 0 is a priority, every table has its
bound on ids, rules and certificates one in common, some notification may be pending, the absent field is no address and no status
(`ConfigStore`); hosts are numbered in the order of the collation, priorities are
integers (`DomainConfigs`); `Admin` is a user and the default password a password
(`Accounts`); there is at least one attempt (`Webhooks`); changes and tasks are
finite and disjoint sets, and the pool has at least one connection
(`ControlPlane`). The bounds on rows, secrets and hooks that these modules need for
TLC are natural numbers. Nothing is assumed of how many there are of anything.

Every safety invariant that a passing run checks is proved, and so are the three
refinements, of `ConfigFeed`, `ServedConfig` and `EventDelivery`.

`EdgeServerProofs`. `IInv` is the conjunction of `TypeOK` and

- `Registry`: the stream registered for a node is live and of that node, two
  live streams of one node are both in `overlapped`, and a live stream that is
  not in `overlapped` is registered. This last part is what makes
  `SoleStreamsReached` inductive: a broadcast that begins finds the stream;
- `StampBounded`, `SinceBounded`: numbers are given out below `version`, so
  `since[s] < stamp[b]` cannot become true after the stream missed the
  broadcast;
- `FanoutProgress`: while a fan-out runs and when it is done, a sole stream that
  registered before is still a target, carries the message, or dropped it;
- `CarriedBounded`, `EnvelopeNotOlder`: a message carries the stamp of its
  broadcast, at most the version read after it was received;
- `EnvelopesBounded`: no envelope has a version above the present one, nor, while a
  send is under way, above `seen`, the value at its receive, which makes
  `EnvelopesAscend` inductive: what is sent next is at least `seen`;
- `VersionsDense`.

Each part has its lemma `Init => Part` and its step lemma, one step per action;
`NextIInv` puts them together, `Inductive` is `Spec => []IInv`, and
`TypeCorrect`, `RegistryAlive`, `BroadcastReaches`, `VersionsCount`,
`EnvelopeCorrect` and `EnvelopesNeverGoBack` are read off it. Facts about `Append` and `Tail` that the
parts about channels need are lemmas of their own.

`ConfigPushProofs`. `PushStepIsServerStep` shows that a step of the composition
is a step of the edge server or leaves it alone, hence `PushImplementsServer`,
and `IInv` holds in the composition. `PushIInv` adds what ties goroutines to
broadcasts (`JobsConsistent`: a snapshot is at least the change that caused it,
a stamp belongs to a goroutine that has loaded) and fetches to both
(`FetchesConsistent`: a broadcast that had its version when the fetch loaded
shows nothing the fetch does not contain, and a stream counted as subscribed had
registered by then). `FullConfigNotStale` is part of it. For
`SubscribersMissNothing`, a finished broadcast either had its version when the
fetch loaded, or got it later and so after the stream registered, and then
`SoleStreamsReached` gives the rest.
`PushImplementsFeed` is the refinement: the version order given by
`VersionsDense` makes `Published` a sequence to which `Broadcast` appends, and
every other step is a change, an abandoned change or a stutter.

`EdgeServerLogProofs`. `AtMostOncePerNode` speaks of `StreamLog`, what went
through a channel in order: what the edge has, what is in hand, what waits.
`LogStep` shows that a receive and a send leave the log as it is and that only
`FanoutOffer` appends to it. `LogInv` adds `LoggedVisited`, a broadcast in the log
of a stream has no visit to the stream's node left: what an offer appends is then
new to every log of the node. `NodesToldOnce` is read off it. `LoggedStamped`, a
logged update has the version its broadcast took, needs only that stamps do not
change; the messages that were delivered are the first part of the log.

The second half of `ConfigPushProofs` is about pushes that do not overlap.
`SerialInv` says, as long as `raced` is false, that one
goroutine at most is between its load and the end of its fan-out, that versions
follow snapshots (`SnapshotsInOrder`), that the broadcast under way has the newest
version (`NewestUnderWay`) and hence that a stream carries updates in the order of
their stamps, none older than its registration (`LogInOrder`). For
`SerialPushesConverge` take a finished broadcast: if it was stamped after the
stream registered, the stream carries it (`SoleStreamsReached`) and what it
carries last is not older; if before, whatever the stream carries is newer.
`SerialPushesInOrder` is `LogInOrder` for the part of the log that was delivered,
with `LoggedStamped` for the versions the edge reads. `PushTypeCorrect` is here
too.

`ConfigStoreProofs`. `StoreInv` needs three parts beside the properties.
`VerifyBehind`: the id a verification holds is one its sequence has given, so no
later INSERT gets it, which with the names never changing is
`VerifyMarksItsOwn`. `OutOfService`: a domain that was disabled is gone or not
active, which a late `VerifyMark` keeps because it writes `verified`, and a new
domain because its id is new. `EdgesAreTold` has a case per kind of step: it changes
nothing that the edges see, or leaves a notification pending or a mark in
`missed` (`ToldIsCurrent`), or loads all or a part of what is there.
`NamesDiffer` is for `StoreImplementsServed`: no two domains share a name (the
UNIQUE column, kept by the INSERT and by names never changing): the rows of the
domain a verification marks are then exactly the rows of its host, which is what
`TakeOut` removes (`MarkTakesOut`). `OneHost` is the other half: a request about one
domain, or about an origin of it, leaves the rows of every other host as they are.

`DomainConfigsProofs`. `LoadInv` says where the loop stands: there is a *cut* of the
rows read so far into one block per host met, in the order of `order`, each block
not empty, of rows of that host, and equal to the host's entry in the map
(`IsCut`); and `order` ascends. A row either goes on with the last block
(`ScanSameHost`), because the rows are sorted and so its host is the last one met,
or begins a new one (`ScanNewHost`). That flattening the blocks gives the rows
back (`FlattenBlocks`) is an induction over the blocks. The library's induction
theorems take an operator as a parameter, which the provers cannot instantiate;
`SetInduction` states induction for a *set* and follows from the
well-foundedness of `<` on the naturals, and `FlattenSeqIs` unfolds the recursive
function behind `FlattenSeq`.

`AccountsProofs`. `AccountsInv` adds `PendingConfirmed`, what a `Verify` between
its statements is about to put in force was confirmed unless another request
overlapped, for `SecondFactorConfirmed`; and `AdminStays`, where there is a user
called `Admin` there is an admin, for `InitAdminSucceeds`: the count of admins,
which is what the code asks, then answers for the name, which is what the INSERT
needs.

`WebhooksProofs`. `HooksInv` is a statement about one delivery at a time.
`Settled`: a copy the sender has gone on from and that was accepted *or still
travels* had no answer; without the second half a copy accepted late would
break `DuplicatesExplained`. `Served` is `MatchedServed` for one delivery.
`HooksImplementDelivery` has a lemma per action: `PostSends`, `SuccessConfirms`,
`FailureGoesOn` (a refusal or an error is `GiveUp` after the last attempt and a
stutter before it), `ReceiveAccepts` and `CallOpens`, which needs that a call
finds its deliveries untouched and that a confirmed delivery has ended.

`ControlPlaneProofs`. `CPInv`: a process past its wiring has the notifier the
configuration asks for (`Wired`) and a request under way has such a process
(`Manned`), hence `NotifierInPlace`: `Notify` finds the notifier, and a process that
ends before it leaves the request with the mark of a crash or, by `Late`, of the
deadline; what is under way when the pool closes was
marked by the deadline (`Late`), hence `ShutdownIsGraceful`; `Fresh` and `Traced`
follow the marks of a request to the return of `AuditLog`, hence
`AuditComplete`; and the connections in use stay within the pool, by the
cardinalities of the sets of those that hold one.

Only model-checked: the liveness properties (`EveryChangeBroadcast`,
`FanoutNeverBlocks`, `DisconnectedReturns`, `DeliveriesEnd`, `RequestsEnd`,
`ShutdownEnds`), which rest on fairness and are outside the prover's reach, and the
four violated properties, which a counterexample settles.

## 6. Not modelled

- *Purge tasks* but for the request that stores one (`CommitTask`): nothing reads
  the row except `GetTask`, its status is never anything but `pending`, and the
  dispatch to edges is a TODO at `handler/purge.go:98`.
- *Nodes*: `UpdateStatus` is one UPDATE with a whitelist, in a table into which
  nothing inserts; `Heartbeat` does not write to it.
- *Statistics* and the `List`, `Get`, `Me`, `Status` handlers: reads of one statement.
  `Overview` (`handler/stats.go:36`) drops the error of its second count.
- The JSON codec and service descriptors, the configuration file and the API
  documentation: no state, and one caller each.
- `PurgeNotify` and `Heartbeat` log and answer. TLS, authentication of edges and
  HTTP are outside.
- What an edge does with the versions it gets, in particular after a restart of
  the control plane, which begins again at 1: the edges are another program.
- `cname` in `ConfigStore`: an Update of it during a verification has the same
  outcome as one after it.

## 7. Plan

Done: every module of section 2, the runs of section 3, a theorem for every safety
invariant and for every refinement.

What may follow: an abstract account of `ControlPlane` (a request is answered and
logged, or the process ended under it) and of `Accounts`, as refinements; an
instance in which `ConfigStore` takes the place of the revision number of
`ConfigPush`, `ServedConfig` being what the two have in common; a model of an edge,
once one is in the repository, that applies versions across a restart of the
control plane.
