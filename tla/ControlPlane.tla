---------------------------- MODULE ControlPlane ----------------------------
(***************************************************************************)
(* The process around the handlers: main (cmd/main.go) from start to exit, *)
(* the connections of the pool, and the way of a request through AuditLog  *)
(* (middleware/audit.go) and its handler.                                  *)
(*                                                                         *)
(* Requests are those that AuditLog logs: not a GET, and let through by    *)
(* JWTAuth, which comes first.  A handler is one statement here.  The      *)
(* answer is on its way to the client when all middleware has returned:    *)
(* net/http buffers a body of this size until then.  What a goroutine of   *)
(* notifyConfigChange does with its configuration is in ConfigPush.        *)
(***************************************************************************)
EXTENDS Naturals, FiniteSets

CONSTANTS
  Changes,   (* requests that change domains or origins                    *)
  Tasks,     (* requests that change a table the edges are not told of     *)
  MaxConns,  (* connections of the pool                                    *)
  Grpc       (* cfg.Server.GRPCListen is set                               *)

ASSUME RequestsAssumption ==
  Changes \cap Tasks = {} /\ IsFiniteSet(Changes) /\ IsFiniteSet(Tasks)
ASSUME PoolAssumption == MaxConns \in Nat \ {0}
ASSUME GrpcAssumption == Grpc \in BOOLEAN

Requests == Changes \cup Tasks

VARIABLES
  main,      (* where main is, "down" while there is no process            *)
  notifier,  (* notifierFn is set                                          *)
  req,       (* where each request is                                      *)
  job,       (* the goroutine of notifyConfigChange of each request        *)
  marks      (* what has become of each request: its statement is committed
                (applied), it has a row in audit_logs (logged); and, read by
                the properties only: the reply to its statement was lost
                (unheard), its INSERT there failed (unlogged), it found the
                pool closed (refused), it was under way when the shutdown
                timed out (overdue) or the process died (crashed)          *)

cpVars == <<main, notifier, req, job, marks>>

InFlight == {r \in Requests : req[r] \notin {"new", "answered", "aborted"}}

CPInit ==
  /\ main = "down"
  /\ notifier = FALSE
  /\ req = [r \in Requests |-> "new"]
  /\ job = [r \in Requests |-> "none"]
  /\ marks = [r \in Requests |-> {}]
-----------------------------------------------------------------------------
(* main.                                                                   *)

Step(from, to) == main = from /\ main' = to /\ UNCHANGED <<req, job>>

MarkInFlight(m) ==
  marks' = [r \in Requests |-> IF r \in InFlight THEN marks[r] \cup {m} ELSE marks[r]]

(* Configuration, connection, migrations and the default admin: a failure up
   to the migrations ends the process before anything else has happened. *)
Start == Step("down", "setup") /\ UNCHANGED <<notifier, marks>>

StartGrpc == Step("setup", "wired") /\ notifier' = Grpc /\ UNCHANGED marks

StartHTTP == Step("wired", "serving") /\ UNCHANGED <<notifier, marks>>

AwaitSignal == Step("serving", "waiting") /\ UNCHANGED <<notifier, marks>>

(* srv.Shutdown: no request is accepted from now on.                       *)
Signal == Step("waiting", "draining") /\ UNCHANGED <<notifier, marks>>

AtOnce == TRUE                               \* a bug: srv.Close, not srv.Shutdown

Drained == InFlight = {}

ShutdownReturns ==
  Step("draining", "closing") /\ Drained /\ UNCHANGED <<notifier, marks>>

NeverTimesOut == FALSE /\ UNCHANGED cpVars   \* a bug: Shutdown with no deadline

(* 15 seconds have passed.                                                 *)
ShutdownTimesOut ==
  Step("draining", "closing") /\ MarkInFlight("overdue") /\ UNCHANGED notifier

(* Goroutines end with the process, whatever they are doing.               *)
Die ==
  /\ main' = "down"
  /\ notifier' = FALSE
  /\ req' = [r \in Requests |-> IF r \in InFlight THEN "aborted" ELSE req[r]]
  /\ job' = [r \in Requests |-> IF job[r] = "none" THEN "none" ELSE "over"]

(* A connection each: the statements of requests, the loads of goroutines. *)
Querying == {r \in Requests : req[r] \in {"statement", "inserting"}}
Loading == {r \in Requests : job[r] = "loading"}

InUse == Cardinality(Querying) + Cardinality(Loading)

(* pool.Close waits for the connections that are in use, and main returns. *)
Exit == main = "closing" /\ InUse = 0 /\ Die /\ UNCHANGED marks

(* A kill, a signal before signal.Notify, or log.Fatalf of a server that
   cannot listen. *)
Crash == main # "down" /\ Die /\ MarkInFlight("crashed")
-----------------------------------------------------------------------------
(* The pool.  Acquire waits for a connection, and fails once it is closed. *)

PoolClosed == main = "closing"

AcquireOneMore == ~PoolClosed /\ InUse =< MaxConns   \* a bug: off by one
AcquireTwo == ~PoolClosed /\ InUse + 1 < MaxConns    \* a bug: while rows are open

Acquire == ~PoolClosed /\ InUse < MaxConns
-----------------------------------------------------------------------------
(* A request: AuditLog, the handler, AuditLog again.                       *)

Goto(r, from, to, mark) ==
  /\ req[r] = from
  /\ req' = [req EXCEPT ![r] = to]
  /\ marks' = [marks EXCEPT ![r] = @ \cup mark]
  /\ UNCHANGED <<main, notifier>>

AcceptingEarly == main \in {"setup", "serving", "waiting"}  \* a bug: before StartGrpc

Accepting == main \in {"serving", "waiting"}

Accept(r) == Accepting /\ Goto(r, "new", "reading", {}) /\ UNCHANGED job

(* io.ReadAll, for as long as the client takes.                            *)
ReadBody(r) == Goto(r, "reading", "handling", {}) /\ UNCHANGED job

(* A bug: only requests that succeeded are logged.                         *)
LoggedIfOk(ok) == IF ok THEN "handled" ELSE "over"

(* c.Next() returns to AuditLog whatever the handler answered.             *)
AfterHandler(ok) == "handled"

(* Malformed input: there is no statement.                                 *)
Reject(r) == Goto(r, "reading", AfterHandler(FALSE), {}) /\ UNCHANGED job

BeginStatement(r) == Acquire /\ Goto(r, "handling", "statement", {}) /\ UNCHANGED job

RefuseStatement(r) ==
  PoolClosed /\ Goto(r, "handling", AfterHandler(FALSE), {"refused"}) /\ UNCHANGED job

(* The handler gets an error: the statement had no effect, or it had and the
   reply was lost. *)
FailStatement(r) ==
  \E mark \in {{}, {"applied", "unheard"}} :
    Goto(r, "statement", AfterHandler(FALSE), mark) /\ UNCHANGED job

(* The statement of a domain or an origin has taken effect, and the handler
   knows.  Its connection is back in the pool. *)
CommitChange(r) ==
  r \in Changes /\ Goto(r, "statement", "committed", {"applied"}) /\ UNCHANGED job

(* The response, then notifyConfigChange.                                  *)
Notify(r) ==
  /\ Goto(r, "committed", AfterHandler(TRUE), {})
  /\ job' = [job EXCEPT ![r] = IF notifier THEN "spawned" ELSE "none"]

(* A purge or prefetch task: its row is stored, no edge is told.           *)
CommitTask(r) ==
  r \in Tasks /\ Goto(r, "statement", AfterHandler(TRUE), {"applied"}) /\ UNCHANGED job

BeginAudit(r) == Acquire /\ Goto(r, "handled", "inserting", {}) /\ UNCHANGED job

RefuseAudit(r) == PoolClosed /\ Goto(r, "handled", "over", {"refused"}) /\ UNCHANGED job

(* The INSERT, which the database refuses for a body that is not JSON.     *)
EndAudit(r) ==
  \E m \in {"logged", "unlogged"} : Goto(r, "inserting", "over", {m}) /\ UNCHANGED job

Answer(r) == Goto(r, "over", "answered", {}) /\ UNCHANGED job
-----------------------------------------------------------------------------
(* The goroutine of notifyConfigChange: nobody waits for it.               *)

JobStep(r, from, to) ==
  /\ job[r] = from
  /\ job' = [job EXCEPT ![r] = to]
  /\ UNCHANGED <<main, notifier, req, marks>>

BeginLoad(r) == Acquire /\ JobStep(r, "spawned", "loading")
RefuseLoad(r) == PoolClosed /\ JobStep(r, "spawned", "over")
EndLoad(r) == JobStep(r, "loading", "over")
-----------------------------------------------------------------------------
MainNext ==
  \/ Start \/ StartGrpc \/ StartHTTP \/ AwaitSignal
  \/ Signal \/ ShutdownReturns \/ ShutdownTimesOut \/ Exit \/ Crash

EndStatement(r) == FailStatement(r) \/ CommitChange(r) \/ CommitTask(r)

RequestNext(r) ==
  \/ Accept(r) \/ ReadBody(r) \/ Reject(r)
  \/ BeginStatement(r) \/ RefuseStatement(r) \/ EndStatement(r) \/ Notify(r)
  \/ BeginAudit(r) \/ RefuseAudit(r) \/ EndAudit(r) \/ Answer(r)

JobNext(r) == BeginLoad(r) \/ RefuseLoad(r) \/ EndLoad(r)

CPNext == MainNext \/ \E r \in Requests : RequestNext(r) \/ JobNext(r)

CPSpec == CPInit /\ [][CPNext]_cpVars

(* The database answers the statements it was given, the pool serves waiting
   goroutines in the order they came (strong fairness), and the scheduler
   runs those that can run.  Nothing is owed by clients and signals. *)
RequestFairness(r) ==
  /\ SF_cpVars(BeginStatement(r) \/ RefuseStatement(r))
  /\ SF_cpVars(BeginAudit(r) \/ RefuseAudit(r))
  /\ WF_cpVars(EndStatement(r))
  /\ WF_cpVars(Notify(r))
  /\ WF_cpVars(EndAudit(r))
  /\ WF_cpVars(Answer(r))
  /\ SF_cpVars(BeginLoad(r) \/ RefuseLoad(r))
  /\ WF_cpVars(EndLoad(r))

FairCPSpec ==
  /\ CPSpec
  /\ WF_cpVars(ShutdownReturns \/ ShutdownTimesOut)
  /\ WF_cpVars(Exit)
  /\ \A r \in Requests : RequestFairness(r)
-----------------------------------------------------------------------------
(* Properties.                                                             *)

KindsOK ==
  /\ main \in {"down", "setup", "wired", "serving", "waiting", "draining", "closing"}
  /\ notifier \in BOOLEAN
  /\ req \in [Requests -> {"new", "reading", "handling", "statement", "committed",
                          "handled", "inserting", "over", "answered", "aborted"}]
  /\ job \in [Requests -> {"none", "spawned", "loading", "over"}]
  /\ marks \in [Requests -> SUBSET {"applied", "unheard", "logged", "unlogged",
                                   "refused", "overdue", "crashed"}]

(* Types; no more connections than the pool has are in use, a request whose
   process has gone is not under way, and a notifier needs a process. *)
CPTypeOK ==
  /\ KindsOK
  /\ InUse =< MaxConns
  /\ main = "down" => InFlight = {} /\ ~notifier

(* No change is committed before the notifier is in place: with gRPC on, each
   one starts its goroutine, whichever start of the process it meets, unless
   its handler took it for a failure, or was about to notify when the process
   ended: killed, or gone when the 15 seconds of the shutdown were over. *)
ChangesFindNotifier ==
  Grpc => \A r \in Changes :
            "applied" \in marks[r] =>
              \/ job[r] # "none"
              \/ req[r] = "committed"
              \/ "unheard" \in marks[r]
              \/ req[r] = "aborted" /\ marks[r] \cap {"overdue", "crashed"} # {}

(* A shutdown loses no request it was in time for: only a request that was
   still under way when the 15 seconds ended, or when the process died, is
   left without an answer or finds the pool closed. *)
ShutdownDrains ==
  \A r \in Requests :
    ("refused" \in marks[r] \/ req[r] = "aborted") => marks[r] \cap {"overdue", "crashed"} # {}

(* "AuditLog is a Gin middleware that logs all non-GET requests to the
   audit_logs table" (middleware/audit.go:13), as far as it is true: a request
   that was answered, or whose change is in the database with nobody left to
   log it, has its row, unless the INSERT failed, the process died meanwhile or
   the shutdown timed out on it. *)
AnsweredIsLogged ==
  \A r \in Requests :
    (req[r] = "answered" \/ ("applied" \in marks[r] /\ r \notin InFlight))
      => marks[r] \cap {"logged", "unlogged", "overdue", "crashed"} # {}

(* A request that has been read is answered, or ends with the process, and
   what notifyConfigChange started comes to its end: nobody waits for a
   connection for ever, however few there are. *)
RequestsEnd ==
  \A r \in Requests :
    /\ req[r] = "handling" ~> req[r] \in {"answered", "aborted"}
    /\ job[r] = "spawned" ~> job[r] = "over"

(* A signal ends the process, even when a client never sends its body.     *)
ShutdownEnds == main = "draining" ~> main = "down"
=============================================================================
