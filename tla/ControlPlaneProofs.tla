------------------------- MODULE ControlPlaneProofs -------------------------
(***************************************************************************)
(* Safety of ControlPlane for any requests and any size of the pool.       *)
(*                                                                         *)
(* CPInv is inductive.  Manned says that a request under way has a process *)
(* that is past the wiring of the notifier, which ChangesFindNotifier      *)
(* needs when a handler notifies; Late says why a pool that is closed is   *)
(* found by requests only that the shutdown gave up, and why only those    *)
(* may end with main between their statement and their notification; Fresh *)
(* and Traced carry what AnsweredIsLogged says of finished requests back   *)
(* through their steps.                                                    *)
(***************************************************************************)
EXTENDS ControlPlane, FiniteSetTheorems, TLAPS

(* Once the servers run the notifier is what the configuration asks for. *)
Wired == main \notin {"down", "setup"} => notifier = Grpc

(* A request under way has a process whose servers run. *)
Manned == InFlight # {} => main \in {"serving", "waiting", "draining", "closing"}

(* When the pool closes, what is left was marked by the deadline. *)
Late == main = "closing" => \A r \in InFlight : "overdue" \in marks[r]

(* Nothing has happened to a request that was not accepted. *)
Fresh == \A r \in Requests : req[r] = "new" => marks[r] = {}

(* A request has been through its INSERT by the time AuditLog returns. *)
Traced ==
  \A r \in Requests : req[r] \in {"over", "answered"} =>
    marks[r] \cap {"logged", "unlogged", "overdue", "crashed"} # {}

(* A process that is not there has no notifier. *)
DownIsBare == main = "down" => ~notifier

CPInv ==
  /\ KindsOK
  /\ DownIsBare
  /\ Wired
  /\ Manned
  /\ Late
  /\ Fresh
  /\ Traced
  /\ ChangesFindNotifier
  /\ ShutdownDrains
  /\ InUse =< MaxConns
-----------------------------------------------------------------------------
(* Every step preserves the types. *)
LEMMA KindsStep ==
  ASSUME KindsOK, [CPNext]_cpVars
  PROVE  KindsOK'
<1>1. CASE Start
  BY <1>1 DEF Start, Step, KindsOK
<1>2. CASE StartGrpc
  BY <1>2, GrpcAssumption DEF StartGrpc, Step, KindsOK
<1>3. CASE StartHTTP
  BY <1>3 DEF StartHTTP, Step, KindsOK
<1>4. CASE AwaitSignal
  BY <1>4 DEF AwaitSignal, Step, KindsOK
<1>5. CASE Signal
  BY <1>5 DEF Signal, Step, KindsOK
<1>6. CASE ShutdownReturns
  BY <1>6 DEF ShutdownReturns, Step, KindsOK
<1>7. CASE ShutdownTimesOut
  BY <1>7
     DEF ShutdownTimesOut, Step, MarkInFlight, KindsOK
<1>8. CASE Exit
  BY <1>8 DEF Exit, Die, KindsOK
<1>9. CASE Crash
  BY <1>9 DEF Crash, Die, MarkInFlight, KindsOK
<1>10. CASE \E r \in Requests : Accept(r)
  BY <1>10 DEF Accept, Goto, KindsOK
<1>11. CASE \E r \in Requests : ReadBody(r)
  BY <1>11 DEF ReadBody, Goto, KindsOK
<1>12. CASE \E r \in Requests : Reject(r)
  BY <1>12 DEF Reject, Goto, AfterHandler, KindsOK
<1>13. CASE \E r \in Requests : BeginStatement(r)
  BY <1>13 DEF BeginStatement, Goto, KindsOK
<1>14. CASE \E r \in Requests : RefuseStatement(r)
  BY <1>14
     DEF RefuseStatement, Goto, AfterHandler, KindsOK
<1>15. CASE \E r \in Requests : FailStatement(r)
  BY <1>15
     DEF FailStatement, Goto, AfterHandler, KindsOK
<1>16. CASE \E r \in Requests : CommitChange(r)
  BY <1>16 DEF CommitChange, Goto, AfterHandler, KindsOK
<1>17. CASE \E r \in Requests : CommitTask(r)
  BY <1>17 DEF CommitTask, Goto, AfterHandler, KindsOK
<1>18. CASE \E r \in Requests : Notify(r)
  BY <1>18 DEF Notify, Goto, AfterHandler, KindsOK
<1>19. CASE \E r \in Requests : BeginAudit(r)
  BY <1>19 DEF BeginAudit, Goto, KindsOK
<1>20. CASE \E r \in Requests : RefuseAudit(r)
  BY <1>20 DEF RefuseAudit, Goto, KindsOK
<1>21. CASE \E r \in Requests : EndAudit(r)
  BY <1>21 DEF EndAudit, Goto, KindsOK
<1>22. CASE \E r \in Requests : Answer(r)
  BY <1>22 DEF Answer, Goto, KindsOK
<1>23. CASE \E r \in Requests : BeginLoad(r)
  BY <1>23 DEF BeginLoad, JobStep, KindsOK
<1>24. CASE \E r \in Requests : RefuseLoad(r)
  BY <1>24 DEF RefuseLoad, JobStep, KindsOK
<1>25. CASE \E r \in Requests : EndLoad(r)
  BY <1>25 DEF EndLoad, JobStep, KindsOK
<1>26. CASE UNCHANGED cpVars
  BY <1>26 DEF cpVars, KindsOK
<1>27. QED
  BY <1>1, <1>2, <1>3, <1>4, <1>5, <1>6, <1>7, <1>8, <1>9, <1>10, <1>11, <1>12, <1>13,
     <1>14, <1>15, <1>16, <1>17, <1>18, <1>19, <1>20, <1>21, <1>22, <1>23, <1>24, <1>25, <1>26
     DEF CPNext, MainNext, RequestNext, EndStatement, JobNext

(* The notifier is set before the servers run and dropped with the process. *)
LEMMA WiringStep ==
  ASSUME KindsOK, DownIsBare, Wired, [CPNext]_cpVars
  PROVE  DownIsBare' /\ Wired'
<1>1. CASE Start
  BY <1>1 DEF Start, Step, DownIsBare, Wired
<1>2. CASE StartGrpc
  BY <1>2 DEF StartGrpc, Step, DownIsBare, Wired
<1>3. CASE StartHTTP
  BY <1>3 DEF StartHTTP, Step, DownIsBare, Wired
<1>4. CASE AwaitSignal
  BY <1>4 DEF AwaitSignal, Step, DownIsBare, Wired
<1>5. CASE Signal
  BY <1>5 DEF Signal, Step, DownIsBare, Wired
<1>6. CASE ShutdownReturns
  BY <1>6 DEF ShutdownReturns, Step, DownIsBare, Wired
<1>7. CASE ShutdownTimesOut
  BY <1>7 DEF ShutdownTimesOut, Step, MarkInFlight, DownIsBare, Wired
<1>8. CASE Exit
  BY <1>8 DEF Exit, Die, DownIsBare, Wired
<1>9. CASE Crash
  BY <1>9 DEF Crash, Die, MarkInFlight, DownIsBare, Wired
<1>10. CASE \E r \in Requests : Accept(r)
  BY <1>10 DEF Accept, Goto, DownIsBare, Wired
<1>11. CASE \E r \in Requests : ReadBody(r)
  BY <1>11 DEF ReadBody, Goto, DownIsBare, Wired
<1>12. CASE \E r \in Requests : Reject(r)
  BY <1>12 DEF Reject, Goto, AfterHandler, DownIsBare, Wired
<1>13. CASE \E r \in Requests : BeginStatement(r)
  BY <1>13 DEF BeginStatement, Goto, DownIsBare, Wired
<1>14. CASE \E r \in Requests : RefuseStatement(r)
  BY <1>14 DEF RefuseStatement, Goto, AfterHandler, DownIsBare, Wired
<1>15. CASE \E r \in Requests : FailStatement(r)
  BY <1>15 DEF FailStatement, Goto, AfterHandler, DownIsBare, Wired
<1>16. CASE \E r \in Requests : CommitChange(r)
  BY <1>16 DEF CommitChange, Goto, AfterHandler, DownIsBare, Wired
<1>17. CASE \E r \in Requests : CommitTask(r)
  BY <1>17 DEF CommitTask, Goto, AfterHandler, DownIsBare, Wired
<1>18. CASE \E r \in Requests : Notify(r)
  BY <1>18 DEF Notify, Goto, AfterHandler, DownIsBare, Wired
<1>19. CASE \E r \in Requests : BeginAudit(r)
  BY <1>19 DEF BeginAudit, Goto, DownIsBare, Wired
<1>20. CASE \E r \in Requests : RefuseAudit(r)
  BY <1>20 DEF RefuseAudit, Goto, DownIsBare, Wired
<1>21. CASE \E r \in Requests : EndAudit(r)
  BY <1>21 DEF EndAudit, Goto, DownIsBare, Wired
<1>22. CASE \E r \in Requests : Answer(r)
  BY <1>22 DEF Answer, Goto, DownIsBare, Wired
<1>23. CASE \E r \in Requests : BeginLoad(r)
  BY <1>23 DEF BeginLoad, JobStep, DownIsBare, Wired
<1>24. CASE \E r \in Requests : RefuseLoad(r)
  BY <1>24 DEF RefuseLoad, JobStep, DownIsBare, Wired
<1>25. CASE \E r \in Requests : EndLoad(r)
  BY <1>25 DEF EndLoad, JobStep, DownIsBare, Wired
<1>26. CASE UNCHANGED cpVars
  BY <1>26 DEF cpVars, DownIsBare, Wired
<1>27. QED
  BY <1>1, <1>2, <1>3, <1>4, <1>5, <1>6, <1>7, <1>8, <1>9, <1>10, <1>11, <1>12, <1>13,
     <1>14, <1>15, <1>16, <1>17, <1>18, <1>19, <1>20, <1>21, <1>22, <1>23, <1>24, <1>25, <1>26
     DEF CPNext, MainNext, RequestNext, EndStatement, JobNext

(* Requests are accepted by running servers and end with the process. *)
LEMMA MannedStep ==
  ASSUME KindsOK, Manned, [CPNext]_cpVars
  PROVE  Manned'
<1>1. CASE Start
  BY <1>1 DEF Start, Step, KindsOK, Manned, InFlight
<1>2. CASE StartGrpc
  BY <1>2, GrpcAssumption DEF StartGrpc, Step, KindsOK, Manned, InFlight
<1>3. CASE StartHTTP
  BY <1>3 DEF StartHTTP, Step, KindsOK, Manned, InFlight
<1>4. CASE AwaitSignal
  BY <1>4 DEF AwaitSignal, Step, KindsOK, Manned, InFlight
<1>5. CASE Signal
  BY <1>5 DEF Signal, Step, KindsOK, Manned, InFlight
<1>6. CASE ShutdownReturns
  BY <1>6 DEF ShutdownReturns, Step, KindsOK, Manned, InFlight, Drained
<1>7. CASE ShutdownTimesOut
  BY <1>7 DEF ShutdownTimesOut, Step, MarkInFlight, KindsOK, Manned, InFlight
<1>8. CASE Exit
  BY <1>8 DEF Exit, Die, KindsOK, Manned, InFlight
<1>9. CASE Crash
  BY <1>9 DEF Crash, Die, MarkInFlight, KindsOK, Manned, InFlight
<1>10. CASE \E r \in Requests : Accept(r)
  BY <1>10 DEF Accept, Goto, KindsOK, Manned, InFlight, Accepting
<1>11. CASE \E r \in Requests : ReadBody(r)
  BY <1>11 DEF ReadBody, Goto, KindsOK, Manned, InFlight
<1>12. CASE \E r \in Requests : Reject(r)
  BY <1>12 DEF Reject, Goto, AfterHandler, KindsOK, Manned, InFlight
<1>13. CASE \E r \in Requests : BeginStatement(r)
  BY <1>13 DEF BeginStatement, Goto, KindsOK, Manned, InFlight
<1>14. CASE \E r \in Requests : RefuseStatement(r)
  BY <1>14 DEF RefuseStatement, Goto, AfterHandler, KindsOK, Manned, InFlight
<1>15. CASE \E r \in Requests : FailStatement(r)
  BY <1>15 DEF FailStatement, Goto, AfterHandler, KindsOK, Manned, InFlight
<1>16. CASE \E r \in Requests : CommitChange(r)
  BY <1>16 DEF CommitChange, Goto, AfterHandler, KindsOK, Manned, InFlight
<1>17. CASE \E r \in Requests : CommitTask(r)
  BY <1>17 DEF CommitTask, Goto, AfterHandler, KindsOK, Manned, InFlight
<1>18. CASE \E r \in Requests : Notify(r)
  BY <1>18 DEF Notify, Goto, AfterHandler, KindsOK, Manned, InFlight
<1>19. CASE \E r \in Requests : BeginAudit(r)
  BY <1>19 DEF BeginAudit, Goto, KindsOK, Manned, InFlight
<1>20. CASE \E r \in Requests : RefuseAudit(r)
  BY <1>20 DEF RefuseAudit, Goto, KindsOK, Manned, InFlight
<1>21. CASE \E r \in Requests : EndAudit(r)
  BY <1>21 DEF EndAudit, Goto, KindsOK, Manned, InFlight
<1>22. CASE \E r \in Requests : Answer(r)
  BY <1>22 DEF Answer, Goto, KindsOK, Manned, InFlight
<1>23. CASE \E r \in Requests : BeginLoad(r)
  BY <1>23 DEF BeginLoad, JobStep, KindsOK, Manned, InFlight
<1>24. CASE \E r \in Requests : RefuseLoad(r)
  BY <1>24 DEF RefuseLoad, JobStep, KindsOK, Manned, InFlight
<1>25. CASE \E r \in Requests : EndLoad(r)
  BY <1>25 DEF EndLoad, JobStep, KindsOK, Manned, InFlight
<1>26. CASE UNCHANGED cpVars
  BY <1>26 DEF cpVars, KindsOK, Manned, InFlight
<1>27. QED
  BY <1>1, <1>2, <1>3, <1>4, <1>5, <1>6, <1>7, <1>8, <1>9, <1>10, <1>11, <1>12, <1>13,
     <1>14, <1>15, <1>16, <1>17, <1>18, <1>19, <1>20, <1>21, <1>22, <1>23, <1>24, <1>25, <1>26
     DEF CPNext, MainNext, RequestNext, EndStatement, JobNext

(* The pool closes over requests that are over or overdue. *)
LEMMA LateStep ==
  ASSUME KindsOK, Late, [CPNext]_cpVars
  PROVE  Late'
<1>1. CASE Start
  BY <1>1 DEF Start, Step, KindsOK, Late, InFlight
<1>2. CASE StartGrpc
  BY <1>2, GrpcAssumption DEF StartGrpc, Step, KindsOK, Late, InFlight
<1>3. CASE StartHTTP
  BY <1>3 DEF StartHTTP, Step, KindsOK, Late, InFlight
<1>4. CASE AwaitSignal
  BY <1>4 DEF AwaitSignal, Step, KindsOK, Late, InFlight
<1>5. CASE Signal
  BY <1>5 DEF Signal, Step, KindsOK, Late, InFlight
<1>6. CASE ShutdownReturns
  BY <1>6 DEF ShutdownReturns, Step, KindsOK, Late, InFlight, Drained
<1>7. CASE ShutdownTimesOut
  BY <1>7 DEF ShutdownTimesOut, Step, MarkInFlight, KindsOK, Late, InFlight
<1>8. CASE Exit
  BY <1>8 DEF Exit, Die, KindsOK, Late, InFlight
<1>9. CASE Crash
  BY <1>9 DEF Crash, Die, MarkInFlight, KindsOK, Late, InFlight
<1>10. CASE \E r \in Requests : Accept(r)
  BY <1>10 DEF Accept, Goto, KindsOK, Late, InFlight, Accepting
<1>11. CASE \E r \in Requests : ReadBody(r)
  BY <1>11 DEF ReadBody, Goto, KindsOK, Late, InFlight
<1>12. CASE \E r \in Requests : Reject(r)
  BY <1>12 DEF Reject, Goto, AfterHandler, KindsOK, Late, InFlight
<1>13. CASE \E r \in Requests : BeginStatement(r)
  BY <1>13 DEF BeginStatement, Goto, KindsOK, Late, InFlight
<1>14. CASE \E r \in Requests : RefuseStatement(r)
  BY <1>14 DEF RefuseStatement, Goto, AfterHandler, KindsOK, Late, InFlight
<1>15. CASE \E r \in Requests : FailStatement(r)
  BY <1>15 DEF FailStatement, Goto, AfterHandler, KindsOK, Late, InFlight
<1>16. CASE \E r \in Requests : CommitChange(r)
  BY <1>16 DEF CommitChange, Goto, AfterHandler, KindsOK, Late, InFlight
<1>17. CASE \E r \in Requests : CommitTask(r)
  BY <1>17 DEF CommitTask, Goto, AfterHandler, KindsOK, Late, InFlight
<1>18. CASE \E r \in Requests : Notify(r)
  BY <1>18 DEF Notify, Goto, AfterHandler, KindsOK, Late, InFlight
<1>19. CASE \E r \in Requests : BeginAudit(r)
  BY <1>19 DEF BeginAudit, Goto, KindsOK, Late, InFlight
<1>20. CASE \E r \in Requests : RefuseAudit(r)
  BY <1>20 DEF RefuseAudit, Goto, KindsOK, Late, InFlight
<1>21. CASE \E r \in Requests : EndAudit(r)
  BY <1>21 DEF EndAudit, Goto, KindsOK, Late, InFlight
<1>22. CASE \E r \in Requests : Answer(r)
  BY <1>22 DEF Answer, Goto, KindsOK, Late, InFlight
<1>23. CASE \E r \in Requests : BeginLoad(r)
  BY <1>23 DEF BeginLoad, JobStep, KindsOK, Late, InFlight
<1>24. CASE \E r \in Requests : RefuseLoad(r)
  BY <1>24 DEF RefuseLoad, JobStep, KindsOK, Late, InFlight
<1>25. CASE \E r \in Requests : EndLoad(r)
  BY <1>25 DEF EndLoad, JobStep, KindsOK, Late, InFlight
<1>26. CASE UNCHANGED cpVars
  BY <1>26 DEF cpVars, KindsOK, Late, InFlight
<1>27. QED
  BY <1>1, <1>2, <1>3, <1>4, <1>5, <1>6, <1>7, <1>8, <1>9, <1>10, <1>11, <1>12, <1>13,
     <1>14, <1>15, <1>16, <1>17, <1>18, <1>19, <1>20, <1>21, <1>22, <1>23, <1>24, <1>25, <1>26
     DEF CPNext, MainNext, RequestNext, EndStatement, JobNext

(* Only requests that were accepted are marked. *)
LEMMA FreshStep ==
  ASSUME KindsOK, Fresh, [CPNext]_cpVars
  PROVE  Fresh'
<1>1. CASE Start
  BY <1>1 DEF Start, Step, KindsOK, Fresh, InFlight
<1>2. CASE StartGrpc
  BY <1>2, GrpcAssumption DEF StartGrpc, Step, KindsOK, Fresh, InFlight
<1>3. CASE StartHTTP
  BY <1>3 DEF StartHTTP, Step, KindsOK, Fresh, InFlight
<1>4. CASE AwaitSignal
  BY <1>4 DEF AwaitSignal, Step, KindsOK, Fresh, InFlight
<1>5. CASE Signal
  BY <1>5 DEF Signal, Step, KindsOK, Fresh, InFlight
<1>6. CASE ShutdownReturns
  BY <1>6 DEF ShutdownReturns, Step, KindsOK, Fresh, InFlight
<1>7. CASE ShutdownTimesOut
  BY <1>7 DEF ShutdownTimesOut, Step, MarkInFlight, KindsOK, Fresh, InFlight
<1>8. CASE Exit
  BY <1>8 DEF Exit, Die, KindsOK, Fresh, InFlight
<1>9. CASE Crash
  BY <1>9 DEF Crash, Die, MarkInFlight, KindsOK, Fresh, InFlight
<1>10. CASE \E r \in Requests : Accept(r)
  BY <1>10 DEF Accept, Goto, KindsOK, Fresh, InFlight
<1>11. CASE \E r \in Requests : ReadBody(r)
  BY <1>11 DEF ReadBody, Goto, KindsOK, Fresh, InFlight
<1>12. CASE \E r \in Requests : Reject(r)
  BY <1>12 DEF Reject, Goto, AfterHandler, KindsOK, Fresh, InFlight
<1>13. CASE \E r \in Requests : BeginStatement(r)
  BY <1>13 DEF BeginStatement, Goto, KindsOK, Fresh, InFlight
<1>14. CASE \E r \in Requests : RefuseStatement(r)
  BY <1>14 DEF RefuseStatement, Goto, AfterHandler, KindsOK, Fresh, InFlight
<1>15. CASE \E r \in Requests : FailStatement(r)
  BY <1>15 DEF FailStatement, Goto, AfterHandler, KindsOK, Fresh, InFlight
<1>16. CASE \E r \in Requests : CommitChange(r)
  BY <1>16 DEF CommitChange, Goto, AfterHandler, KindsOK, Fresh, InFlight
<1>17. CASE \E r \in Requests : CommitTask(r)
  BY <1>17 DEF CommitTask, Goto, AfterHandler, KindsOK, Fresh, InFlight
<1>18. CASE \E r \in Requests : Notify(r)
  BY <1>18 DEF Notify, Goto, AfterHandler, KindsOK, Fresh, InFlight
<1>19. CASE \E r \in Requests : BeginAudit(r)
  BY <1>19 DEF BeginAudit, Goto, KindsOK, Fresh, InFlight
<1>20. CASE \E r \in Requests : RefuseAudit(r)
  BY <1>20 DEF RefuseAudit, Goto, KindsOK, Fresh, InFlight
<1>21. CASE \E r \in Requests : EndAudit(r)
  BY <1>21 DEF EndAudit, Goto, KindsOK, Fresh, InFlight
<1>22. CASE \E r \in Requests : Answer(r)
  BY <1>22 DEF Answer, Goto, KindsOK, Fresh, InFlight
<1>23. CASE \E r \in Requests : BeginLoad(r)
  BY <1>23 DEF BeginLoad, JobStep, KindsOK, Fresh, InFlight
<1>24. CASE \E r \in Requests : RefuseLoad(r)
  BY <1>24 DEF RefuseLoad, JobStep, KindsOK, Fresh, InFlight
<1>25. CASE \E r \in Requests : EndLoad(r)
  BY <1>25 DEF EndLoad, JobStep, KindsOK, Fresh, InFlight
<1>26. CASE UNCHANGED cpVars
  BY <1>26 DEF cpVars, KindsOK, Fresh, InFlight
<1>27. QED
  BY <1>1, <1>2, <1>3, <1>4, <1>5, <1>6, <1>7, <1>8, <1>9, <1>10, <1>11, <1>12, <1>13,
     <1>14, <1>15, <1>16, <1>17, <1>18, <1>19, <1>20, <1>21, <1>22, <1>23, <1>24, <1>25, <1>26
     DEF CPNext, MainNext, RequestNext, EndStatement, JobNext

(* A request leaves AuditLog with its row, a failed INSERT or overdue. *)
LEMMA TracedStep ==
  ASSUME KindsOK, Late, Traced, [CPNext]_cpVars
  PROVE  Traced'
<1>1. CASE Start
  BY <1>1 DEF Start, Step, KindsOK, Late, Traced, InFlight
<1>2. CASE StartGrpc
  BY <1>2, GrpcAssumption DEF StartGrpc, Step, KindsOK, Late, Traced, InFlight
<1>3. CASE StartHTTP
  BY <1>3 DEF StartHTTP, Step, KindsOK, Late, Traced, InFlight
<1>4. CASE AwaitSignal
  BY <1>4 DEF AwaitSignal, Step, KindsOK, Late, Traced, InFlight
<1>5. CASE Signal
  BY <1>5 DEF Signal, Step, KindsOK, Late, Traced, InFlight
<1>6. CASE ShutdownReturns
  BY <1>6 DEF ShutdownReturns, Step, KindsOK, Late, Traced, InFlight
<1>7. CASE ShutdownTimesOut
  BY <1>7 DEF ShutdownTimesOut, Step, MarkInFlight, KindsOK, Late, Traced, InFlight
<1>8. CASE Exit
  BY <1>8 DEF Exit, Die, KindsOK, Late, Traced, InFlight
<1>9. CASE Crash
  BY <1>9 DEF Crash, Die, MarkInFlight, KindsOK, Late, Traced, InFlight
<1>10. CASE \E r \in Requests : Accept(r)
  BY <1>10 DEF Accept, Goto, KindsOK, Late, Traced, InFlight
<1>11. CASE \E r \in Requests : ReadBody(r)
  BY <1>11 DEF ReadBody, Goto, KindsOK, Late, Traced, InFlight
<1>12. CASE \E r \in Requests : Reject(r)
  BY <1>12 DEF Reject, Goto, AfterHandler, KindsOK, Late, Traced, InFlight
<1>13. CASE \E r \in Requests : BeginStatement(r)
  BY <1>13 DEF BeginStatement, Goto, KindsOK, Late, Traced, InFlight
<1>14. CASE \E r \in Requests : RefuseStatement(r)
  BY <1>14
     DEF RefuseStatement, Goto, AfterHandler, KindsOK, Late, Traced, InFlight,
         PoolClosed
<1>15. CASE \E r \in Requests : FailStatement(r)
  BY <1>15 DEF FailStatement, Goto, AfterHandler, KindsOK, Late, Traced, InFlight
<1>16. CASE \E r \in Requests : CommitChange(r)
  BY <1>16 DEF CommitChange, Goto, AfterHandler, KindsOK, Late, Traced, InFlight
<1>17. CASE \E r \in Requests : CommitTask(r)
  BY <1>17 DEF CommitTask, Goto, AfterHandler, KindsOK, Late, Traced, InFlight
<1>18. CASE \E r \in Requests : Notify(r)
  BY <1>18 DEF Notify, Goto, AfterHandler, KindsOK, Late, Traced, InFlight
<1>19. CASE \E r \in Requests : BeginAudit(r)
  BY <1>19 DEF BeginAudit, Goto, KindsOK, Late, Traced, InFlight
<1>20. CASE \E r \in Requests : RefuseAudit(r)
  BY <1>20 DEF RefuseAudit, Goto, KindsOK, Late, Traced, InFlight, PoolClosed
<1>21. CASE \E r \in Requests : EndAudit(r)
  BY <1>21 DEF EndAudit, Goto, KindsOK, Late, Traced, InFlight
<1>22. CASE \E r \in Requests : Answer(r)
  BY <1>22 DEF Answer, Goto, KindsOK, Late, Traced, InFlight
<1>23. CASE \E r \in Requests : BeginLoad(r)
  BY <1>23 DEF BeginLoad, JobStep, KindsOK, Late, Traced, InFlight
<1>24. CASE \E r \in Requests : RefuseLoad(r)
  BY <1>24 DEF RefuseLoad, JobStep, KindsOK, Late, Traced, InFlight, PoolClosed
<1>25. CASE \E r \in Requests : EndLoad(r)
  BY <1>25 DEF EndLoad, JobStep, KindsOK, Late, Traced, InFlight
<1>26. CASE UNCHANGED cpVars
  BY <1>26 DEF cpVars, KindsOK, Late, Traced, InFlight
<1>27. QED
  BY <1>1, <1>2, <1>3, <1>4, <1>5, <1>6, <1>7, <1>8, <1>9, <1>10, <1>11, <1>12, <1>13,
     <1>14, <1>15, <1>16, <1>17, <1>18, <1>19, <1>20, <1>21, <1>22, <1>23, <1>24, <1>25, <1>26
     DEF CPNext, MainNext, RequestNext, EndStatement, JobNext

(* Each commit of a change finds the notifier set. *)
LEMMA NotifierStep ==
  ASSUME KindsOK, Wired, Manned, Late, ChangesFindNotifier, [CPNext]_cpVars
  PROVE  ChangesFindNotifier'
<1>1. CASE Start
  BY <1>1 DEF Start, Step, KindsOK, ChangesFindNotifier, Wired, Manned, InFlight, Requests
<1>2. CASE StartGrpc
  BY <1>2
     DEF StartGrpc, Step, KindsOK, ChangesFindNotifier, Wired, Manned, InFlight,
         Requests
<1>3. CASE StartHTTP
  BY <1>3
     DEF StartHTTP, Step, KindsOK, ChangesFindNotifier, Wired, Manned, InFlight,
         Requests
<1>4. CASE AwaitSignal
  BY <1>4
     DEF AwaitSignal, Step, KindsOK, ChangesFindNotifier, Wired, Manned, InFlight,
         Requests
<1>5. CASE Signal
  BY <1>5 DEF Signal, Step, KindsOK, ChangesFindNotifier, Wired, Manned, InFlight, Requests
<1>6. CASE ShutdownReturns
  BY <1>6
     DEF ShutdownReturns, Step, KindsOK, ChangesFindNotifier, Wired, Manned, InFlight,
         Requests
<1>7. CASE ShutdownTimesOut
  BY <1>7
     DEF ShutdownTimesOut, Step, MarkInFlight, KindsOK, ChangesFindNotifier, Wired,
         Manned, InFlight, Requests
<1>8. CASE Exit
  BY <1>8 DEF Exit, Die, KindsOK, ChangesFindNotifier, Late, InFlight, Requests
<1>9. CASE Crash
  BY <1>9
     DEF Crash, Die, MarkInFlight, KindsOK, ChangesFindNotifier, Wired, Manned,
         InFlight, Requests
<1>10. CASE \E r \in Requests : Accept(r)
  BY <1>10 DEF Accept, Goto, KindsOK, ChangesFindNotifier, Wired, Manned, InFlight, Requests
<1>11. CASE \E r \in Requests : ReadBody(r)
  BY <1>11
     DEF ReadBody, Goto, KindsOK, ChangesFindNotifier, Wired, Manned, InFlight,
         Requests
<1>12. CASE \E r \in Requests : Reject(r)
  BY <1>12
     DEF Reject, Goto, AfterHandler, KindsOK, ChangesFindNotifier, Wired, Manned,
         InFlight, Requests
<1>13. CASE \E r \in Requests : BeginStatement(r)
  BY <1>13
     DEF BeginStatement, Goto, KindsOK, ChangesFindNotifier, Wired, Manned, InFlight,
         Requests
<1>14. CASE \E r \in Requests : RefuseStatement(r)
  BY <1>14
     DEF RefuseStatement, Goto, AfterHandler, KindsOK, ChangesFindNotifier, Wired,
         Manned, InFlight, Requests
<1>15. CASE \E r \in Requests : FailStatement(r)
  BY <1>15
     DEF FailStatement, Goto, AfterHandler, KindsOK, ChangesFindNotifier, Wired, Manned,
         InFlight, Requests
<1>16. CASE \E r \in Requests : CommitChange(r)
  BY <1>16
     DEF CommitChange, Goto, AfterHandler, KindsOK, ChangesFindNotifier, Wired, Manned,
         InFlight, Requests
<1>17. CASE \E r \in Requests : CommitTask(r)
  BY <1>17, RequestsAssumption
     DEF CommitTask, Goto, AfterHandler, KindsOK, ChangesFindNotifier, Wired, Manned,
         InFlight, Requests
<1>18. CASE \E r \in Requests : Notify(r)
  BY <1>18
     DEF Notify, Goto, AfterHandler, KindsOK, ChangesFindNotifier, Wired, Manned,
         InFlight, Requests
<1>19. CASE \E r \in Requests : BeginAudit(r)
  BY <1>19
     DEF BeginAudit, Goto, KindsOK, ChangesFindNotifier, Wired, Manned, InFlight,
         Requests
<1>20. CASE \E r \in Requests : RefuseAudit(r)
  BY <1>20
     DEF RefuseAudit, Goto, KindsOK, ChangesFindNotifier, Wired, Manned, InFlight,
         Requests
<1>21. CASE \E r \in Requests : EndAudit(r)
  BY <1>21
     DEF EndAudit, Goto, KindsOK, ChangesFindNotifier, Wired, Manned, InFlight,
         Requests
<1>22. CASE \E r \in Requests : Answer(r)
  BY <1>22 DEF Answer, Goto, KindsOK, ChangesFindNotifier, Wired, Manned, InFlight, Requests
<1>23. CASE \E r \in Requests : BeginLoad(r)
  BY <1>23
     DEF BeginLoad, JobStep, KindsOK, ChangesFindNotifier, Wired, Manned, InFlight,
         Requests
<1>24. CASE \E r \in Requests : RefuseLoad(r)
  BY <1>24
     DEF RefuseLoad, JobStep, KindsOK, ChangesFindNotifier, Wired, Manned, InFlight,
         Requests
<1>25. CASE \E r \in Requests : EndLoad(r)
  BY <1>25
     DEF EndLoad, JobStep, KindsOK, ChangesFindNotifier, Wired, Manned, InFlight,
         Requests
<1>26. CASE UNCHANGED cpVars
  BY <1>26 DEF cpVars, KindsOK, ChangesFindNotifier, Wired, Manned, InFlight, Requests
<1>27. QED
  BY <1>1, <1>2, <1>3, <1>4, <1>5, <1>6, <1>7, <1>8, <1>9, <1>10, <1>11, <1>12, <1>13,
     <1>14, <1>15, <1>16, <1>17, <1>18, <1>19, <1>20, <1>21, <1>22, <1>23, <1>24, <1>25, <1>26
     DEF CPNext, MainNext, RequestNext, EndStatement, JobNext

(* Only late requests find the pool closed or are cut off. *)
LEMMA DrainsStep ==
  ASSUME KindsOK, Late, ShutdownDrains, [CPNext]_cpVars
  PROVE  ShutdownDrains'
<1>1. CASE Start
  BY <1>1 DEF Start, Step, KindsOK, Late, ShutdownDrains, InFlight
<1>2. CASE StartGrpc
  BY <1>2, GrpcAssumption DEF StartGrpc, Step, KindsOK, Late, ShutdownDrains, InFlight
<1>3. CASE StartHTTP
  BY <1>3 DEF StartHTTP, Step, KindsOK, Late, ShutdownDrains, InFlight
<1>4. CASE AwaitSignal
  BY <1>4 DEF AwaitSignal, Step, KindsOK, Late, ShutdownDrains, InFlight
<1>5. CASE Signal
  BY <1>5 DEF Signal, Step, KindsOK, Late, ShutdownDrains, InFlight
<1>6. CASE ShutdownReturns
  BY <1>6 DEF ShutdownReturns, Step, KindsOK, Late, ShutdownDrains, InFlight
<1>7. CASE ShutdownTimesOut
  BY <1>7 DEF ShutdownTimesOut, Step, MarkInFlight, KindsOK, Late, ShutdownDrains, InFlight
<1>8. CASE Exit
  BY <1>8 DEF Exit, Die, KindsOK, Late, ShutdownDrains, InFlight
<1>9. CASE Crash
  BY <1>9 DEF Crash, Die, MarkInFlight, KindsOK, Late, ShutdownDrains, InFlight
<1>10. CASE \E r \in Requests : Accept(r)
  BY <1>10 DEF Accept, Goto, KindsOK, Late, ShutdownDrains, InFlight
<1>11. CASE \E r \in Requests : ReadBody(r)
  BY <1>11 DEF ReadBody, Goto, KindsOK, Late, ShutdownDrains, InFlight
<1>12. CASE \E r \in Requests : Reject(r)
  BY <1>12 DEF Reject, Goto, AfterHandler, KindsOK, Late, ShutdownDrains, InFlight
<1>13. CASE \E r \in Requests : BeginStatement(r)
  BY <1>13 DEF BeginStatement, Goto, KindsOK, Late, ShutdownDrains, InFlight
<1>14. CASE \E r \in Requests : RefuseStatement(r)
  BY <1>14
     DEF RefuseStatement, Goto, AfterHandler, KindsOK, Late, ShutdownDrains, InFlight,
         PoolClosed
<1>15. CASE \E r \in Requests : FailStatement(r)
  BY <1>15 DEF FailStatement, Goto, AfterHandler, KindsOK, Late, ShutdownDrains, InFlight
<1>16. CASE \E r \in Requests : CommitChange(r)
  BY <1>16 DEF CommitChange, Goto, AfterHandler, KindsOK, Late, ShutdownDrains, InFlight
<1>17. CASE \E r \in Requests : CommitTask(r)
  BY <1>17 DEF CommitTask, Goto, AfterHandler, KindsOK, Late, ShutdownDrains, InFlight
<1>18. CASE \E r \in Requests : Notify(r)
  BY <1>18 DEF Notify, Goto, AfterHandler, KindsOK, Late, ShutdownDrains, InFlight
<1>19. CASE \E r \in Requests : BeginAudit(r)
  BY <1>19 DEF BeginAudit, Goto, KindsOK, Late, ShutdownDrains, InFlight
<1>20. CASE \E r \in Requests : RefuseAudit(r)
  BY <1>20 DEF RefuseAudit, Goto, KindsOK, Late, ShutdownDrains, InFlight, PoolClosed
<1>21. CASE \E r \in Requests : EndAudit(r)
  BY <1>21 DEF EndAudit, Goto, KindsOK, Late, ShutdownDrains, InFlight
<1>22. CASE \E r \in Requests : Answer(r)
  BY <1>22 DEF Answer, Goto, KindsOK, Late, ShutdownDrains, InFlight
<1>23. CASE \E r \in Requests : BeginLoad(r)
  BY <1>23 DEF BeginLoad, JobStep, KindsOK, Late, ShutdownDrains, InFlight
<1>24. CASE \E r \in Requests : RefuseLoad(r)
  BY <1>24 DEF RefuseLoad, JobStep, KindsOK, Late, ShutdownDrains, InFlight, PoolClosed
<1>25. CASE \E r \in Requests : EndLoad(r)
  BY <1>25 DEF EndLoad, JobStep, KindsOK, Late, ShutdownDrains, InFlight
<1>26. CASE UNCHANGED cpVars
  BY <1>26 DEF cpVars, KindsOK, Late, ShutdownDrains, InFlight
<1>27. QED
  BY <1>1, <1>2, <1>3, <1>4, <1>5, <1>6, <1>7, <1>8, <1>9, <1>10, <1>11, <1>12, <1>13,
     <1>14, <1>15, <1>16, <1>17, <1>18, <1>19, <1>20, <1>21, <1>22, <1>23, <1>24, <1>25, <1>26
     DEF CPNext, MainNext, RequestNext, EndStatement, JobNext

(* A set that gains at most one element gains at most one in number. *)
LEMMA OneElementMore ==
  ASSUME NEW S, NEW T, IsFiniteSet(T), NEW x, S \subseteq T \cup {x}
  PROVE  /\ Cardinality(S) \in Nat
         /\ Cardinality(S) =< Cardinality(T) + 1
<1>1. /\ IsFiniteSet(T \cup {x})
      /\ Cardinality(T \cup {x}) =< Cardinality(T) + 1
  <2>1. Cardinality(T) \in Nat
    BY FS_CardinalityType
  <2>2. /\ IsFiniteSet(T \cup {x})
        /\ Cardinality(T \cup {x}) = IF x \in T THEN Cardinality(T) ELSE Cardinality(T) + 1
    BY FS_AddElement
  <2>3. QED
    BY <2>1, <2>2
<1>2. /\ IsFiniteSet(S)
      /\ Cardinality(S) =< Cardinality(T \cup {x})
  BY <1>1, FS_Subset
<1>3. QED
  BY <1>1, <1>2, FS_CardinalityType

(* The connections in use can be counted. *)
LEMMA Countable ==
  /\ IsFiniteSet(Querying) /\ Cardinality(Querying) \in Nat
  /\ IsFiniteSet(Loading) /\ Cardinality(Loading) \in Nat
<1>1. IsFiniteSet(Requests)
  BY RequestsAssumption, FS_Union DEF Requests
<1>2. Querying \subseteq Requests /\ Loading \subseteq Requests
  BY DEF Querying, Loading
<1>3. QED
  BY <1>1, <1>2, FS_Subset, FS_CardinalityType

(* A step that takes no connection keeps within the pool. *)
LEMMA NoConnectionMore ==
  ASSUME InUse =< MaxConns, Querying' \subseteq Querying, Loading' \subseteq Loading
  PROVE  InUse' =< MaxConns
<1>1. /\ Cardinality(Querying') \in Nat /\ Cardinality(Querying') =< Cardinality(Querying)
      /\ Cardinality(Loading') \in Nat /\ Cardinality(Loading') =< Cardinality(Loading)
  BY Countable, FS_Subset, FS_CardinalityType
<1>2. QED
  BY <1>1, Countable, PoolAssumption DEF InUse

(* A step that takes one after Acquire keeps within it too. *)
LEMMA OneConnectionMore ==
  ASSUME Acquire, NEW r,
         \/ Querying' \subseteq Querying \cup {r} /\ Loading' \subseteq Loading
         \/ Querying' \subseteq Querying /\ Loading' \subseteq Loading \cup {r}
  PROVE  InUse' =< MaxConns
<1>1. InUse + 1 =< MaxConns
  BY Countable, PoolAssumption DEF Acquire, InUse
<1>2. CASE Querying' \subseteq Querying \cup {r} /\ Loading' \subseteq Loading
  <2>1. Cardinality(Querying') \in Nat /\ Cardinality(Querying') =< Cardinality(Querying) + 1
    BY <1>2, Countable, OneElementMore
  <2>2. Cardinality(Loading') \in Nat /\ Cardinality(Loading') =< Cardinality(Loading)
    BY <1>2, Countable, FS_Subset, FS_CardinalityType
  <2>3. QED
    BY <1>1, <2>1, <2>2, Countable, PoolAssumption DEF InUse
<1>3. CASE Querying' \subseteq Querying /\ Loading' \subseteq Loading \cup {r}
  <2>1. Cardinality(Loading') \in Nat /\ Cardinality(Loading') =< Cardinality(Loading) + 1
    BY <1>3, Countable, OneElementMore
  <2>2. Cardinality(Querying') \in Nat /\ Cardinality(Querying') =< Cardinality(Querying)
    BY <1>3, Countable, FS_Subset, FS_CardinalityType
  <2>3. QED
    BY <1>1, <2>1, <2>2, Countable, PoolAssumption DEF InUse
<1>4. QED
  BY <1>2, <1>3

(* Connections are taken through Acquire only. *)
LEMMA PoolStep ==
  ASSUME KindsOK, InUse =< MaxConns, [CPNext]_cpVars
  PROVE  InUse' =< MaxConns
<1>1. CASE Start
  BY <1>1, NoConnectionMore DEF Start, Step, KindsOK, Querying, Loading
<1>2. CASE StartGrpc
  BY <1>2, NoConnectionMore DEF StartGrpc, Step, KindsOK, Querying, Loading
<1>3. CASE StartHTTP
  BY <1>3, NoConnectionMore DEF StartHTTP, Step, KindsOK, Querying, Loading
<1>4. CASE AwaitSignal
  BY <1>4, NoConnectionMore DEF AwaitSignal, Step, KindsOK, Querying, Loading
<1>5. CASE Signal
  BY <1>5, NoConnectionMore DEF Signal, Step, KindsOK, Querying, Loading
<1>6. CASE ShutdownReturns
  BY <1>6, NoConnectionMore DEF ShutdownReturns, Step, KindsOK, Querying, Loading
<1>7. CASE ShutdownTimesOut
  BY <1>7, NoConnectionMore DEF ShutdownTimesOut, Step, KindsOK, Querying, Loading
<1>8. CASE Exit
  BY <1>8, NoConnectionMore DEF Exit, Die, KindsOK, Querying, Loading, InFlight
<1>9. CASE Crash
  BY <1>9, NoConnectionMore DEF Crash, Die, KindsOK, Querying, Loading, InFlight
<1>10. CASE \E r \in Requests : Accept(r)
  BY <1>10, NoConnectionMore DEF Accept, Goto, KindsOK, Querying, Loading
<1>11. CASE \E r \in Requests : ReadBody(r)
  BY <1>11, NoConnectionMore DEF ReadBody, Goto, KindsOK, Querying, Loading
<1>12. CASE \E r \in Requests : Reject(r)
  BY <1>12, NoConnectionMore DEF Reject, Goto, AfterHandler, KindsOK, Querying, Loading
<1>13. CASE \E r \in Requests : BeginStatement(r)
  <2>1. PICK r \in Requests : BeginStatement(r)
    BY <1>13
  <2>2. Acquire /\ Querying' \subseteq Querying \cup {r} /\ Loading' \subseteq Loading
    BY <2>1 DEF BeginStatement, Goto, KindsOK, Querying, Loading
  <2>3. QED
    BY <2>2, OneConnectionMore
<1>14. CASE \E r \in Requests : RefuseStatement(r)
  BY <1>14, NoConnectionMore
     DEF RefuseStatement, Goto, AfterHandler, KindsOK, Querying, Loading
<1>15. CASE \E r \in Requests : FailStatement(r)
  BY <1>15, NoConnectionMore
     DEF FailStatement, Goto, AfterHandler, KindsOK, Querying, Loading
<1>16. CASE \E r \in Requests : CommitChange(r)
  BY <1>16, NoConnectionMore
     DEF CommitChange, Goto, AfterHandler, KindsOK, Querying, Loading
<1>17. CASE \E r \in Requests : CommitTask(r)
  BY <1>17, NoConnectionMore DEF CommitTask, Goto, AfterHandler, KindsOK, Querying, Loading
<1>18. CASE \E r \in Requests : Notify(r)
  BY <1>18, NoConnectionMore DEF Notify, Goto, AfterHandler, KindsOK, Querying, Loading
<1>19. CASE \E r \in Requests : BeginAudit(r)
  <2>1. PICK r \in Requests : BeginAudit(r)
    BY <1>19
  <2>2. Acquire /\ Querying' \subseteq Querying \cup {r} /\ Loading' \subseteq Loading
    BY <2>1 DEF BeginAudit, Goto, KindsOK, Querying, Loading
  <2>3. QED
    BY <2>2, OneConnectionMore
<1>20. CASE \E r \in Requests : RefuseAudit(r)
  BY <1>20, NoConnectionMore DEF RefuseAudit, Goto, KindsOK, Querying, Loading
<1>21. CASE \E r \in Requests : EndAudit(r)
  BY <1>21, NoConnectionMore DEF EndAudit, Goto, KindsOK, Querying, Loading
<1>22. CASE \E r \in Requests : Answer(r)
  BY <1>22, NoConnectionMore DEF Answer, Goto, KindsOK, Querying, Loading
<1>23. CASE \E r \in Requests : BeginLoad(r)
  <2>1. PICK r \in Requests : BeginLoad(r)
    BY <1>23
  <2>2. Acquire /\ Querying' \subseteq Querying /\ Loading' \subseteq Loading \cup {r}
    BY <2>1 DEF BeginLoad, JobStep, KindsOK, Querying, Loading
  <2>3. QED
    BY <2>2, OneConnectionMore
<1>24. CASE \E r \in Requests : RefuseLoad(r)
  BY <1>24, NoConnectionMore DEF RefuseLoad, JobStep, KindsOK, Querying, Loading
<1>25. CASE \E r \in Requests : EndLoad(r)
  BY <1>25, NoConnectionMore DEF EndLoad, JobStep, KindsOK, Querying, Loading
<1>26. CASE UNCHANGED cpVars
  BY <1>26, NoConnectionMore DEF cpVars, Querying, Loading
<1>27. QED
  BY <1>1, <1>2, <1>3, <1>4, <1>5, <1>6, <1>7, <1>8, <1>9, <1>10, <1>11, <1>12, <1>13,
     <1>14, <1>15, <1>16, <1>17, <1>18, <1>19, <1>20, <1>21, <1>22, <1>23, <1>24, <1>25, <1>26
     DEF CPNext, MainNext, RequestNext, EndStatement, JobNext

-----------------------------------------------------------------------------
(* Nothing has happened at first, and no connection is in use. *)
LEMMA CPInvInit == CPInit => CPInv
<1>1. SUFFICES ASSUME CPInit
               PROVE  CPInv
  OBVIOUS
<1>2. KindsOK /\ DownIsBare /\ Wired /\ Fresh /\ Traced
  BY <1>1 DEF CPInit, KindsOK, DownIsBare, Wired, Fresh, Traced
<1>3. Manned /\ Late
  BY <1>1 DEF CPInit, Manned, Late, InFlight
<1>4. ChangesFindNotifier /\ ShutdownDrains
  BY <1>1 DEF CPInit, ChangesFindNotifier, ShutdownDrains, Requests
<1>5. Querying = {} /\ Loading = {}
  BY <1>1 DEF CPInit, Querying, Loading
<1>6. InUse =< MaxConns
  BY <1>5, FS_EmptySet, PoolAssumption DEF InUse
<1>7. QED
  BY <1>2, <1>3, <1>4, <1>6 DEF CPInv

(* CPInv holds in every state of every behaviour. *)
THEOREM CPInductive == CPSpec => []CPInv
<1>1. CPInv /\ [CPNext]_cpVars => CPInv'
  BY KindsStep, WiringStep, MannedStep, LateStep, FreshStep, TracedStep,
     NotifierStep, DrainsStep, PoolStep DEF CPInv
<1>2. QED
  BY CPInvInit, <1>1, PTL DEF CPSpec

(* Type correctness; the connections in use are never more than the pool has,
   for any size of it and any number of requests. *)
THEOREM CPTypeCorrect == CPSpec => []CPTypeOK
<1>1. CPInv => CPTypeOK
  BY DEF CPInv, CPTypeOK, Manned, DownIsBare
<1>2. QED
  BY CPInductive, <1>1, PTL

(* main wires the notifier before the HTTP server accepts a change, at every
   start: with gRPC on, a committed change of domains or origins goes without
   its goroutine only if its handler got an error for it, or the process ended
   before the handler came to notify. *)
THEOREM NotifierInPlace == CPSpec => []ChangesFindNotifier
<1>1. CPInv => ChangesFindNotifier
  BY DEF CPInv
<1>2. QED
  BY CPInductive, <1>1, PTL

(* srv.Shutdown before pool.Close: no request is cut off or finds the pool
   closed but for those the deadline or a crash left. *)
THEOREM ShutdownIsGraceful == CPSpec => []ShutdownDrains
<1>1. CPInv => ShutdownDrains
  BY DEF CPInv
<1>2. QED
  BY CPInductive, <1>1, PTL

(* AuditLog leaves no answered request and no finished change without a row,
   but for failed INSERTs, deadlines and crashes. *)
THEOREM AuditComplete == CPSpec => []AnsweredIsLogged
<1>1. ASSUME CPInv
      PROVE  AnsweredIsLogged
  <2>1. SUFFICES ASSUME NEW r \in Requests,
                        req[r] = "answered" \/ ("applied" \in marks[r] /\ r \notin InFlight)
                 PROVE  marks[r] \cap {"logged", "unlogged", "overdue", "crashed"} # {}
    BY DEF AnsweredIsLogged
  <2>2. CASE req[r] = "answered"
    BY <1>1, <2>2 DEF CPInv, Traced
  <2>3. CASE req[r] = "aborted"
    BY <1>1, <2>3 DEF CPInv, ShutdownDrains
  <2>4. req[r] # "new" \/ "applied" \notin marks[r]
    BY <1>1 DEF CPInv, Fresh
  <2>5. QED
    BY <2>1, <2>2, <2>3, <2>4 DEF InFlight
<1>2. QED
  BY CPInductive, <1>1, PTL
=============================================================================
