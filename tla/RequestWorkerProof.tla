------------------------- MODULE RequestWorkerProof -------------------------
(***************************************************************************)
(* Safety of RequestWorker for every pipe size, every number and kind of   *)
(* client requests, and scripts that may interrupt themselves.             *)
(*                                                                         *)
(* The argument: a status is sent only by the thread inside closeSafely's  *)
(* monitor while conn is set, and the monitor is left with conn unset; a   *)
(* handler reaches closeSafely only after its own task ended and it        *)
(* cancelled the other's, and a settled FutureTask never changes again.    *)
(***************************************************************************)
EXTENDS RequestWorker, TLAPS

\* Where each thread can be.
LabelsOK ==
    /\ pc["worker"] \in {"open", "submit", "shutdown", "enter", "send", "close", "dead"}
    /\ pc["stream"] \in Labels \ {"open", "submit", "shutdown", "setup", "script", "join", "kill"}
    /\ pc["invoke"] \in Labels \ {"open", "submit", "shutdown", "read", "write", "finally"}

AfterTask == {"await", "cancel", "enter", "send", "close", "exit", "dead"}

\* A thread exists once its task is submitted, stream first; past its task the
\* task is settled; past afterExecute's cancel so is the other one.
TasksOK ==
    /\ \A h \in Handlers : /\ pc[h] = "idle" <=> future[h] = "none"
                           /\ pc[h] \in AfterTask => Done(h)
                           /\ pc[h] \in {"enter", "send", "close"} => Done(Other(h))
                           /\ pc[h] = "cancel" => assigned = Handlers
                           /\ future[h] # "terminated"
                           /\ h \in assigned => future[h] # "none"
    /\ future["stream"] = "none" => future["invoke"] = "none"
    /\ pc["worker"] \in {"open", "enter", "send", "close"} => future["stream"] = "none"

\* The stream thread is interrupted by a cancellation only, so it never leaves
\* without having been through closeSafely.
StreamOK == /\ "stream" \in interrupted => assigned = Handlers
            /\ pc["stream"] \in {"exit", "dead"} => ~conn

\* The monitor, and what conn means inside and outside of it.
MonitorOK ==
    /\ \A t \in Threads : pc[t] \in {"send", "close"} <=> holder = t
    /\ holder # "none" => conn
    /\ conn <=> ~closed
    /\ future["stream"] = "none" /\ pc["worker"] \in {"open", "submit"} =>
           conn /\ holder = "none" /\ sent = <<>>
    /\ \A t \in Threads : result[t] = "terminated" =>
           t \in Handlers /\ ~conn /\ pc[t] \in {"enter", "dead"}

\* What has been sent, and by whom.
Reported(h, s) == future[h] = s \/ (future[h] = "cancelled" /\ s = "interrupted")
SentOK ==
    /\ sent # <<>> => \/ ~conn
                      \/ \E t \in Threads : pc[t] = "close"
                      \/ pc["worker"] = "dead" /\ future["stream"] = "none"
    /\ (future["stream"] # "none" /\ (holder # "none" \/ closed \/ sent # <<>>)) =>
           \A h \in Handlers : Done(h)
    /\ \A h \in Handlers :
           pc[h] \in {"cancel", "enter", "send", "close"} /\ result[h] # "terminated" =>
               Reported(h, result[h])
    /\ \A t \in Threads : pc[t] = "close" /\ ~silent /\ ~gone => sent # <<>>
    /\ pc["worker"] = "open" => ~silent

Safety == /\ OneExitStatus
          /\ NeverTerminatedStatus
          /\ ClosedIsAnswered
          /\ ReportedOutcomeIsReal

IInv == TypeOK /\ LabelsOK /\ TasksOK /\ StreamOK /\ MonitorOK /\ SentOK /\ Safety

\* A step keeps every variable's type.
LEMMA TypeStep == IInv /\ [Next]_vars => TypeOK'
<1> SUFFICES ASSUME IInv, [Next]_vars PROVE TypeOK'
  OBVIOUS
<1> USE PipeSizeAssumption, ClientRequestsAssumption
       DEF IInv, TypeOK, Handlers, Threads, Labels, execVars, connVars, clientVars, pipeVars
<1>1. CASE OpenRefused
  <2>1. pc' \in [Threads -> Labels]
    BY <1>1 DEF OpenRefused, sendExit, Goto, Status, MonitorOK
  <2>2. sent' \in Seq(Status)
    BY <1>1 DEF OpenRefused, sendExit, Goto, Status, MonitorOK
  <2>. QED
    BY <1>1, <2>1, <2>2 DEF OpenRefused, sendExit, Goto, Status, MonitorOK
<1>2. CASE OpenSession
  BY <1>2 DEF OpenSession, Goto
<1>3. CASE Shutdown
  BY <1>3 DEF Shutdown, Goto
<1>4. CASE \E h \in Handlers : Submit(h)
  BY <1>4 DEF Submit, Goto
<1>5. CASE \E h \in Handlers : Assign(h)
  BY <1>5 DEF Assign, Goto
<1>6. CASE ReadFromClosedSocket
  BY <1>6 DEF ReadFromClosedSocket, Finish, Goto, Status
<1>7. CASE ReadStreamRequest
  <2>1. pc' \in [Threads -> Labels]
    BY <1>7 DEF ReadStreamRequest, Finish, Goto, EndStatus, Status, Requests, Leaving
  <2>2. result' \in [Threads -> Status]
    BY <1>7 DEF ReadStreamRequest, Finish, Goto, EndStatus, Status, Requests, Leaving
  <2>3. taken' \in 0 .. Len(requests')
    BY <1>7 DEF ReadStreamRequest, Finish, Goto, EndStatus, Status, Requests, Leaving
  <2>4. toreDown' \in BOOLEAN
    BY <1>7 DEF ReadStreamRequest, Finish, Goto, EndStatus, Status, Requests, Leaving
  <2>. QED
    BY <1>7, <2>1, <2>2, <2>3, <2>4 DEF ReadStreamRequest, Finish, Goto, EndStatus,
       Status, Requests, Leaving
<1>8. CASE TransferStreamRequest
  BY <1>8 DEF TransferStreamRequest, Goto
<1>9. CASE TransferFails
  <2>1. pc' \in [Threads -> Labels]
    BY <1>9 DEF TransferFails, Finish, Goto, Status
  <2>2. result' \in [Threads -> Status]
    BY <1>9 DEF TransferFails, Finish, Goto, Status
  <2>3. interrupted' \subseteq Handlers
    BY <1>9 DEF TransferFails, Finish, Goto, Status
  <2>. QED
    BY <1>9, <2>1, <2>2, <2>3 DEF TransferFails, Finish, Goto, Status
<1>10. CASE TearDown
  BY <1>10 DEF TearDown, Goto
<1>11. CASE SetUp
  BY <1>11 DEF SetUp, Finish, Goto, Status
<1>12. CASE AwaitAllSubThreads
  BY <1>12 DEF AwaitAllSubThreads, Goto
<1>13. CASE KillAllSubThreads
  BY <1>13 DEF KillAllSubThreads, Goto
<1>14. CASE ScriptInterruptsItself
  BY <1>14 DEF ScriptInterruptsItself
<1>15. CASE SpawnSubThread
  BY <1>15 DEF SpawnSubThread
<1>16. CASE \E by \in {"main", "sub"} : ReadStdin(by)
  <2>1. pipe' \in 0 .. PipeSize
    BY <1>16 DEF ReadStdin
  <2>2. interrupted' \subseteq Handlers
    BY <1>16 DEF ReadStdin
  <2>. QED
    BY <1>16, <2>1, <2>2 DEF ReadStdin
<1>17. CASE ScriptEnds
  <2>1. pc' \in [Threads -> Labels]
    BY <1>17 DEF ScriptEnds, Finish, Goto, Status
  <2>2. result' \in [Threads -> Status]
    BY <1>17 DEF ScriptEnds, Finish, Goto, Status
  <2>3. interrupted' = interrupted \/ interrupted' = interrupted \ {"invoke"}
    BY <1>17 DEF ScriptEnds
  <2>4. interrupted' \subseteq Handlers
    BY <2>3
  <2>. QED
    BY <1>17, <2>1, <2>2, <2>4 DEF ScriptEnds, Finish, Goto, Status
<1>18. CASE SubThreadEnds
  BY <1>18 DEF SubThreadEnds
<1>19. CASE \E h \in Handlers : Begin(h)
  BY <1>19 DEF Begin, Goto
<1>20. CASE \E h \in Handlers : SetFuture(h)
  BY <1>20 DEF SetFuture, Goto, Status
<1>21. CASE \E h \in Handlers : GetExitStatus(h)
  BY <1>21 DEF GetExitStatus, Finish, Goto, TasksOK, AfterTask, Done, Status
<1>22. CASE \E h \in Handlers : AwaitInterrupted(h)
  BY <1>22 DEF AwaitInterrupted, Goto
<1>23. CASE \E h \in Handlers : CancelOther(h)
  <2>1. pc' \in [Threads -> Labels]
    BY <1>23 DEF CancelOther, Goto, Other
  <2>2. interrupted' \subseteq Handlers
    <3>1. PICK h \in Handlers : CancelOther(h)
      BY <1>23
    <3>2. Other(h) \in Handlers
      BY DEF Other
    <3>3. interrupted' \subseteq interrupted \cup {Other(h)}
      BY <3>1 DEF CancelOther
    <3>. QED
      BY <3>2, <3>3
  <2>. QED
    BY <1>23, <2>1, <2>2 DEF CancelOther, Goto, Other
<1>24. CASE \E h \in Handlers : ThreadExits(h)
  BY <1>24 DEF ThreadExits, Finish, Goto, Status
<1>25. CASE \E t \in Threads : EnterCloseSafely(t)
  BY <1>25 DEF EnterCloseSafely, Goto, AfterClose
<1>26. CASE \E t \in Threads : SendExit(t)
  <2>1. pc' \in [Threads -> Labels]
    BY <1>26 DEF SendExit, sendExit, Goto
  <2>2. sent' \in Seq(Status)
    BY <1>26 DEF SendExit, sendExit, Goto
  <2>. QED
    BY <1>26, <2>1, <2>2 DEF SendExit, sendExit, Goto
<1>27. CASE \E t \in Threads : CloseConnection(t)
  <2>1. pc' \in [Threads -> Labels]
    BY <1>27 DEF CloseConnection, Goto, AfterClose
  <2>2. holder' \in Threads \cup {"none"}
    BY <1>27 DEF CloseConnection, Goto, AfterClose
  <2>. QED
    BY <1>27, <2>1, <2>2 DEF CloseConnection, Goto, AfterClose
<1>28. CASE ClientSends
  BY <1>28 DEF ClientSends, Requests
<1>29. CASE ClientLeaves
  BY <1>29 DEF ClientLeaves, Leaving
<1>30. CASE SessionOver
  BY <1>30 DEF SessionOver, vars
<1>31. CASE UNCHANGED vars
  BY <1>31 DEF vars, execVars, connVars, clientVars, pipeVars
<1>. HIDE DEF IInv, TypeOK, Handlers, Threads, Labels, execVars, connVars, clientVars,
         pipeVars
<1>. QED
  BY <1>1, <1>2, <1>3, <1>4, <1>5, <1>6, <1>7, <1>8, <1>9, <1>10, <1>11, <1>12, <1>13,
     <1>14, <1>15, <1>16, <1>17, <1>18, <1>19, <1>20, <1>21, <1>22, <1>23, <1>24, <1>25,
     <1>26, <1>27, <1>28, <1>29, <1>30, <1>31
     DEF Next, WorkerStep, SubmitStep, StreamStep, InvokeStep, ScriptStep, TaskStep,
         CloseStep, WriteStep

\* One status or none is at most one.
LEMMA AtMostOne ==
    ASSUME NEW q, q = <<>> \/ q = <<"refused">>
    PROVE  Len(q) <= 1
<1>1. CASE q = <<>>
  BY <1>1
<1>2. CASE q = <<"refused">>
  <2>1. Len(<<"refused">>) = 1
    OBVIOUS
  <2>. QED
    BY <1>2, <2>1
<1>. QED
  BY <1>1, <1>2

\* A step keeps the parts about control.
LEMMA ControlStep ==
    IInv /\ [Next]_vars =>
        (LabelsOK /\ TasksOK /\ StreamOK /\ MonitorOK /\ SentOK /\ Safety)'
<1> SUFFICES ASSUME IInv, [Next]_vars
             PROVE  (LabelsOK /\ TasksOK /\ StreamOK /\ MonitorOK /\ SentOK /\ Safety)'
  OBVIOUS
<1> USE ClientRequestsAssumption
       DEF IInv, TypeOK, LabelsOK, TasksOK, StreamOK, MonitorOK, SentOK, Safety, Reported,
           OneExitStatus, NeverTerminatedStatus, ClosedIsAnswered, ReportedOutcomeIsReal,
           Handlers, Threads, Status, Labels, AfterTask, Done, Other,
           execVars, connVars, clientVars, pipeVars
<1>1. CASE OpenRefused
  <2>1. sent = <<>> /\ future["stream"] = "none"
    BY <1>1 DEF OpenRefused, sendExit, Goto
  <2>2. LabelsOK'
    BY <1>1, <2>1 DEF OpenRefused, sendExit, Goto
  <2>3. TasksOK'
    BY <1>1, <2>1 DEF OpenRefused, sendExit, Goto
  <2>4. StreamOK'
    BY <1>1, <2>1 DEF OpenRefused, sendExit, Goto
  <2>5. MonitorOK'
    BY <1>1, <2>1 DEF OpenRefused, sendExit, Goto
  <2>6. SentOK'
    BY <1>1, <2>1 DEF OpenRefused, sendExit, Goto
  <2>7. Safety'
    <3>1. OneExitStatus'
      <4>1. sent' = <<>> \/ sent' = <<"refused">>
        BY <1>1, <2>1 DEF OpenRefused, sendExit
      <4>. HIDE DEF IInv, TypeOK, LabelsOK, TasksOK, StreamOK, MonitorOK, SentOK, Safety
      <4>. QED
        BY <4>1, AtMostOne
    <3>2. NeverTerminatedStatus'
      BY <1>1, <2>1 DEF OpenRefused, sendExit, Goto
    <3>3. ClosedIsAnswered'
      BY <1>1, <2>1 DEF OpenRefused, sendExit, Goto
    <3>4. ReportedOutcomeIsReal'
      BY <1>1, <2>1 DEF OpenRefused, sendExit, Goto
    <3>. QED
      BY <3>1, <3>2, <3>3, <3>4
  <2>. QED
    BY <1>1, <2>1, <2>2, <2>3, <2>4, <2>5, <2>6, <2>7 DEF OpenRefused, sendExit, Goto
<1>2. CASE OpenSession
  BY <1>2 DEF OpenSession, Goto
<1>3. CASE Shutdown
  BY <1>3 DEF Shutdown, Goto
<1>4. CASE \E h \in Handlers : Submit(h)
  BY <1>4 DEF Submit, Goto
<1>5. CASE \E h \in Handlers : Assign(h)
  BY <1>5 DEF Assign, Goto
<1>6. CASE ReadFromClosedSocket
  BY <1>6 DEF ReadFromClosedSocket, Finish, Goto
<1>7. CASE ReadStreamRequest
  <2>1. LabelsOK'
    BY <1>7 DEF ReadStreamRequest, Finish, Goto, EndStatus
  <2>2. TasksOK'
    BY <1>7 DEF ReadStreamRequest, Finish, Goto, EndStatus
  <2>3. StreamOK'
    BY <1>7 DEF ReadStreamRequest, Finish, Goto, EndStatus
  <2>4. MonitorOK'
    BY <1>7 DEF ReadStreamRequest, Finish, Goto, EndStatus
  <2>5. SentOK'
    BY <1>7 DEF ReadStreamRequest, Finish, Goto, EndStatus
  <2>6. Safety'
    BY <1>7 DEF ReadStreamRequest, Finish, Goto, EndStatus
  <2>. QED
    BY <1>7, <2>1, <2>2, <2>3, <2>4, <2>5, <2>6 DEF ReadStreamRequest, Finish, Goto,
       EndStatus
<1>8. CASE TransferStreamRequest
  BY <1>8 DEF TransferStreamRequest, Goto
<1>9. CASE TransferFails
  <2>1. LabelsOK'
    BY <1>9 DEF TransferFails, Finish, Goto
  <2>2. TasksOK'
    BY <1>9 DEF TransferFails, Finish, Goto
  <2>3. StreamOK'
    BY <1>9 DEF TransferFails, Finish, Goto
  <2>4. MonitorOK'
    BY <1>9 DEF TransferFails, Finish, Goto
  <2>5. SentOK'
    BY <1>9 DEF TransferFails, Finish, Goto
  <2>6. Safety'
    BY <1>9 DEF TransferFails, Finish, Goto
  <2>. QED
    BY <1>9, <2>1, <2>2, <2>3, <2>4, <2>5, <2>6 DEF TransferFails, Finish, Goto
<1>10. CASE TearDown
  BY <1>10 DEF TearDown, Goto
<1>11. CASE SetUp
  BY <1>11 DEF SetUp, Finish, Goto
<1>12. CASE AwaitAllSubThreads
  <2>1. LabelsOK'
    BY <1>12 DEF AwaitAllSubThreads, Goto
  <2>2. TasksOK'
    BY <1>12 DEF AwaitAllSubThreads, Goto
  <2>3. StreamOK'
    BY <1>12 DEF AwaitAllSubThreads, Goto
  <2>4. MonitorOK'
    BY <1>12 DEF AwaitAllSubThreads, Goto
  <2>5. SentOK'
    BY <1>12 DEF AwaitAllSubThreads, Goto
  <2>6. Safety'
    BY <1>12 DEF AwaitAllSubThreads, Goto
  <2>. QED
    BY <1>12, <2>1, <2>2, <2>3, <2>4, <2>5, <2>6 DEF AwaitAllSubThreads, Goto
<1>13. CASE KillAllSubThreads
  BY <1>13 DEF KillAllSubThreads, Goto
<1>14. CASE ScriptInterruptsItself
  BY <1>14 DEF ScriptInterruptsItself
<1>15. CASE SpawnSubThread
  BY <1>15 DEF SpawnSubThread
<1>16. CASE \E by \in {"main", "sub"} : ReadStdin(by)
  <2>1. LabelsOK'
    BY <1>16 DEF ReadStdin
  <2>2. TasksOK'
    BY <1>16 DEF ReadStdin
  <2>3. StreamOK'
    BY <1>16 DEF ReadStdin
  <2>4. MonitorOK'
    BY <1>16 DEF ReadStdin
  <2>5. SentOK'
    BY <1>16 DEF ReadStdin
  <2>6. Safety'
    BY <1>16 DEF ReadStdin
  <2>. QED
    BY <1>16, <2>1, <2>2, <2>3, <2>4, <2>5, <2>6 DEF ReadStdin
<1>17. CASE ScriptEnds
  <2>1. LabelsOK'
    BY <1>17 DEF ScriptEnds, Finish, Goto
  <2>2. TasksOK'
    BY <1>17 DEF ScriptEnds, Finish, Goto
  <2>3. StreamOK'
    BY <1>17 DEF ScriptEnds, Finish, Goto
  <2>4. MonitorOK'
    BY <1>17 DEF ScriptEnds, Finish, Goto
  <2>5. SentOK'
    BY <1>17 DEF ScriptEnds, Finish, Goto
  <2>6. Safety'
    BY <1>17 DEF ScriptEnds, Finish, Goto
  <2>. QED
    BY <1>17, <2>1, <2>2, <2>3, <2>4, <2>5, <2>6 DEF ScriptEnds, Finish, Goto
<1>18. CASE SubThreadEnds
  BY <1>18 DEF SubThreadEnds
<1>19. CASE \E h \in Handlers : Begin(h)
  BY <1>19 DEF Begin, Goto
<1>20. CASE \E h \in Handlers : SetFuture(h)
  BY <1>20 DEF SetFuture, Goto
<1>21. CASE \E h \in Handlers : GetExitStatus(h)
  BY <1>21 DEF GetExitStatus, Finish, Goto
<1>22. CASE \E h \in Handlers : AwaitInterrupted(h)
  BY <1>22 DEF AwaitInterrupted, Goto
<1>23. CASE \E h \in Handlers : CancelOther(h)
  <2>1. LabelsOK'
    BY <1>23 DEF CancelOther, Goto
  <2>2. TasksOK'
    BY <1>23 DEF CancelOther, Goto
  <2>3. StreamOK'
    BY <1>23 DEF CancelOther, Goto
  <2>4. MonitorOK'
    BY <1>23 DEF CancelOther, Goto
  <2>5. SentOK'
    BY <1>23 DEF CancelOther, Goto
  <2>6. Safety'
    BY <1>23 DEF CancelOther, Goto
  <2>. QED
    BY <1>23, <2>1, <2>2, <2>3, <2>4, <2>5, <2>6 DEF CancelOther, Goto
<1>24. CASE \E h \in Handlers : ThreadExits(h)
  BY <1>24 DEF ThreadExits, Finish, Goto
<1>25. CASE \E t \in Threads : EnterCloseSafely(t)
  BY <1>25 DEF EnterCloseSafely, Goto, AfterClose
<1>26. CASE \E t \in Threads : SendExit(t)
  BY <1>26 DEF SendExit, sendExit, Goto
<1>27. CASE \E t \in Threads : CloseConnection(t)
  <2>1. LabelsOK'
    BY <1>27 DEF CloseConnection, Goto, AfterClose
  <2>2. TasksOK'
    BY <1>27 DEF CloseConnection, Goto, AfterClose
  <2>3. StreamOK'
    BY <1>27 DEF CloseConnection, Goto, AfterClose
  <2>4. MonitorOK'
    BY <1>27 DEF CloseConnection, Goto, AfterClose
  <2>5. SentOK'
    BY <1>27 DEF CloseConnection, Goto, AfterClose
  <2>6. Safety'
    BY <1>27 DEF CloseConnection, Goto, AfterClose
  <2>. QED
    BY <1>27, <2>1, <2>2, <2>3, <2>4, <2>5, <2>6 DEF CloseConnection, Goto, AfterClose
<1>28. CASE ClientSends
  BY <1>28 DEF ClientSends
<1>29. CASE ClientLeaves
  BY <1>29 DEF ClientLeaves
<1>30. CASE SessionOver
  BY <1>30 DEF SessionOver, vars
<1>31. CASE UNCHANGED vars
  BY <1>31 DEF vars, execVars, connVars, clientVars, pipeVars
<1>. HIDE DEF IInv, TypeOK, LabelsOK, TasksOK, StreamOK, MonitorOK, SentOK, Safety,
         Reported, OneExitStatus, NeverTerminatedStatus, ClosedIsAnswered,
         ReportedOutcomeIsReal, Handlers, Threads, Status, Labels, AfterTask, Done,
         Other, execVars, connVars, clientVars, pipeVars
<1>. QED
  BY <1>1, <1>2, <1>3, <1>4, <1>5, <1>6, <1>7, <1>8, <1>9, <1>10, <1>11, <1>12, <1>13,
     <1>14, <1>15, <1>16, <1>17, <1>18, <1>19, <1>20, <1>21, <1>22, <1>23, <1>24, <1>25,
     <1>26, <1>27, <1>28, <1>29, <1>30, <1>31
     DEF Next, WorkerStep, SubmitStep, StreamStep, InvokeStep, ScriptStep, TaskStep,
         CloseStep, WriteStep

\* The inductive invariant is preserved by every step.
THEOREM Inductive == IInv /\ [Next]_vars => IInv'
BY TypeStep, ControlStep DEF IInv

\* A connection that was just accepted: no thread has started.
THEOREM Initial == Init => IInv
<1> SUFFICES ASSUME Init PROVE IInv
  OBVIOUS
<1> USE PipeSizeAssumption DEF Init, Handlers, Threads
<1>1. TypeOK
  <2>1. pc \in [Threads -> Labels]
    BY DEF Labels
  <2>2. sent \in Seq(Status) /\ requests \in Seq(Requests \cup Leaving)
    OBVIOUS
  <2>3. taken \in 0 .. Len(requests) /\ pipe \in 0 .. PipeSize
    OBVIOUS
  <2>4. future \in [Handlers -> {"none", "new", "cancelled"} \cup Status]
    OBVIOUS
  <2>5. result \in [Threads -> Status]
    BY DEF Status
  <2>. QED
    BY <2>1, <2>2, <2>3, <2>4, <2>5 DEF TypeOK
<1>2. LabelsOK /\ TasksOK /\ StreamOK /\ MonitorOK
  BY DEF LabelsOK, Labels, TasksOK, StreamOK, MonitorOK, AfterTask, Done, Other
<1>3. SentOK /\ Safety
  BY DEF SentOK, Safety, OneExitStatus, NeverTerminatedStatus, ClosedIsAnswered,
         ReportedOutcomeIsReal, Done
<1>. QED
  BY <1>1, <1>2, <1>3 DEF IInv

\* It holds in every reachable state of a connection.
THEOREM Invariance == Spec => []IInv
BY Initial, Inductive, PTL DEF Spec

\* Every variable keeps its type.
THEOREM TypeCorrect == Spec => []TypeOK
<1>1. IInv => TypeOK
  BY DEF IInv
<1>. QED
  BY Invariance, <1>1, PTL

\* At most one exit status reaches the client, however the two handlers,
\* run() and terminated() race into closeSafely.
THEOREM OneStatus == Spec => []OneExitStatus
<1>1. IInv => OneExitStatus
  BY DEF IInv, Safety
<1>. QED
  BY Invariance, <1>1, PTL

\* The precautionary status of terminated() is never the one that is sent.
THEOREM NoTerminated == Spec => []NeverTerminatedStatus
<1>1. IInv => NeverTerminatedStatus
  BY DEF IInv, Safety
<1>. QED
  BY Invariance, <1>1, PTL

\* The connection is answered and closed only after both tasks are settled.
THEOREM SettledFirst == Spec => []SettledBeforeClosing
<1>1. IInv => SettledBeforeClosing
  BY DEF IInv, SentOK, SettledBeforeClosing
<1>. QED
  BY Invariance, <1>1, PTL

\* A client that is there and listens is answered before the close.
THEOREM Answered == Spec => []ClosedIsAnswered
<1>1. IInv => ClosedIsAnswered
  BY DEF IInv, Safety
<1>. QED
  BY Invariance, <1>1, PTL

\* The status is the outcome of one of the two tasks.
THEOREM RealOutcome == Spec => []ReportedOutcomeIsReal
<1>1. IInv => ReportedOutcomeIsReal
  BY DEF IInv, Safety
<1>. QED
  BY Invariance, <1>1, PTL

\* A settled task and a closed connection stay so: the session's phase only
\* moves forward.
LEMMA RefinementStep == IInv /\ [Next]_vars => [S!Next]_<<Phase, sent>>
<1> SUFFICES ASSUME IInv, [Next]_vars PROVE [S!Next]_<<Phase, sent>>
  OBVIOUS
<1> USE DEF IInv, TypeOK, LabelsOK, TasksOK, MonitorOK, SentOK, Handlers, Threads,
        Labels, Done, Other, AfterTask,
        Phase, Refused, BuiltInCommand, S!Next, S!Decide, S!Refuse, S!Reply, S!Close,
        execVars, connVars, clientVars, pipeVars
<1>1. CASE OpenRefused
  BY <1>1 DEF OpenRefused, sendExit, Goto, Status
<1>2. CASE OpenSession
  BY <1>2 DEF OpenSession, Goto
<1>3. CASE Shutdown
  BY <1>3 DEF Shutdown, Goto
<1>4. CASE \E h \in Handlers : Submit(h)
  BY <1>4 DEF Submit, Goto
<1>5. CASE \E h \in Handlers : Assign(h)
  BY <1>5 DEF Assign, Goto
<1>6. CASE ReadFromClosedSocket
  BY <1>6 DEF ReadFromClosedSocket, Finish, Goto
<1>7. CASE ReadStreamRequest
  BY <1>7 DEF ReadStreamRequest, Finish, Goto, EndStatus
<1>8. CASE TransferStreamRequest
  BY <1>8 DEF TransferStreamRequest, Goto
<1>9. CASE TransferFails
  BY <1>9 DEF TransferFails, Finish, Goto
<1>10. CASE TearDown
  BY <1>10 DEF TearDown, Goto
<1>11. CASE SetUp
  BY <1>11 DEF SetUp, Finish, Goto
<1>12. CASE AwaitAllSubThreads
  BY <1>12 DEF AwaitAllSubThreads, Goto
<1>13. CASE KillAllSubThreads
  BY <1>13 DEF KillAllSubThreads, Goto
<1>14. CASE ScriptInterruptsItself
  BY <1>14 DEF ScriptInterruptsItself
<1>15. CASE SpawnSubThread
  BY <1>15 DEF SpawnSubThread
<1>16. CASE \E by \in {"main", "sub"} : ReadStdin(by)
  BY <1>16 DEF ReadStdin
<1>17. CASE ScriptEnds
  BY <1>17 DEF ScriptEnds, Finish, Goto
<1>18. CASE SubThreadEnds
  BY <1>18 DEF SubThreadEnds
<1>19. CASE \E h \in Handlers : Begin(h)
  BY <1>19 DEF Begin, Goto
<1>20. CASE \E h \in Handlers : SetFuture(h)
  BY <1>20 DEF SetFuture, Goto
<1>21. CASE \E h \in Handlers : GetExitStatus(h)
  BY <1>21 DEF GetExitStatus, Finish, Goto
<1>22. CASE \E h \in Handlers : AwaitInterrupted(h)
  BY <1>22 DEF AwaitInterrupted, Goto
<1>23. CASE \E h \in Handlers : CancelOther(h)
  BY <1>23 DEF CancelOther, Goto
<1>24. CASE \E h \in Handlers : ThreadExits(h)
  BY <1>24 DEF ThreadExits, Finish, Goto
<1>25. CASE \E t \in Threads : EnterCloseSafely(t)
  BY <1>25 DEF EnterCloseSafely, Goto, AfterClose
<1>26. CASE \E t \in Threads : SendExit(t)
  <2>1. PICK t \in Threads : SendExit(t)
    BY <1>26
  <2>2. holder = t /\ conn /\ ~closed /\ pc[t] = "send"
    BY <2>1 DEF SendExit
  <2>3. sent = <<>>
    BY <2>2
  <2>4. Phase = "decided" /\ Phase' = "decided"
    BY <2>1, <2>2 DEF SendExit, Goto
  <2>5. result[t] \in Status
    BY <2>1
  <2>6. sent' = sent \/ sent' = <<result[t]>>
    BY <2>1, <2>3 DEF SendExit, sendExit
  <2>. QED
    BY <2>3, <2>4, <2>5, <2>6
<1>27. CASE \E t \in Threads : CloseConnection(t)
  BY <1>27 DEF CloseConnection, Goto, AfterClose
<1>28. CASE ClientSends
  BY <1>28 DEF ClientSends
<1>29. CASE ClientLeaves
  BY <1>29 DEF ClientLeaves
<1>30. CASE SessionOver
  BY <1>30 DEF SessionOver, vars
<1>31. CASE UNCHANGED vars
  BY <1>31 DEF vars
<1>. HIDE DEF IInv, TypeOK, LabelsOK, TasksOK, MonitorOK, SentOK, Handlers, Threads,
         Phase, S!Next
<1>. QED
  BY <1>1, <1>2, <1>3, <1>4, <1>5, <1>6, <1>7, <1>8, <1>9, <1>10, <1>11, <1>12, <1>13,
     <1>14, <1>15, <1>16, <1>17, <1>18, <1>19, <1>20, <1>21, <1>22, <1>23, <1>24, <1>25,
     <1>26, <1>27, <1>28, <1>29, <1>30, <1>31
     DEF Next, WorkerStep, SubmitStep, StreamStep, InvokeStep, ScriptStep, TaskStep,
         CloseStep, WriteStep

\* A connection served by three threads is a Session: one decision, at most one
\* reply, then the close.
THEOREM ImplementsSession == Spec => SessionSpec
<1>1. Init => S!Init
  BY DEF Init, S!Init, Phase, Refused, BuiltInCommand, Done, Handlers, Threads
<1>. QED
  BY <1>1, RefinementStep, Invariance, PTL DEF Spec, SessionSpec, S!Spec
=============================================================================
