---------------------------- MODULE RequestWorker ----------------------------
(***************************************************************************)
(* One connection of the server: a RequestWorker (a ThreadPoolExecutor of  *)
(* two threads) that parses the request and runs a StreamRequestHandler    *)
(* (socket -> stdin pipe) beside a GroovyInvokeHandler (the user script).  *)
(* Whichever handler ends first cancels the other in afterExecute and then *)
(* sends the exit status and closes the ClientConnection in closeSafely,   *)
(* racing for the same monitor with the handler it has just cancelled.     *)
(***************************************************************************)
EXTENDS Naturals, Sequences

CONSTANTS PipeSize,        \* chunks that fit in the PipedInputStream's buffer
          MaxRequests,     \* bound: stream requests the client sends
          ClientRequests,  \* the kinds of stream request this client writes
          SelfInterrupt    \* may the script set its own thread's interrupt flag?

ASSUME PipeSizeAssumption == PipeSize \in Nat \ {0}
ASSUME MaxRequestsAssumption == MaxRequests \in Nat
ASSUME SelfInterruptAssumption == SelfInterrupt \in BOOLEAN

Handlers == {"stream", "invoke"}
Threads == Handlers \cup {"worker"}
Other(h) == IF h = "stream" THEN "invoke" ELSE "stream"

\* The ExitStatus constants; "exit" is the code the script gave System.exit().
Status == {"success", "interrupted", "invalid_request", "illegal_state",
           "unexpected", "terminated", "refused", "exit"}

\* What the client writes after its invocation request. "stdinClosed" is
\* "Size: 0" (or any header StreamRequest.check rejects); "emptyCmd" has Size 0
\* and a command other than interrupt;
\* "negative" is Size -1; "eof" and "reset" are the client leaving.
Leaving == {"eof", "reset"}
Requests == {"data", "interrupt", "stdinClosed", "emptyCmd", "negative"}
ASSUME ClientRequestsAssumption == ClientRequests \subseteq Requests

\* How a request that ends the stream handler makes its future end.
EndStatus == [interrupt   |-> "interrupted",   \* GServInterruptedException
              stdinClosed |-> "interrupted",   \* StreamRequest.check throws
              eof         |-> "interrupted",   \* empty header: check throws
              negative    |-> "unexpected",    \* NegativeArraySizeException
              reset       |-> "success"]       \* IOException: ends normally

VARIABLES pc,          \* where each thread is
          future,      \* state of each handler's FutureTask
          assigned,    \* which of streamFuture and invokeFuture are non-null
          interrupted, \* handlers whose thread has its interrupt flag set
          result,      \* the exception or exit status each thread carries
          conn,        \* RequestWorker.conn is non-null
          holder,      \* thread inside closeSafely's monitor
          closed,      \* ClientConnection.closed: the socket is closed
          toreDown,    \* ClientConnection.toreDownPipes
          silent,      \* silentExitStatus: the "simple" protocol
          sent,        \* exit statuses written to the client
          requests,    \* everything the client has written
          taken,       \* how much of it the server has consumed
          gone,        \* the client has closed its end
          pipe,        \* chunks in the pipe to the script's stdin
          reader,      \* the thread that read the pipe last
          sub          \* the script's sub thread

execVars == <<pc, future, assigned, interrupted, result>>
connVars == <<conn, holder, closed, toreDown, silent, sent>>
clientVars == <<requests, taken, gone>>
pipeVars == <<pipe, reader, sub>>
vars == <<execVars, connVars, clientVars, pipeVars>>

Init ==
    /\ pc = [t \in Threads |-> IF t = "worker" THEN "open" ELSE "idle"]
    /\ future = [h \in Handlers |-> "none"]
    /\ assigned = {}
    /\ interrupted = {}
    /\ result = [t \in Threads |-> "success"]
    /\ conn = TRUE
    /\ holder = "none"
    /\ closed = FALSE
    /\ toreDown = FALSE
    /\ silent = FALSE
    /\ sent = <<>>
    /\ requests = <<>>
    /\ taken = 0
    /\ gone = FALSE
    /\ pipe = 0
    /\ reader = "none"
    /\ sub = "none"

Goto(t, label) == pc' = [pc EXCEPT ![t] = label]
Finish(t, label, status) == /\ Goto(t, label)
                            /\ result' = [result EXCEPT ![t] = status]

\* sendExit: nothing for a silent connection; may be lost if the client left.
sendExit(status) == \/ /\ ~silent
                       /\ sent' = Append(sent, status)
                    \/ /\ silent \/ gone
                       /\ UNCHANGED sent

-----------------------------------------------------------------------------
(* The worker's own thread: RequestWorker.run                              *)

\* openSession throws: wrong address, token or header. The status is sent
\* and run returns; nothing closes the connection.
OpenRefused ==
    /\ pc["worker"] = "open"
    /\ sendExit("refused")
    /\ Goto("worker", "dead")
    /\ UNCHANGED <<future, assigned, interrupted, result, conn, holder, closed,
                   toreDown, silent, clientVars, pipeVars>>

\* openSession returns: a built-in command goes straight to closeSafely.
OpenSession ==
    /\ pc["worker"] = "open"
    /\ \E command \in BOOLEAN : Goto("worker", IF command THEN "enter" ELSE "submit")
    /\ silent' \in BOOLEAN
    /\ UNCHANGED <<future, assigned, interrupted, result, conn, holder, closed,
                   toreDown, sent, clientVars, pipeVars>>

\* submit(...) starts a pool thread before its result is assigned to a field.
Submit(h) ==
    /\ pc["worker"] = "submit"
    /\ future[h] = "none"
    /\ h = "invoke" => "stream" \in assigned
    /\ future' = [future EXCEPT ![h] = "new"]
    /\ Goto(h, "start")
    /\ UNCHANGED <<assigned, interrupted, result, connVars, clientVars, pipeVars>>

\* Mutant of Assign: the second result stays in a local variable.
AssignForgotten(h) ==
    /\ pc["worker"] = "submit" /\ future[h] # "none" /\ h \notin assigned
    /\ assigned' = {"stream"}
    /\ Goto("worker", IF h = "invoke" THEN "shutdown" ELSE "submit")
    /\ UNCHANGED <<future, interrupted, result, connVars, clientVars, pipeVars>>

Assign(h) ==
    /\ pc["worker"] = "submit"
    /\ future[h] # "none"
    /\ h \notin assigned
    /\ assigned' = assigned \cup {h}
    /\ Goto("worker", IF h = "invoke" THEN "shutdown" ELSE "submit")
    /\ UNCHANGED <<future, interrupted, result, connVars, clientVars, pipeVars>>

Shutdown ==
    /\ pc["worker"] = "shutdown"
    /\ Goto("worker", "dead")
    /\ UNCHANGED <<future, assigned, interrupted, result, connVars, clientVars,
                   pipeVars>>

-----------------------------------------------------------------------------
(* FutureTask, as both handlers run in it                                  *)

\* A task cancelled before its thread began is never run.
Begin(h) ==
    /\ pc[h] = "start"
    /\ Goto(h, IF future[h] # "new" THEN "await"
               ELSE IF h = "stream" THEN "read" ELSE "setup")
    /\ UNCHANGED <<future, assigned, interrupted, result, connVars, clientVars,
                   pipeVars>>

\* The outcome of a task that was cancelled meanwhile is dropped.
SetFuture(h) ==
    /\ pc[h] = "set"
    /\ future' = [future EXCEPT ![h] = IF @ = "new" THEN result[h] ELSE @]
    /\ Goto(h, "await")
    /\ UNCHANGED <<assigned, interrupted, result, connVars, clientVars, pipeVars>>

-----------------------------------------------------------------------------
(* StreamRequestHandler.run                                                *)

\* The socket was closed under the read: an IOException, or a
\* NullPointerException when the field socket is already null.
ReadFromClosedSocket ==
    /\ pc["stream"] = "read"
    /\ closed
    /\ \E s \in {"success", "unexpected"} : Finish("stream", "finally", s)
    /\ UNCHANGED <<future, assigned, interrupted, connVars, clientVars, pipeVars>>

ReadStreamRequest ==
    /\ pc["stream"] = "read"
    /\ ~closed
    /\ taken < Len(requests)
    /\ taken' = taken + 1
    /\ LET request == requests[taken + 1] IN
         \/ /\ request \in DOMAIN EndStatus
            /\ Finish("stream", "finally", EndStatus[request])
            /\ UNCHANGED toreDown
         \/ /\ request = "emptyCmd"
            /\ toreDown' = TRUE
            /\ UNCHANGED <<pc, result>>
         \/ /\ request = "data"
            /\ IF toreDown THEN UNCHANGED pc ELSE Goto("stream", "write")
            /\ UNCHANGED <<toreDown, result>>
    /\ UNCHANGED <<future, assigned, interrupted, conn, holder, closed, silent,
                   sent, requests, gone, pipeVars>>

\* The pipe's writer notices that the thread that last read is dead.
ReaderDead == \/ reader = "sub" /\ sub = "dead"
              \/ reader = "main" /\ pc["invoke"] = "dead"

\* Mutant of TransferStreamRequest: the writer does not wait for space.
TransferWithoutWaiting ==
    /\ pc["stream"] = "write" /\ ~toreDown /\ ~ReaderDead
    /\ pipe' = pipe + 1
    /\ Goto("stream", "read")
    /\ UNCHANGED <<future, assigned, interrupted, result, connVars, clientVars,
                   reader, sub>>

\* transferStreamRequest: blocks while the pipe is full.
TransferStreamRequest ==
    /\ pc["stream"] = "write"
    /\ ~toreDown /\ ~ReaderDead /\ pipe < PipeSize
    /\ pipe' = pipe + 1
    /\ Goto("stream", "read")
    /\ UNCHANGED <<future, assigned, interrupted, result, connVars, clientVars,
                   reader, sub>>

\* transferStreamRequest fails: the pipe is gone, its reader is dead
\* ("Read end dead") or the blocked writer is interrupted. Every failure but
\* the NullPointerException ends the handler normally.
TransferFails ==
    /\ pc["stream"] = "write"
    /\ \/ /\ toreDown
          /\ \E s \in {"success", "unexpected"} : Finish("stream", "finally", s)
          /\ UNCHANGED interrupted
       \/ /\ ~toreDown /\ ReaderDead
          /\ Finish("stream", "finally", "success")
          /\ UNCHANGED interrupted
       \/ /\ ~toreDown /\ pipe = PipeSize /\ "stream" \in interrupted
          /\ Finish("stream", "finally", "success")
          /\ interrupted' = interrupted \ {"stream"}
    /\ UNCHANGED <<future, assigned, connVars, clientVars, pipeVars>>

TearDown ==
    /\ pc["stream"] = "finally"
    /\ toreDown' = TRUE
    /\ Goto("stream", "set")
    /\ UNCHANGED <<future, assigned, interrupted, result, conn, holder, closed,
                   silent, sent, clientVars, pipeVars>>

-----------------------------------------------------------------------------
(* GroovyInvokeHandler.run                                                 *)

\* setDir, setupEnvVars and removeClasspathFromArgs, each of which may refuse.
SetUp ==
    /\ pc["invoke"] = "setup"
    /\ \/ /\ Goto("invoke", "script")
          /\ UNCHANGED result
       \/ \E s \in {"illegal_state", "invalid_request"} : Finish("invoke", "kill", s)
    /\ UNCHANGED <<future, assigned, interrupted, connVars, clientVars, pipeVars>>

\* A thread of the script reads stdin; an interrupted, blocked read returns -1
\* and clears the flag.
ReadStdin(by) ==
    /\ \/ by = "main" /\ pc["invoke"] = "script"
       \/ by = "sub" /\ sub \in {"thread", "daemon"}
    /\ ~closed
    /\ reader' = by
    /\ pipe' = IF pipe > 0 THEN pipe - 1 ELSE 0
    /\ IF by = "main" /\ pipe = 0 /\ ~toreDown
         THEN interrupted' = interrupted \ {"invoke"}
         ELSE UNCHANGED interrupted
    /\ UNCHANGED <<pc, future, assigned, result, connVars, clientVars, sub>>

ScriptInterruptsItself ==
    /\ SelfInterrupt
    /\ pc["invoke"] = "script"
    /\ interrupted' = interrupted \cup {"invoke"}
    /\ UNCHANGED <<pc, future, assigned, result, connVars, clientVars, pipeVars>>

SpawnSubThread ==
    /\ pc["invoke"] = "script"
    /\ sub = "none"
    /\ sub' \in {"thread", "daemon"}
    /\ UNCHANGED <<execVars, connVars, clientVars, pipe, reader>>

SubThreadEnds ==
    /\ sub \in {"thread", "daemon"}
    /\ sub' = "dead"
    /\ UNCHANGED <<execVars, connVars, clientVars, pipe, reader>>

\* The script returns, or throws something GroovyMain2 prints and swallows;
\* it calls System.exit, or GroovyMain2 fails before the script runs; it throws
\* the InterruptedException of a pending interrupt, which GroovyMain2 wraps.
ScriptEnds ==
    /\ pc["invoke"] = "script"
    /\ \/ /\ Finish("invoke", "join", "success")
          /\ UNCHANGED interrupted
       \/ /\ \E s \in {"exit", "unexpected"} : Finish("invoke", "kill", s)
          /\ UNCHANGED interrupted
       \/ /\ "invoke" \in interrupted
          /\ Finish("invoke", "kill", "unexpected")
          /\ interrupted' = interrupted \ {"invoke"}
    /\ UNCHANGED <<future, assigned, connVars, clientVars, pipeVars>>

\* awaitAllSubThreads: joins a non-daemon thread, or leaves when interrupted.
AwaitAllSubThreads ==
    /\ pc["invoke"] = "join"
    /\ \/ /\ sub # "thread"
          /\ UNCHANGED interrupted
       \/ /\ sub = "thread"
          /\ "invoke" \in interrupted
          /\ interrupted' = interrupted \ {"invoke"}
    /\ Goto("invoke", "kill")
    /\ UNCHANGED <<future, assigned, result, connVars, clientVars, pipeVars>>

KillAllSubThreads ==
    /\ pc["invoke"] = "kill"
    /\ sub' = IF sub = "none" THEN "none" ELSE "dead"
    /\ Goto("invoke", "set")
    /\ UNCHANGED <<future, assigned, interrupted, result, connVars, clientVars,
                   pipe, reader>>

-----------------------------------------------------------------------------
(* afterExecute and closeSafely                                            *)

\* Mutant of GetExitStatus: the handler's own outcome, cancelled or not.
GetOwnOutcome(h) ==
    /\ pc[h] = "await" /\ assigned = Handlers
    /\ Goto(h, "cancel")
    /\ UNCHANGED <<future, assigned, interrupted, result, connVars, clientVars, pipeVars>>

\* Once both fields are assigned: getExitStatus of the handler's own future.
GetExitStatus(h) ==
    /\ pc[h] = "await"
    /\ assigned = Handlers
    /\ Finish(h, "cancel", IF future[h] = "cancelled" THEN "interrupted" ELSE future[h])
    /\ UNCHANGED <<future, assigned, interrupted, connVars, clientVars, pipeVars>>

\* Thread.sleep in the wait loop throws when the interrupt flag is left set:
\* afterExecute is abandoned and the pool thread dies.
AwaitInterrupted(h) ==
    /\ pc[h] = "await"
    /\ assigned # Handlers
    /\ h \in interrupted
    /\ interrupted' = interrupted \ {h}
    /\ Goto(h, "exit")
    /\ UNCHANGED <<future, assigned, result, connVars, clientVars, pipeVars>>

\* Mutants of CancelOther: the other task is left alone; closing is left to the
\* invoke thread.
CancelNothing(h) ==
    /\ pc[h] = "cancel"
    /\ Goto(h, "enter")
    /\ UNCHANGED <<future, interrupted, assigned, result, connVars, clientVars, pipeVars>>

OnlyInvokeCloses(h) ==
    LET o == Other(h) IN
    /\ pc[h] = "cancel"
    /\ future' = [future EXCEPT ![o] = IF @ = "new" THEN "cancelled" ELSE @]
    /\ Goto(h, IF h = "invoke" THEN "enter" ELSE "exit")
    /\ UNCHANGED <<interrupted, assigned, result, connVars, clientVars, pipeVars>>

\* anotherFuture.cancel(true): interrupts the thread if it runs the task.
CancelOther(h) ==
    LET o == Other(h) IN
    /\ pc[h] = "cancel"
    /\ IF future[o] = "new"
         THEN /\ future' = [future EXCEPT ![o] = "cancelled"]
              /\ interrupted' = IF pc[o] = "start" THEN interrupted ELSE interrupted \cup {o}
         ELSE UNCHANGED <<future, interrupted>>
    /\ Goto(h, "enter")
    /\ UNCHANGED <<assigned, result, connVars, clientVars, pipeVars>>

\* Where closeSafely returns to: a pool thread's afterExecute, or the end of
\* run() and of terminated().
AfterClose(t) == IF t \in Handlers /\ result[t] # "terminated" THEN "exit" ELSE "dead"

\* Mutant of EnterCloseSafely: the status is not sent.
EnterWithoutStatus(t) ==
    /\ pc[t] = "enter" /\ holder = "none" /\ conn
    /\ Goto(t, "close") /\ holder' = t
    /\ UNCHANGED <<future, assigned, interrupted, result, conn, closed, toreDown,
                   silent, sent, clientVars, pipeVars>>

EnterCloseSafely(t) ==
    /\ pc[t] = "enter"
    /\ holder = "none"
    /\ IF conn THEN Goto(t, "send") /\ holder' = t
               ELSE Goto(t, AfterClose(t)) /\ UNCHANGED holder
    /\ UNCHANGED <<future, assigned, interrupted, result, conn, closed, toreDown,
                   silent, sent, clientVars, pipeVars>>

SendExit(t) ==
    /\ pc[t] = "send"
    /\ sendExit(result[t])
    /\ Goto(t, "close")
    /\ UNCHANGED <<future, assigned, interrupted, result, conn, holder, closed,
                   toreDown, silent, clientVars, pipeVars>>

\* Mutants of CloseConnection: conn is kept; the socket is kept open.
CloseKeeping(t, keepConn, keepSocket) ==
    /\ pc[t] = "close"
    /\ closed' = ~keepSocket /\ toreDown' = TRUE /\ conn' = keepConn /\ holder' = "none"
    /\ Goto(t, AfterClose(t))
    /\ UNCHANGED <<future, assigned, interrupted, result, silent, sent, clientVars,
                   pipeVars>>
CloseKeepingConn(t) == CloseKeeping(t, TRUE, FALSE)
CloseKeepingSocket(t) == CloseKeeping(t, FALSE, TRUE)

\* ClientConnection.close, conn = null, and the monitor is released.
CloseConnection(t) ==
    /\ pc[t] = "close"
    /\ closed' = TRUE
    /\ toreDown' = TRUE
    /\ conn' = FALSE
    /\ holder' = "none"
    /\ Goto(t, AfterClose(t))
    /\ UNCHANGED <<future, assigned, interrupted, result, silent, sent, clientVars,
                   pipeVars>>

\* A pool thread leaves the shut-down executor; the last one runs terminated().
ThreadExits(h) ==
    /\ pc[h] = "exit"
    /\ pc["worker"] = "dead"
    /\ IF pc[Other(h)] = "dead" THEN Finish(h, "enter", "terminated")
                                ELSE Goto(h, "dead") /\ UNCHANGED result
    /\ UNCHANGED <<future, assigned, interrupted, connVars, clientVars, pipeVars>>

-----------------------------------------------------------------------------
(* The client and the specification                                        *)

\* What is written to a connection the server has closed reaches nobody.
ClientSends ==
    /\ ~gone /\ ~closed
    /\ Len(requests) < MaxRequests
    /\ \E m \in ClientRequests : requests' = Append(requests, m)
    /\ UNCHANGED <<execVars, connVars, taken, gone, pipeVars>>

\* The client closes its socket, or dies; a reset drops what was not yet read.
ClientLeaves ==
    /\ ~gone /\ ~closed
    /\ gone' = TRUE
    /\ \E m \in Leaving : /\ requests' = Append(requests, m)
                          /\ taken' = IF m = "reset" THEN Len(requests) ELSE taken
    /\ UNCHANGED <<execVars, connVars, pipeVars>>

SubmitStep == Shutdown \/ \E h \in Handlers : Submit(h) \/ Assign(h)
WorkerStep == OpenRefused \/ OpenSession \/ SubmitStep
StreamStep == \/ ReadFromClosedSocket \/ ReadStreamRequest
              \/ TransferStreamRequest \/ TransferFails \/ TearDown
InvokeStep == SetUp \/ AwaitAllSubThreads \/ KillAllSubThreads
ScriptStep == \/ ScriptInterruptsItself \/ SpawnSubThread
              \/ \E by \in {"main", "sub"} : ReadStdin(by)
TaskStep(h) == \/ Begin(h) \/ SetFuture(h) \/ GetExitStatus(h) \/ AwaitInterrupted(h)
               \/ CancelOther(h) \/ ThreadExits(h)
WriteStep(t) == SendExit(t) \/ CloseConnection(t)
CloseStep(t) == EnterCloseSafely(t) \/ WriteStep(t)

\* Nothing is left to run: the connection was refused, or every thread ended.
SessionOver == /\ pc["worker"] = "dead"
               /\ \A h \in Handlers : pc[h] \in {"idle", "dead"}
               /\ sub \notin {"thread", "daemon"}
               /\ UNCHANGED vars

Next == \/ WorkerStep \/ StreamStep \/ InvokeStep \/ ScriptStep
        \/ ScriptEnds \/ SubThreadEnds
        \/ \E h \in Handlers : TaskStep(h)
        \/ \E t \in Threads : CloseStep(t)
        \/ ClientSends \/ ClientLeaves \/ SessionOver

Spec == Init /\ [][Next]_vars

\* The JVM schedules every runnable thread and keeps no monitor from a waiter.
\* What a thread writes to the socket, sendExit and the flush of close, blocks
\* while the client does not read (and fails once it is gone); the worker's thread
\* before it submits waits for the client's request.
Fairness == /\ WF_vars(SubmitStep) /\ WF_vars(StreamStep) /\ WF_vars(InvokeStep)
            /\ \A h \in Handlers : WF_vars(TaskStep(h))
            /\ \A t \in Threads : WF_vars(EnterCloseSafely(t)) /\ WF_vars(gone /\ WriteStep(t))
FairSpec == Spec /\ Fairness

-----------------------------------------------------------------------------
(* Properties                                                              *)

Labels == {"idle", "open", "submit", "shutdown", "start", "read", "write", "finally",
           "setup", "script", "join", "kill", "set", "await", "cancel", "enter",
           "send", "close", "exit", "dead"}

\* Every variable stays in its domain: the type invariant.
TypeOK ==
    /\ pc \in [Threads -> Labels]
    /\ future \in [Handlers -> {"none", "new", "cancelled"} \cup Status]
    /\ assigned \subseteq Handlers
    /\ interrupted \subseteq Handlers
    /\ result \in [Threads -> Status]
    /\ conn \in BOOLEAN /\ closed \in BOOLEAN
    /\ holder \in Threads \cup {"none"}
    /\ toreDown \in BOOLEAN /\ silent \in BOOLEAN /\ gone \in BOOLEAN
    /\ sent \in Seq(Status)
    /\ requests \in Seq(Requests \cup Leaving)
    /\ taken \in 0 .. Len(requests)
    /\ pipe \in 0 .. PipeSize
    /\ reader \in {"none", "main", "sub"}
    /\ sub \in {"none", "thread", "daemon", "dead"}

Done(h) == future[h] \notin {"none", "new"}
BuiltInCommand == future["stream"] = "none" /\ pc["worker"] \in {"enter", "send", "close"}

\* The connection is answered or closed only when both tasks are settled, so a
\* handler that fails because its socket went away can no longer report that
\* failure as the session's outcome (the order cancel, then closeSafely).
SettledBeforeClosing ==
    future["stream"] # "none" /\ (holder # "none" \/ closed) => \A h \in Handlers : Done(h)

\* Two handlers, run() and terminated() all call closeSafely: the client is
\* written at most one exit status.
OneExitStatus == Len(sent) <= 1

\* terminated() closes only "by way of precaution": its status never arrives.
NeverTerminatedStatus == \A i \in 1 .. Len(sent) : sent[i] # "terminated"

\* A client that neither left nor asked for silence has its exit status by the
\* time the server closes the connection.
ClosedIsAnswered == closed /\ ~silent /\ ~gone => sent # <<>>

\* A status other than the cancellation's own is one that a handler's task
\* really ended with: an aborted script is never reported by its dropped
\* outcome.
ReportedOutcomeIsReal ==
    \A i \in 1 .. Len(sent) :
        future["stream"] # "none" =>
            \E h \in Handlers :
                \/ future[h] = sent[i]
                \/ (future[h] = "cancelled" /\ sent[i] = "interrupted")

\* A client that stays reads what it is sent.
ClientReads == \A t \in Threads : WF_vars(WriteStep(t))

\* Once one handler's task is settled the connection is closed, whether or not
\* the script ever ends: if its client reads or leaves, and as long as the script
\* does not interrupt itself (see AwaitInterrupted).
SettledLeadsToClosed == ClientReads => ((\E h \in Handlers : Done(h)) ~> closed)

\* If the client reads or leaves, and the script and its sub thread end sooner or
\* later, so do both pool threads: none is left behind in a blocked read of the
\* socket or write to the pipe.
ScriptsEnd == WF_vars(ScriptEnds) /\ WF_vars(SubThreadEnds)
ThreadsEnd ==
    ClientReads /\ ScriptsEnd =>
        ((\E h \in Handlers : Done(h)) ~> (\A h \in Handlers : pc[h] = "dead"))

\* A client that has gone away does not hold its connection for ever, if
\* scripts end; whether it read before it went does not matter.
GoneLeadsToClosed == ScriptsEnd => ((gone /\ future["stream"] # "none") ~> closed)

\* The refinement of Session.
Refused == pc["worker"] = "dead" /\ future["stream"] = "none" /\ ~closed
Phase == IF closed THEN "closed"
         ELSE IF Refused \/ BuiltInCommand \/ (\A h \in Handlers : Done(h)) THEN "decided"
         ELSE "running"
S == INSTANCE Session WITH phase <- Phase, reply <- sent
SessionSpec == S!Spec

-----------------------------------------------------------------------------
(* What the code's documentation and tests say and the code does not do    *)

OnlySent(kinds) == \A i \in 1 .. Len(requests) : requests[i] \in kinds

\* StreamRequestHandler: after a closed stdin, go on waiting for an interruption.
StdinCloseIsNoInterrupt ==
    OnlySent({"stdinClosed"}) => future["invoke"] # "cancelled"
=============================================================================
