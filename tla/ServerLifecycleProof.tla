------------------------ MODULE ServerLifecycleProof ------------------------
(***************************************************************************)
(* ServerLifecycle for any number of runs, overlapping or not, with and    *)
(* without servers being killed, and NativeClient for any number of        *)
(* clients beside them.                                                    *)
(*                                                                         *)
(* The argument: the port has one listener, and only the listener writes   *)
(* the token file, so nothing but its own token or a leftover it is about  *)
(* to overwrite can be there; a run forks its daemon once; and a run that  *)
(* waits for the port to close remembers a server that was listening, so   *)
(* when nobody listens any more that server is over.  Clients do to the    *)
(* servers only what ServerLifecycle does, so all this holds with them.    *)
(* What holds of commands and clients as long as they do not overlap       *)
(* follows from what each finds and leaves, stage by stage.                *)
(***************************************************************************)
EXTENDS NativeClient, TLAPS

OneListener == \A s, t \in Listeners : s = t

\* What the token file can hold at each stage of a server.
TokenStages ==
    \A s \in Servers :
        /\ server[s] \in {"none", "forked", "bound", "saving", "dead"} => file # s
        /\ server[s] = "saving" => file \in {Empty, Absent}
        /\ server[s] \in {"serving", "stopping"} => file \in {s, Absent}
        /\ server[s] = "exiting" => file = Absent

\* A run forks its own daemon, once.
NotYetForked == \A c \in CLIs :
    pc[c] = "idle" \/ (pc[c] # "over" /\ goal[c] # "up") => server[c] = "none"

\* How far a run that has not ended can have got.
RunStages == \A c \in CLIs :
    /\ pc[c] # "over" => outcome[c] = "none"
    /\ pc[c] = "idle" => old[c] = NoServer
    /\ goal[c] = "kill" /\ pc[c] \in {"probe", "old", "exists", "read", "dial"} => old[c] = NoServer
    /\ goal[c] # "up" /\ cmd[c] = "start" /\ pc[c] # "idle" => goal[c] = "start"
    /\ pc[c] \in {"fork", "await"} => goal[c] # "kill"
    /\ pc[c] = "await" => goal[c] = "up"
    /\ goal[c] = "up" => pc[c] \in {"await", "read", "dial", "answer", "judge", "over"}
    /\ pc[c] \in {"shutdown", "request", "down", "closed"} => goal[c] = "kill"

OldWasListening == \A c \in CLIs : old[c] # NoServer => server[old[c]] \in Listening \cup Over

IInv == /\ TypeOK /\ OneListener /\ TokenStages /\ NotYetForked
        /\ RunStages /\ OldWasListening /\ KilledIsGone

\* Before the first command: at most one server, and its token or a dead one's.
THEOREM Initial == Init => IInv
<1> SUFFICES ASSUME Init PROVE IInv
  OBVIOUS
<1> USE NamesAssumption DEF Init, Servers, Boot, NoServer, Absent, Empty
<1>1. TypeOK
  BY DEF TypeOK, Listening, Over, Labels
<1>2. OneListener /\ OldWasListening /\ KilledIsGone
  BY DEF OneListener, OldWasListening, KilledIsGone, Listeners, Listening
<1>3. TokenStages /\ NotYetForked /\ RunStages
  BY DEF TokenStages, NotYetForked, RunStages
<1>. QED
  BY <1>1, <1>2, <1>3 DEF IInv

\* The client's steps change no server, but for daemonize(); of the file they
\* can only make nothing.
LEMMA RunKeeps ==
    ASSUME IInv, NEW c \in CLIs, Invoke(c) \/ CLIStep(c) \/ Pong(c)
    PROVE  IInv'
<1> USE NamesAssumption
    DEF IInv, TypeOK, OneListener, TokenStages, NotYetForked, RunStages, OldWasListening,
        KilledIsGone, Listeners, Listening, Over, Labels, Servers, Boot, NoServer, Absent,
        Empty, Commands, Goto, Report, runVars, clientVars
<1>1. CASE Invoke(c)
  BY <1>1 DEF Invoke
<1>2. CASE Probe(c)
  BY <1>2 DEF Probe
<1>3. CASE RemoveOldToken(c)
  BY <1>3 DEF RemoveOldToken
<1>4. CASE CheckToken(c)
  BY <1>4 DEF CheckToken
<1>5. CASE Daemonize(c)
  BY <1>5 DEF Daemonize
<1>6. CASE AwaitToken(c)
  BY <1>6 DEF AwaitToken
<1>7. CASE ReadToken(c)
  BY <1>7 DEF ReadToken, Unavailable
<1>8. CASE Dial(c)
  BY <1>8 DEF Dial, Unavailable
<1>9. CASE Judge(c)
  BY <1>9 DEF Judge
<1>10. CASE ShutdownReadsToken(c)
  BY <1>10 DEF ShutdownReadsToken
<1>11. CASE RequestShutdown(c)
  BY <1>11 DEF RequestShutdown
<1>12. CASE AwaitTokenGone(c)
  BY <1>12 DEF AwaitTokenGone
<1>13. CASE AwaitPortClosed(c)
  BY <1>13 DEF AwaitPortClosed, ShutDownDone
<1>14. CASE Pong(c)
  BY <1>14 DEF Pong
<1>. HIDE DEF IInv
<1>. QED
  BY <1>1, <1>2, <1>3, <1>4, <1>5, <1>6, <1>7, <1>8, <1>9, <1>10, <1>11, <1>12, <1>13, <1>14
     DEF CLIStep

\* The servers' steps change no run.
LEMMA ServerKeeps ==
    ASSUME IInv, NEW s \in Servers, ServerStep(s) \/ Crash(s)
    PROVE  IInv'
<1> USE NamesAssumption
    DEF IInv, TypeOK, OneListener, TokenStages, NotYetForked, RunStages, OldWasListening,
        KilledIsGone, Listeners, Listening, Over, Labels, Servers, Boot, NoServer, Absent,
        Empty, Become, runVars, clientVars
<1>1. CASE Bind(s)
  BY <1>1 DEF Bind
<1>2. CASE CreateTokenFile(s)
  BY <1>2 DEF CreateTokenFile
<1>3. CASE WriteToken(s)
  BY <1>3 DEF WriteToken
<1>4. CASE DeleteToken(s)
  BY <1>4 DEF DeleteToken
<1>5. CASE Exit(s)
  BY <1>5 DEF Exit
<1>6. CASE Crash(s)
  BY <1>6 DEF Crash
<1>. HIDE DEF IInv
<1>. QED
  BY <1>1, <1>2, <1>3, <1>4, <1>5, <1>6 DEF ServerStep

\* A shutdown request makes a serving process one that is exiting.
LEMMA HandleShutdownKeeps ==
    ASSUME IInv, NEW c \in CLIs, HandleShutdown(c)
    PROVE  IInv'
<1>1. peer[c] \in Servers
  BY DEF IInv, TypeOK, HandleShutdown
<1>. QED
  BY <1>1, NamesAssumption
     DEF HandleShutdown, IInv, TypeOK, OneListener, TokenStages, NotYetForked, RunStages,
         OldWasListening, KilledIsGone, Listeners, Listening, Over, Labels, Servers, Boot,
         NoServer, Absent, Empty, Become, runVars, clientVars

\* No step of a command or daemon, and no crash, breaks it.
THEOREM Inductive == IInv /\ [Next]_vars => IInv'
<1> SUFFICES ASSUME IInv, [Next]_vars PROVE IInv'
  OBVIOUS
<1>1. ASSUME NEW c \in CLIs, Invoke(c) \/ CLIStep(c) \/ WorkerStep(c) PROVE IInv'
  BY <1>1, RunKeeps, HandleShutdownKeeps DEF WorkerStep
<1>2. ASSUME NEW s \in Servers, ServerStep(s) \/ Crash(s) PROVE IInv'
  BY <1>2, ServerKeeps
<1>3. CASE UNCHANGED vars
  BY <1>3 DEF vars, runVars, clientVars, IInv, TypeOK, OneListener, TokenStages, NotYetForked,
              RunStages, OldWasListening, KilledIsGone, Listeners
<1>. QED
  BY <1>1, <1>2, <1>3 DEF Next, AllOver

\* It holds in every reachable state.
THEOREM Invariance == Spec => []IInv
BY Initial, Inductive, PTL DEF Spec

\* Every variable keeps its type.
THEOREM TypeCorrect == Spec => []TypeOK
<1>1. IInv => TypeOK
  BY DEF IInv
<1>. QED
  BY Invariance, <1>1, PTL

\* No server is shadowed by another process's token, whatever the runs do, and
\* one that ended by itself has left none.
THEOREM OwnToken == Spec => []TokenIsTheServers
<1>1. IInv => TokenIsTheServers
  BY DEF IInv, TokenStages, TokenIsTheServers
<1>. QED
  BY Invariance, <1>1, PTL

\* A shutdown that was reported has happened.
THEOREM ReportedKill == Spec => []KilledIsGone
<1>1. IInv => KilledIsGone
  BY DEF IInv
<1>. QED
  BY Invariance, <1>1, PTL

-----------------------------------------------------------------------------
(* Runs that do not overlap                                                *)

\* A process that is not, or no longer, there.
Off(s) == server[s] \in Over \cup {"none"}

\* Nobody starts or stops: the server that runs, if any, can be used.
Steady == \A s \in Servers : ~Off(s) => server[s] = "serving" /\ file = s
AllOff == \A s \in Servers : Off(s)

\* The daemon of c is the only one, and on its way.
Starting(c) ==
    /\ \A s \in Servers : s # c => Off(s)
    /\ \/ server[c] \in {"forked", "bound"} /\ file = Absent
       \/ server[c] = "saving" /\ file = Empty
       \/ server[c] = "serving" /\ file = c

\* The server that was to stop has done nothing but that.
Stopping == \A s \in Servers : ~Off(s) =>
    /\ server[s] \in {"serving", "stopping", "exiting"}
    /\ server[s] = "serving" => file = s
    /\ server[s] = "stopping" => file # Absent

Visits == {"read", "dial", "answer", "judge"}

\* What a run that is alone finds and leaves at each of its stages.
RunAlone(c) ==
    /\ pc[c] \in {"probe", "exists", "shutdown", "request"} => Steady
    /\ pc[c] \in Visits /\ goal[c] # "up" => Steady
    /\ pc[c] = "exists" \/ (pc[c] \in Visits /\ goal[c] # "up") => ~AllOff
    /\ pc[c] \in {"dial", "answer"} /\ goal[c] # "up" => file = authtoken[c]
    /\ pc[c] = "answer" /\ goal[c] # "up" => peer[c] = file
    /\ pc[c] = "judge" /\ goal[c] # "up" => exitStatus[c] = "success"
    /\ pc[c] \in {"old", "fork"} => AllOff
    /\ pc[c] = "fork" => file = Absent
    /\ pc[c] \in Visits \cup {"await"} /\ goal[c] = "up" => Starting(c)
    /\ pc[c] \in Visits /\ goal[c] = "up" => file # Absent
    /\ pc[c] = "answer" /\ goal[c] = "up" => peer[c] = c
    /\ pc[c] = "judge" /\ goal[c] = "up" => server[c] = "serving"
    /\ pc[c] \in {"down", "closed"} => Stopping
    /\ pc[c] = "closed" => file = Absent

\* Until commands overlap, one at most is under way, and between them there is a
\* server that can be used, or none. A shutdown request is under way only while
\* its run waits for it.
Alone == ~overlap =>
    /\ \A c, d \in CLIs : InProgress(c) /\ InProgress(d) => c = d
    /\ \A c \in CLIs : InProgress(c) => RunAlone(c)
    /\ (\A c \in CLIs : ~InProgress(c)) => Steady
    /\ \A c \in CLIs : asked[c] = "sent" =>
          pc[c] \in {"down", "closed"} /\ server[peer[c]] = "serving"

\* A step of a run that is alone brings it to its next stage, or to its end with
\* nothing half done. A start ends with a server.
LEMMA RunAloneSteps ==
    ASSUME IInv, NEW c \in CLIs, InProgress(c), RunAlone(c), CLIStep(c) \/ Pong(c)
    PROVE  /\ InProgress(c)' => RunAlone(c)'
           /\ ~InProgress(c)' => /\ Steady'
                                 /\ cmd[c] = "start" => ~AllOff'
                                 /\ outcome'[c] = "started" => server'[c] = "serving"
<1> USE NamesAssumption
    DEF IInv, TypeOK, InProgress, RunAlone, Steady, AllOff, Off, Starting, Stopping, Visits,
        Listeners, Listening, Over, Servers, Boot, NoServer, Absent, Empty, Commands, Goto, Report,
        runVars, clientVars
<1>1. CASE Probe(c)
  BY <1>1 DEF Probe
<1>2. CASE RemoveOldToken(c)
  BY <1>2 DEF RemoveOldToken, RunStages
<1>3. CASE CheckToken(c)
  <2>1. file # Absent /\ Steady /\ ~AllOff /\ goal[c] # "up"
    BY <1>3 DEF CheckToken, RunStages
  <2>2. pc' = [pc EXCEPT ![c] = "read"] /\ UNCHANGED <<goal, server, file>>
    BY <1>3, <2>1 DEF CheckToken
  <2>. QED
    BY <2>1, <2>2
<1>4. CASE Daemonize(c)
  BY <1>4 DEF Daemonize, RunStages
<1>5. CASE AwaitToken(c)
  BY <1>5 DEF AwaitToken, RunStages
<1>6. CASE ReadToken(c)
  BY <1>6 DEF ReadToken, Unavailable
<1>7. CASE Dial(c)
  BY <1>7 DEF Dial, Unavailable
<1>8. CASE Judge(c)
  BY <1>8 DEF Judge, RunStages
<1>9. CASE ShutdownReadsToken(c)
  BY <1>9 DEF ShutdownReadsToken, RunStages
<1>10. CASE RequestShutdown(c)
  BY <1>10 DEF RequestShutdown, RunStages
<1>11. CASE AwaitTokenGone(c)
  BY <1>11 DEF AwaitTokenGone, RunStages
<1>12. CASE AwaitPortClosed(c)
  BY <1>12 DEF AwaitPortClosed, ShutDownDone, RunStages
<1>13. CASE Pong(c)
  BY <1>13 DEF Pong
<1>. HIDE DEF IInv
<1>. QED
  BY <1>1, <1>2, <1>3, <1>4, <1>5, <1>6, <1>7, <1>8, <1>9, <1>10, <1>11, <1>12, <1>13 DEF CLIStep

\* The daemons' steps are part of one stage.
LEMMA DaemonStepsAlone ==
    ASSUME IInv, NEW c \in CLIs, RunAlone(c), NEW s \in Servers, ServerStep(s)
    PROVE  RunAlone(c)'
<1> USE NamesAssumption
    DEF IInv, TypeOK, RunAlone, Steady, AllOff, Off, Starting, Stopping, Visits,
        Listeners, Listening, Over, Servers, Boot, NoServer, Absent, Empty, Become,
        runVars, clientVars
<1>1. CASE Bind(s)
  BY <1>1 DEF Bind
<1>2. CASE CreateTokenFile(s)
  BY <1>2 DEF CreateTokenFile
<1>3. CASE WriteToken(s)
  BY <1>3 DEF WriteToken
<1>4. CASE DeleteToken(s)
  BY <1>4 DEF DeleteToken, OneListener
<1>5. CASE Exit(s)
  BY <1>5 DEF Exit
<1>. HIDE DEF IInv
<1>. QED
  BY <1>1, <1>2, <1>3, <1>4, <1>5 DEF ServerStep

\* A server that is up does nothing by itself.
LEMMA ServingStays ==
    ASSUME IInv, NEW s \in Servers, ServerStep(s)
    PROVE  /\ \A t \in Servers : server[t] = "serving" => server'[t] = "serving"
           /\ ~Steady
BY DEF ServerStep, Bind, CreateTokenFile, WriteToken, DeleteToken, Exit, Become, IInv, TypeOK,
       Steady, Off, Over

\* No step breaks it.
LEMMA AloneInductive == IInv /\ Alone /\ [Next]_vars => Alone'
<1> SUFFICES ASSUME IInv, Alone, [Next]_vars, ~overlap' PROVE Alone'
  BY DEF Alone
<1>0. ~overlap
  BY DEF Next, Invoke, CLIStep, Probe, RemoveOldToken, CheckToken, Daemonize, AwaitToken, ReadToken,
         Dial, Judge, ShutdownReadsToken, RequestShutdown, AwaitTokenGone, AwaitPortClosed,
         WorkerStep, Pong, HandleShutdown, ServerStep, Bind, CreateTokenFile, WriteToken,
         DeleteToken, Exit, Crash, AllOver, vars, runVars, IInv, TypeOK
<1>1. /\ \A c, d \in CLIs : InProgress(c) /\ InProgress(d) => c = d
      /\ \A c \in CLIs : InProgress(c) => RunAlone(c)
      /\ (\A c \in CLIs : ~InProgress(c)) => Steady
      /\ \A c \in CLIs : asked[c] = "sent" =>
            pc[c] \in {"down", "closed"} /\ server[peer[c]] = "serving"
  BY <1>0 DEF Alone
<1>2. ASSUME NEW c \in CLIs, Invoke(c) PROVE Alone'
  <2>1. (\A d \in CLIs : ~InProgress(d)) /\ Steady
    BY <1>1, <1>2 DEF Invoke
  <2>2. /\ \A d \in CLIs : InProgress(d)' <=> d = c
        /\ pc'[c] = "probe" /\ \A d \in CLIs : asked[d] = "sent" => FALSE
    BY <1>1, <1>2, <2>1 DEF Invoke, InProgress, Goto, IInv, TypeOK
  <2>3. Steady' /\ asked' = asked
    BY <1>2, <2>1 DEF Invoke, Steady, Off
  <2>4. RunAlone(c)'
    BY <2>2, <2>3 DEF RunAlone, Visits
  <2>. QED
    BY <2>2, <2>3, <2>4 DEF Alone
<1>3. ASSUME NEW c \in CLIs, CLIStep(c) \/ Pong(c) PROVE Alone'
  <2>1. InProgress(c)
    BY <1>3 DEF CLIStep, InProgress, Probe, RemoveOldToken, CheckToken, Daemonize, AwaitToken,
           ReadToken, Dial, Judge, ShutdownReadsToken, RequestShutdown, AwaitTokenGone,
           AwaitPortClosed, Pong
  <2>2. /\ \A d \in CLIs : d # c => pc'[d] = pc[d] /\ ~InProgress(d) /\ asked'[d] = asked[d]
    BY <1>1, <1>3, <2>1 DEF CLIStep, Probe, RemoveOldToken, CheckToken, Daemonize, AwaitToken,
           ReadToken, Dial, Unavailable, Judge, ShutdownReadsToken, RequestShutdown, AwaitTokenGone,
           AwaitPortClosed, ShutDownDone, Pong, Goto, Report, IInv, TypeOK
  <2>3. \A d \in CLIs : d # c => ~InProgress(d)'
    BY <2>2 DEF InProgress
  <2>4. /\ InProgress(c)' => RunAlone(c)'
        /\ ~InProgress(c)' => Steady'
    BY <1>1, <1>3, <2>1, RunAloneSteps
  <2>5. \A d \in CLIs : d # c => asked'[d] # "sent"
    BY <1>1, <2>2 DEF InProgress
  <2>6. asked'[c] = "sent" => pc'[c] \in {"down", "closed"} /\ server'[peer'[c]] = "serving"
    <3>. SUFFICES ASSUME asked'[c] = "sent"
                  PROVE  pc'[c] \in {"down", "closed"} /\ server'[peer'[c]] = "serving"
      OBVIOUS
    <3>1. CASE RequestShutdown(c)
      BY <1>1, <2>1, <3>1 DEF RequestShutdown, RunAlone, Steady, Off, Listeners, Listening, Over,
                              Goto, Report, IInv, TypeOK, InProgress
    <3>2. CASE AwaitTokenGone(c)
      BY <1>1, <3>2 DEF AwaitTokenGone, clientVars, Goto, IInv, TypeOK
    <3>3. CASE AwaitPortClosed(c)
      <4>1. asked[c] = "sent" /\ UNCHANGED <<server, peer>>
        BY <3>3 DEF AwaitPortClosed, clientVars
      <4>2. peer[c] \in Listeners
        BY <1>1, <4>1 DEF Listeners, Listening, IInv, TypeOK, NoServer
      <4>. QED
        BY <1>1, <3>3, <4>1, <4>2 DEF AwaitPortClosed, Goto, IInv, TypeOK
    <3>4. CASE ~RequestShutdown(c) /\ ~AwaitTokenGone(c) /\ ~AwaitPortClosed(c)
      <4>1. asked' = asked /\ pc[c] \notin {"down", "closed"}
        BY <1>3, <3>4 DEF CLIStep, Probe, RemoveOldToken, CheckToken, Daemonize, AwaitToken,
           ReadToken, Dial, Judge, ShutdownReadsToken, Pong
      <4>. QED
        BY <1>1, <4>1
    <3>. QED
      BY <3>1, <3>2, <3>3, <3>4
  <2>. QED
    BY <2>3, <2>4, <2>5, <2>6 DEF Alone
<1>4. ASSUME NEW c \in CLIs, HandleShutdown(c) PROVE Alone'
  <2>1. /\ pc[c] \in {"down", "closed"} /\ server[peer[c]] = "serving" /\ InProgress(c)
        /\ UNCHANGED <<pc, goal, file, peer, authtoken, exitStatus>> /\ peer[c] \in Servers
    BY <1>1, <1>4 DEF HandleShutdown, InProgress, runVars, clientVars, IInv, TypeOK
  <2>2. \A d \in CLIs : d # c => asked[d] # "sent" /\ asked'[d] = asked[d]
    BY <1>1, <1>4, <2>1 DEF HandleShutdown, InProgress, IInv, TypeOK
  <2>3. asked'[c] # "sent"
    BY <1>4 DEF HandleShutdown, IInv, TypeOK
  <2>4. RunAlone(c)'
    <3>1. RunAlone(c)
      BY <1>1, <2>1
    <3>. QED
      BY <1>4, <2>1, <3>1, NamesAssumption
         DEF HandleShutdown, Become, RunAlone, Stopping, Off, Over, Visits, Absent, Boot, Servers,
             IInv, TypeOK
  <2>. QED
    BY <1>1, <2>1, <2>2, <2>3, <2>4 DEF Alone, InProgress
<1>5. ASSUME NEW s \in Servers, ServerStep(s) PROVE Alone'
  <2>1. UNCHANGED <<pc, asked, peer>>
    BY <1>5 DEF ServerStep, Bind, CreateTokenFile, WriteToken, DeleteToken, Exit, clientVars
  <2>2. \A c \in CLIs : InProgress(c) => RunAlone(c)'
    BY <1>1, <1>5, DaemonStepsAlone
  <2>3. \A c \in CLIs : asked[c] = "sent" => server'[peer[c]] = "serving"
    BY <1>1, <1>5, ServingStays DEF IInv, TypeOK, NoServer
  <2>4. ~\A c \in CLIs : ~InProgress(c)
    BY <1>1, <1>5, ServingStays
  <2>. QED
    BY <1>1, <2>1, <2>2, <2>3, <2>4 DEF Alone, InProgress
<1>6. ASSUME NEW s \in Servers, Crash(s) PROVE Alone'
  <2>1. (\A d \in CLIs : ~InProgress(d)) /\ Steady /\ UNCHANGED <<pc, asked, peer>>
    BY <1>1, <1>6 DEF Crash, clientVars
  <2>2. \A d \in CLIs : asked[d] # "sent"
    BY <1>1, <2>1 DEF InProgress
  <2>3. Steady'
    BY <1>6, <2>1 DEF Crash, Become, Steady, Off, Over, IInv, TypeOK
  <2>. QED
    BY <2>1, <2>2, <2>3 DEF Alone, InProgress
<1>7. CASE UNCHANGED vars
  BY <1>7 DEF vars, runVars, clientVars, Alone, InProgress, RunAlone, Steady, AllOff, Off, Starting,
              Stopping
<1>. QED
  BY <1>2, <1>3, <1>4, <1>5, <1>6, <1>7 DEF Next, WorkerStep, AllOver

\* Nothing runs at first but a server with its token.
LEMMA AloneInitial == Init => Alone
<1> SUFFICES ASSUME Init PROVE Alone
  OBVIOUS
<1>1. \A c \in CLIs : ~InProgress(c) /\ asked[c] # "sent"
  BY DEF Init, InProgress
<1>2. Steady
  BY DEF Init, Steady, Off, Over, Servers
<1>. QED
  BY <1>1, <1>2 DEF Alone

LEMMA AloneInvariance == Spec => [](IInv /\ Alone)
BY Initial, Inductive, AloneInitial, AloneInductive, PTL DEF Spec

\* As long as commands do not overlap, what each leaves is a server that can be
\* reached with the token in the file, or none.
THEOREM QuietReachable == Spec => []QuietServerReachable
<1>1. IInv /\ Alone => QuietServerReachable
  BY DEF Alone, QuietServerReachable, Steady, Off
<1>. QED
  BY <1>1, AloneInvariance, PTL

-----------------------------------------------------------------------------
(* Native clients beside the commands                                      *)
(*                                                                         *)
(* Why a client is not refused: the server it is connected to was          *)
(* listening, and a token that is in the file later is that of a process   *)
(* that listens, so if the two differ the connected one is over and will   *)
(* not answer.  The token of a server that was killed before the first     *)
(* command is the only other one in the file, and is gone before another   *)
(* server is forked.                                                       *)

\* What a server is once it has listened, and what it does not come back from.
ServerMoves == /\ \A s \in Servers :
                    /\ server[s] \in Listening \cup Over => server'[s] \in Listening \cup Over
                    /\ server[s] \in Over => server'[s] = server[s]
               /\ cmd' = cmd

\* The token of the server that an earlier run left is gone before a run forks
\* another, and does not come back.
BootToken ==
    /\ server[Boot] \notin {"forked", "bound", "saving"}
    /\ (\E c \in CLIs : server[c] # "none" \/ pc[c] = "fork") => file # Boot

\* How far a client that has not ended can have got.
ClientStages == \A k \in Clients :
    /\ at[k] \in Commands \cup {"idle", "system", "connect"} =>
         server_of[k] = NoServer /\ auth[k] = Absent
    /\ at[k] = "token" => server_of[k] # NoServer
    /\ at[k] \in Commands \cup {"idle", "system", "connect", "token", "header"} => request[k] = "none"
    /\ at[k] = "session" => request[k] = "invocation"
    /\ at[k] = "header" \/ request[k] = "invocation" =>
         auth[k] \in IF opt[k].given THEN {Given} ELSE Servers
    /\ at[k] # "over" => result[k] = "none"
    /\ request[k] = "none" => answer[k] = "none"
    /\ server_of[k] \in Servers => server[server_of[k]] \in Listening \cup Over
    /\ opt[k].host = "local" => server_of[k] # Remote
    /\ at[k] = "system" => run[k] \in CLIs
    /\ at[k] \in Commands \cup {"idle", "system"} => failCount[k] = 0

NoneKilled == \A c \in CLIs : server[c] # "crashed"
TakesFile(k) == opt[k].host = "local" /\ ~opt[k].given

\* The token in hand is that of the server at the other end, unless that is over.
TokenFits == NoneKilled => \A k \in Clients :
    TakesFile(k) /\ auth[k] \in Servers =>
        auth[k] = server_of[k] \/ (server_of[k] \in Servers /\ server[server_of[k]] \in Over)

NoInvalid == NoneKilled => \A k \in Clients :
    TakesFile(k) /\ request[k] = "invocation" => answer[k] # "invalid"

NativeInv == /\ IInv /\ BootToken
             /\ NativeTypeOK /\ ClientStages /\ TokenFits /\ NoInvalid /\ NeverRefused

-----------------------------------------------------------------------------
\* Whatever clients do, it is a step of ServerLifecycle or none of it.
LEMMA NativeStepIsStep == [NativeNext]_allVars => [Next]_vars
<1> SUFFICES ASSUME [NativeNext]_allVars PROVE [Next]_vars
  OBVIOUS
<1>1. CASE UserStep
  BY <1>1, NativeAssumption DEF UserStep, Next
<1>2. ASSUME NEW c \in CLIs, CommandStep(c) PROVE Next
  BY <1>2 DEF CommandStep, Next
<1>3. ASSUME NEW s \in Servers, DaemonStep(s) PROVE Next
  BY <1>3 DEF DaemonStep, Next
<1>4. ASSUME NEW k \in Clients, Prepare(k) PROVE [Next]_vars
  <2>1. CASE InvokeServer(k)
    BY <2>1 DEF InvokeServer, Next
  <2>2. CASE ~InvokeServer(k)
    BY <1>4, <2>2 DEF Prepare, SystemFails, CommandEnded, AfterCommand, ConnectServer
  <2>. QED
    BY <2>1, <2>2
<1>5. ASSUME NEW k \in Clients,
             Main(k) \/ Converse(k) \/ SignalHandler(k) \/ HandleRequest(k) \/ ScriptEnds(k)
      PROVE  UNCHANGED vars
  BY <1>5 DEF Main, Converse, ReadAuthtoken, SendRequest, Status, SignalHandler, HandleRequest,
              ScriptEnds
<1>6. CASE UNCHANGED allVars
  BY <1>6 DEF allVars
<1>. QED
  BY <1>1, <1>2, <1>3, <1>4, <1>5, <1>6 DEF NativeNext

\* The composition implements ServerLifecycle: what is proved of it holds with
\* native clients as well.
THEOREM ImplementsLifecycle == NativeSpec => Spec
<1>1. NativeInit => Init
  BY DEF NativeInit
<1>. QED
  BY <1>1, NativeStepIsStep, PTL DEF NativeSpec, Spec

LEMMA StepMoves == IInv /\ BootToken /\ [Next]_vars => ServerMoves /\ BootToken'
<1> SUFFICES ASSUME IInv, BootToken, [Next]_vars PROVE ServerMoves /\ BootToken'
  OBVIOUS
<1> USE NamesAssumption
    DEF IInv, TypeOK, ServerMoves, BootToken, Listening, Over, Servers, Boot, NoServer, Absent,
        Empty, Goto, Report, Become, runVars, clientVars, Labels
<1>1. ASSUME NEW c \in CLIs, Invoke(c) PROVE ServerMoves /\ BootToken'
  BY <1>1 DEF Invoke
<1>2. ASSUME NEW c \in CLIs, CLIStep(c) PROVE ServerMoves /\ BootToken'
  <2>1. CASE RemoveOldToken(c)
    BY <2>1 DEF RemoveOldToken
  <2>2. CASE Daemonize(c)
    BY <2>2 DEF Daemonize, NotYetForked, RunStages
  <2>3. CASE Probe(c) \/ CheckToken(c) \/ AwaitToken(c) \/ ReadToken(c) \/ Dial(c)
    BY <2>3 DEF Probe, CheckToken, AwaitToken, ReadToken, Dial, Unavailable
  <2>4. CASE Judge(c) \/ ShutdownReadsToken(c) \/ RequestShutdown(c) \/ AwaitTokenGone(c)
             \/ AwaitPortClosed(c)
    BY <2>4 DEF Judge, ShutdownReadsToken, RequestShutdown, AwaitTokenGone, AwaitPortClosed,
                ShutDownDone
  <2>. QED
    BY <1>2, <2>1, <2>2, <2>3, <2>4 DEF CLIStep
<1>3. ASSUME NEW c \in CLIs, WorkerStep(c) PROVE ServerMoves /\ BootToken'
  <2>1. CASE Pong(c)
    BY <2>1 DEF Pong
  <2>2. CASE HandleShutdown(c)
    BY <2>2 DEF HandleShutdown
  <2>. QED
    BY <1>3, <2>1, <2>2 DEF WorkerStep
<1>4. ASSUME NEW s \in Servers, ServerStep(s) PROVE ServerMoves /\ BootToken'
  BY <1>4 DEF ServerStep, Bind, CreateTokenFile, WriteToken, DeleteToken, Exit
<1>5. ASSUME NEW s \in Servers, Crash(s) PROVE ServerMoves /\ BootToken'
  BY <1>5 DEF Crash
<1>6. CASE UNCHANGED vars
  BY <1>6 DEF vars
<1>. QED
  BY <1>1, <1>2, <1>3, <1>4, <1>5, <1>6 DEF Next, AllOver

-----------------------------------------------------------------------------
\* No client has begun.
LEMMA NativeInitial == NativeInit => NativeInv
<1> SUFFICES ASSUME NativeInit PROVE NativeInv
  OBVIOUS
<1>1. IInv
  BY Initial DEF NativeInit
<1> USE NamesAssumption, NativeAssumption
    DEF NativeInit, Init, Servers, Boot, NoServer, Absent, Empty, Remote, Given, NoRun, Commands
<1>2. BootToken
  BY DEF BootToken
<1>3. NativeTypeOK
  <2>1. opt \in [Clients -> Options]
    OBVIOUS
  <2>2. /\ server_of \in [Clients -> Servers \cup {NoServer, Remote}]
        /\ auth \in [Clients -> Servers \cup {Absent, Given}]
        /\ launched \in [Clients -> SUBSET CLIs]
        /\ run \in [Clients -> CLIs \cup {NoRun, Failed}]
    OBVIOUS
  <2>3. /\ at \in [Clients -> {"idle"}] /\ failCount \in [Clients -> {0}]
        /\ request \in [Clients -> {"none"}] /\ answer \in [Clients -> {"none"}]
        /\ result \in [Clients -> {"none"}] /\ crowded \in BOOLEAN
    OBVIOUS
  <2>. QED
    BY <2>1, <2>2, <2>3 DEF NativeTypeOK
<1>4. ClientStages
  BY DEF ClientStages
<1>5. TokenFits /\ NoInvalid /\ NeverRefused
  BY DEF TokenFits, NoInvalid, NeverRefused
<1>. QED
  BY <1>1, <1>2, <1>3, <1>4, <1>5 DEF NativeInv

\* The others' steps leave a client where it is.
LEMMA OthersKeep ==
    ASSUME NativeInv, ServerMoves, IInv', BootToken',
           UNCHANGED <<at, mainVars, sessionVars, result>>, crowded' \in BOOLEAN
    PROVE  NativeInv'
<1> USE DEF NativeInv, mainVars, sessionVars
<1>1. NativeTypeOK'
  BY DEF NativeTypeOK
<1>2. ClientStages'
  BY DEF ClientStages, ServerMoves, NativeTypeOK
<1>3. NoneKilled' => NoneKilled
  BY DEF NoneKilled, ServerMoves, Over, Servers
<1>4. TokenFits'
  BY <1>3 DEF TokenFits, TakesFile, ServerMoves
<1>5. NoInvalid' /\ NeverRefused'
  BY <1>3 DEF NoInvalid, NeverRefused, TakesFile, NoneKilled
<1>. QED
  BY <1>1, <1>2, <1>4, <1>5

\* main up to the connection: a command more, an attempt more or the end.
LEMMA PrepareKeeps ==
    ASSUME NativeInv, ServerMoves, IInv', BootToken',
           NEW k \in Clients, Main(k) \/ Prepare(k)
    PROVE  NativeInv'
<1> USE NamesAssumption, NativeAssumption
    DEF NativeInv, GotoMain, Return, mainVars, sessionVars, Servers, Boot, NoServer, Absent,
        Empty, Remote, Given, NoRun, Failed, Commands
<1>0. NoneKilled' => NoneKilled
  BY DEF NoneKilled, ServerMoves, Over
<1>1. NativeTypeOK'
  <2>1. CASE Main(k)
    BY <2>1 DEF Main, NativeTypeOK, Options, Controls
  <2>2. CASE InvokeServer(k)
    BY <2>2 DEF InvokeServer, NativeTypeOK
  <2>3. ASSUME AfterCommand(k, IF at[k] = "system" THEN cmd[run[k]] ELSE at[k]),
               at[k] \in Commands \/ (at[k] = "system" /\ run[k] \in CLIs),
               run' = run \/ run' = [run EXCEPT ![k] = Failed]
        PROVE  NativeTypeOK'
    BY <2>3 DEF AfterCommand, NativeTypeOK, ClientStages
  <2>4. CASE SystemFails(k)
    BY <2>3, <2>4 DEF SystemFails
  <2>5. CASE CommandEnded(k)
    BY <2>3, <2>5 DEF CommandEnded, ClientStages
  <2>6. CASE ConnectServer(k)
    BY <2>6 DEF ConnectServer, Connected, Refused, Listeners, NativeTypeOK
  <2>. QED
    BY <2>1, <2>2, <2>4, <2>5, <2>6 DEF Prepare
<1>2. ClientStages'
  <2>1. CASE Main(k)
    BY <2>1 DEF Main, NativeTypeOK, ClientStages, Options, Controls, ServerMoves
  <2>2. CASE InvokeServer(k)
    BY <2>2 DEF InvokeServer, NativeTypeOK, ClientStages, ServerMoves
  <2>3. CASE SystemFails(k)
    BY <2>3 DEF SystemFails, AfterCommand, NativeTypeOK, ClientStages, ServerMoves
  <2>4. CASE CommandEnded(k)
    BY <2>4 DEF CommandEnded, AfterCommand, NativeTypeOK, ClientStages, ServerMoves
  <2>5. CASE ConnectServer(k)
    BY <2>5 DEF ConnectServer, Connected, Refused, Listeners, NativeTypeOK, ClientStages, ServerMoves
  <2>. QED
    BY <2>1, <2>2, <2>3, <2>4, <2>5 DEF Prepare
<1>3. TokenFits'
  <2>1. UNCHANGED <<auth, opt>> /\ \A j \in Clients : server_of'[j] # server_of[j] => auth[j] = Absent
    BY DEF Main, Prepare, InvokeServer, SystemFails, CommandEnded, AfterCommand, ConnectServer,
           Connected, Refused, NativeTypeOK, ClientStages
  <2>. QED
    BY <1>0, <2>1 DEF TokenFits, TakesFile, ServerMoves
<1>4. UNCHANGED <<request, answer, opt>> /\ \A j \in Clients : result'[j] = "invalid" => result[j] = "invalid"
  BY DEF Main, Prepare, InvokeServer, SystemFails, CommandEnded, AfterCommand, ConnectServer,
         Connected, Refused, NativeTypeOK
<1>5. NoInvalid' /\ NeverRefused'
  BY <1>0, <1>4 DEF NoInvalid, NeverRefused, TakesFile, NoneKilled
<1>. QED
  BY <1>1, <1>2, <1>3, <1>5

\* A client that reads the token now is connected to the one process that has
\* it, or to one that is over.
LEMMA FileFits ==
    ASSUME NativeInv, NoneKilled, file \in Servers,
           NEW s \in Servers, server[s] \in Listening \cup Over
    PROVE  file = s \/ server[s] \in Over
<1> USE DEF NativeInv, IInv
<1>1. server[file] \in {"serving", "stopping", "crashed"}
  BY NamesAssumption
     DEF TypeOK, TokenStages, Listening, Over, Servers, Boot, Absent, Empty
<1>2. CASE server[file] # "crashed"
  BY <1>1, <1>2 DEF OneListener, Listeners, Listening, Over
<1>3. CASE server[file] = "crashed"
  BY <1>3 DEF NoneKilled, BootToken, Servers, Listening, Over
<1>. QED
  BY <1>2, <1>3

\* The token, the request and what the server makes of it.
LEMMA ConverseKeeps ==
    ASSUME NativeInv, UNCHANGED vars, IInv', BootToken', NEW k \in Clients,
           Converse(k) \/ SignalHandler(k) \/ HandleRequest(k) \/ ScriptEnds(k)
    PROVE  NativeInv'
<1> USE NamesAssumption, NativeAssumption
    DEF NativeInv, GotoMain, Return, mainVars, sessionVars, Servers, Boot, NoServer, Absent,
        Empty, Remote, Given, NoRun, Failed, Commands, vars, runVars
<1>1. CASE ReadAuthtoken(k)
  <2>1. NativeTypeOK'
    BY <1>1 DEF ReadAuthtoken, NativeTypeOK
  <2>2. ClientStages'
    BY <1>1 DEF ReadAuthtoken, NativeTypeOK, ClientStages
  <2>3. TokenFits'
    BY <1>1, FileFits DEF ReadAuthtoken, NativeTypeOK, ClientStages, TokenFits, TakesFile, NoneKilled
  <2>4. NoInvalid' /\ NeverRefused'
    BY <1>1 DEF ReadAuthtoken, NativeTypeOK, NoInvalid, NeverRefused, TakesFile, NoneKilled
  <2>. QED
    BY <2>1, <2>2, <2>3, <2>4
<1>2. CASE SendRequest(k)
  BY <1>2 DEF SendRequest, NativeTypeOK, ClientStages, TokenFits, NoInvalid, NeverRefused,
              TakesFile, NoneKilled
<1>3. CASE Status(k)
  BY <1>3 DEF Status, NativeTypeOK, ClientStages, TokenFits, NoInvalid, NeverRefused,
              TakesFile, NoneKilled
<1>4. CASE SignalHandler(k)
  BY <1>4 DEF SignalHandler, NativeTypeOK, ClientStages, TokenFits, NoInvalid, NeverRefused,
              TakesFile, NoneKilled
<1>5. CASE HandleRequest(k)
  <2>1. NativeTypeOK' /\ ClientStages'
    BY <1>5 DEF HandleRequest, NativeTypeOK, ClientStages
  <2>2. TokenFits' /\ NeverRefused'
    BY <1>5 DEF HandleRequest, TokenFits, NeverRefused, TakesFile, NoneKilled
  <2>3. ASSUME NoneKilled, TakesFile(k), request[k] = "invocation" PROVE answer'[k] # "invalid"
    <3>1. Answering(k) /\ auth[k] \in Servers
      BY <1>5, <2>3 DEF HandleRequest, ClientStages, TakesFile
    <3>2. auth[k] = server_of[k]
      BY <2>3, <3>1 DEF TokenFits, Answering, Over
    <3>. QED
      BY <1>5, <2>3, <3>1, <3>2 DEF HandleRequest, Accepts, NativeTypeOK
  <2>4. NoInvalid'
    BY <1>5, <2>3 DEF HandleRequest, NoInvalid, TakesFile, NoneKilled, NativeTypeOK
  <2>. QED
    BY <2>1, <2>2, <2>4
<1>6. CASE ScriptEnds(k)
  BY <1>6 DEF ScriptEnds, NativeTypeOK, ClientStages, TokenFits, NoInvalid, NeverRefused,
              TakesFile, NoneKilled
<1>. QED
  BY <1>1, <1>2, <1>3, <1>4, <1>5, <1>6 DEF Converse

LEMMA NativeInductive == NativeInv /\ [NativeNext]_allVars => NativeInv'
<1> SUFFICES ASSUME NativeInv, [NativeNext]_allVars PROVE NativeInv'
  OBVIOUS
<1>1. IInv' /\ ServerMoves /\ BootToken'
  BY NativeStepIsStep, Inductive, StepMoves DEF NativeInv
<1>2. CASE UserStep
  <2>1. crowded' \in BOOLEAN
    BY <1>2 DEF UserStep, NativeInv, NativeTypeOK
  <2>. QED
    BY <1>1, <1>2, <2>1, OthersKeep DEF UserStep
<1>3. ASSUME NEW c \in CLIs, CommandStep(c) PROVE NativeInv'
  BY <1>1, <1>3, OthersKeep DEF CommandStep, nativeVars, NativeInv, NativeTypeOK
<1>4. ASSUME NEW s \in Servers, DaemonStep(s) PROVE NativeInv'
  BY <1>1, <1>4, OthersKeep DEF DaemonStep, nativeVars, NativeInv, NativeTypeOK
<1>5. ASSUME NEW k \in Clients, Main(k) \/ Prepare(k) PROVE NativeInv'
  BY <1>1, <1>5, PrepareKeeps
<1>6. ASSUME NEW k \in Clients,
             Converse(k) \/ SignalHandler(k) \/ HandleRequest(k) \/ ScriptEnds(k)
      PROVE  NativeInv'
  <2>1. UNCHANGED vars
    BY <1>6 DEF Converse, ReadAuthtoken, SendRequest, Status, SignalHandler, HandleRequest, ScriptEnds
  <2>. QED
    BY <1>1, <1>6, <2>1, ConverseKeeps
<1>7. CASE UNCHANGED allVars
  BY <1>1, <1>7, OthersKeep DEF allVars, nativeVars, NativeInv, NativeTypeOK
<1>. QED
  BY <1>2, <1>3, <1>4, <1>5, <1>6, <1>7 DEF NativeNext

LEMMA NativeInvariance == NativeSpec => []NativeInv
BY NativeInitial, NativeInductive, PTL DEF NativeSpec

-----------------------------------------------------------------------------
\* Every variable of the clients keeps its type; none of them answers a refused
\* connection with start_server twice.
THEOREM NativeTypeCorrect == NativeSpec => []NativeTypeOK
<1>1. NativeInv => NativeTypeOK
  BY DEF NativeInv
<1>. QED
  BY <1>1, NativeInvariance, PTL

\* However many clients and commands run at once, no client is refused for the
\* token it took from the file.
THEOREM TokenIsTaken == NativeSpec => []NeverRefused
<1>1. NativeInv => NeverRefused
  BY DEF NativeInv
<1>. QED
  BY <1>1, NativeInvariance, PTL
-----------------------------------------------------------------------------
(* A client that is left alone                                             *)
(*                                                                         *)
(* What runs beside it is the command it waits for and nothing else, so    *)
(* between its own steps the server that runs can be reached; a command    *)
(* that has started one leaves it running, so the connection finds it, and *)
(* the token that is in the file then is the server's own.                 *)

Started(k) == run[k] \in CLIs /\ outcome[run[k]] = "started"

\* What a client knows of the last command it ran.
CommandKept == \A k \in Clients :
    /\ at[k] = "idle" => run[k] = NoRun
    /\ run[k] \in CLIs =>
         /\ run[k] \in launched[k]
         /\ at[k] = "system" => pc[run[k]] # "idle"
         /\ at[k] # "system" => pc[run[k]] = "over"

\* What a client that is alone finds at each of its stages.
ClientAlone(k) ==
    /\ at[k] = "system" /\ pc[run[k]] = "over" /\ cmd[run[k]] = "start" => ~AllOff
    /\ at[k] \in {"system", "connect", "token", "header", "session"} /\ Started(k)
         => server[run[k]] = "serving"
    /\ at[k] = "connect" /\ failCount[k] = 1 /\ run[k] # Failed => ~AllOff
    /\ at[k] \in {"token", "header", "session"} /\ opt[k].host = "local"
         => server_of[k] \in Servers /\ server[server_of[k]] = "serving"
    /\ at[k] \in {"header", "session"} /\ TakesFile(k) => auth[k] = server_of[k]
    /\ at[k] = "session" /\ opt[k].host = "local" /\ (opt[k].given => Started(k))
         => answer[k] # "invalid"

\* Until they are crowded, one client at most is under way, and what it waits
\* for is the only command.
ClientsAlone == Quiet =>
    /\ \A j, k \in Clients : Busy(j) /\ Busy(k) => j = k
    /\ \A k \in Clients, c \in CLIs : Busy(k) /\ InProgress(c) => at[k] = "system" /\ run[k] = c
    /\ \A k \in Clients : Busy(k) => ClientAlone(k)

ServedInv == NativeInv /\ Alone /\ CommandKept /\ ClientsAlone /\ QuietClientIsServed

\* What a run told its user stays told.
LEMMA OverStays ==
    ASSUME IInv, [Next]_vars, NEW c \in CLIs
    PROVE  /\ pc[c] # "idle" => pc'[c] # "idle"
           /\ pc[c] = "over" => pc'[c] = "over" /\ outcome'[c] = outcome[c]
BY DEF Next, AllOver, Invoke, CLIStep, Probe, RemoveOldToken, CheckToken, Daemonize, AwaitToken,
       ReadToken, Dial, Unavailable, Judge, ShutdownReadsToken, RequestShutdown, AwaitTokenGone,
       AwaitPortClosed, ShutDownDone, WorkerStep, Pong, HandleShutdown, ServerStep, Bind,
       CreateTokenFile, WriteToken, DeleteToken, Exit, Crash, vars, runVars, Goto, Report,
       IInv, TypeOK

\* Nothing undoes an overlap or a crowd.
LEMMA QuietBefore == NativeInv /\ [NativeNext]_allVars /\ Quiet' => Quiet
<1> SUFFICES ASSUME NativeInv, [NativeNext]_allVars, Quiet' PROVE Quiet
  OBVIOUS
<1>1. [Next]_vars
  BY NativeStepIsStep
<1>2. ~overlap
  BY <1>1 DEF Quiet, Next, Invoke, CLIStep, Probe, RemoveOldToken, CheckToken, Daemonize, AwaitToken,
         ReadToken, Dial, Judge, ShutdownReadsToken, RequestShutdown, AwaitTokenGone,
         AwaitPortClosed, WorkerStep, Pong, HandleShutdown, ServerStep, Bind, CreateTokenFile,
         WriteToken, DeleteToken, Exit, Crash, AllOver, vars, runVars, NativeInv, IInv, TypeOK
<1>3. ~crowded
  BY DEF Quiet, NativeNext, UserStep, CommandStep, DaemonStep, Main, Prepare, InvokeServer,
         SystemFails, CommandEnded, AfterCommand, ConnectServer, Converse, ReadAuthtoken, SendRequest,
         Status, SignalHandler, HandleRequest, ScriptEnds, allVars, nativeVars, NativeInv, NativeTypeOK
<1>. QED
  BY <1>2, <1>3 DEF Quiet

\* A client runs no command that was run before, and leaves it when it is over.
LEMMA CommandKeptInductive ==
    ASSUME NativeInv, CommandKept, [NativeNext]_allVars
    PROVE  CommandKept'
<1> USE NativeAssumption DEF NativeInv, NativeTypeOK, CommandKept, GotoMain, Return, mainVars
<1>1. \A c \in CLIs : /\ pc[c] # "idle" => pc'[c] # "idle"
                      /\ pc[c] = "over" => pc'[c] = "over"
  BY NativeStepIsStep, OverStays
<1>2. CASE UNCHANGED <<at, run, launched>>
  BY <1>1, <1>2
<1>3. ASSUME NEW k \in Clients, Main(k) PROVE CommandKept'
  BY <1>3, <1>1 DEF Main, ClientStages
<1>4. ASSUME NEW k \in Clients, InvokeServer(k) PROVE CommandKept'
  BY <1>4, <1>1 DEF InvokeServer, Invoke, Goto, IInv, TypeOK, Commands, NoRun
<1>5. ASSUME NEW k \in Clients, SystemFails(k) PROVE CommandKept'
  BY <1>5, <1>1 DEF SystemFails, AfterCommand, Commands
<1>6. ASSUME NEW k \in Clients, CommandEnded(k) PROVE CommandKept'
  BY <1>6, <1>1 DEF CommandEnded, AfterCommand
<1>7. ASSUME NEW k \in Clients,
             ConnectServer(k) \/ Converse(k) \/ SignalHandler(k)
      PROVE  CommandKept'
  BY <1>7, <1>1 DEF ConnectServer, Connected, Refused, Converse, ReadAuthtoken, SendRequest, Status,
                    SignalHandler
<1>8. ASSUME NEW k \in Clients, HandleRequest(k) \/ ScriptEnds(k) PROVE CommandKept'
  BY <1>2, <1>8 DEF HandleRequest, ScriptEnds
<1>9. CASE UserStep \/ UNCHANGED allVars
  BY <1>2, <1>9 DEF UserStep, allVars, nativeVars
<1>10. ASSUME NEW c \in CLIs, CommandStep(c) PROVE CommandKept'
  BY <1>2, <1>10 DEF CommandStep, nativeVars
<1>11. ASSUME NEW s \in Servers, DaemonStep(s) PROVE CommandKept'
  BY <1>2, <1>11 DEF DaemonStep, nativeVars
<1>. QED
  BY <1>3, <1>4, <1>5, <1>6, <1>7, <1>8, <1>9, <1>10, <1>11 DEF NativeNext, Prepare

Served(k) ==
    /\ at[k] = "over" /\ opt[k].host = "local" /\ run[k] # Failed
    /\ opt[k].given => Started(k)
    => result[k] \in {"status", "killed", "interrupted"}

\* What a client that has ended was told does not change.
LEMMA ServedStays ==
    ASSUME ServedInv, [NativeNext]_allVars, Quiet, NEW k \in Clients,
           at'[k] = at[k], result'[k] = result[k], run'[k] = run[k]
    PROVE  Served(k)'
<1>1. opt' = opt
  BY DEF NativeNext, UserStep, CommandStep, DaemonStep, Main, Prepare, InvokeServer,
         SystemFails, CommandEnded, AfterCommand, ConnectServer, Converse, ReadAuthtoken, SendRequest,
         Status, SignalHandler, HandleRequest, ScriptEnds, allVars, nativeVars, mainVars
<1>2. at[k] = "over" /\ run[k] \in CLIs => outcome'[run[k]] = outcome[run[k]]
  BY NativeStepIsStep, OverStays DEF ServedInv, NativeInv, CommandKept
<1>. QED
  BY <1>1, <1>2 DEF ServedInv, QuietClientIsServed, Served, Started

\* A step of one client, when no other is under way, concerns nobody else.
LEMMA OneClientSteps ==
    ASSUME ServedInv, [NativeNext]_allVars, Quiet, NEW k \in Clients,
           \A j \in Clients : Busy(j) => j = k,
           \A j \in Clients : j # k =>
               at'[j] = at[j] /\ result'[j] = result[j] /\ run'[j] = run[j],
           \A c \in CLIs : Busy(k)' /\ InProgress(c)' => at'[k] = "system" /\ run'[k] = c,
           Busy(k)' => ClientAlone(k)',
           Served(k)'
    PROVE  ClientsAlone' /\ QuietClientIsServed'
<1>1. \A j \in Clients : Busy(j)' => j = k
  BY DEF Busy
<1>2. \A j \in Clients : Served(j)'
  BY ServedStays
<1>. QED
  BY <1>1, <1>2 DEF ClientsAlone, QuietClientIsServed, Served, Started

\* While nothing but clients runs, the server that runs can be reached.
LEMMA NoneInProgress ==
    ASSUME ServedInv, Quiet, NEW k \in Clients, Busy(k), at[k] = "system" => pc[run[k]] = "over"
    PROVE  /\ \A c \in CLIs : ~InProgress(c)
           /\ Steady
BY DEF ServedInv, ClientsAlone, Alone, Quiet, InProgress

\* A client that begins alone finds no command under way.
LEMMA MainAlone ==
    ASSUME ServedInv, [NativeNext]_allVars, Quiet, Quiet', NEW k \in Clients, Main(k)
    PROVE  ClientsAlone' /\ QuietClientIsServed'
<1> USE DEF ServedInv, NativeInv, NativeTypeOK, GotoMain
<1>1. (\A j \in Clients : ~Busy(j)) /\ \A c \in CLIs : ~InProgress(c)
  BY DEF Quiet, Main, SomebodyBusy
<1>2. /\ at'[k] \in {"connect", "kill", "restart"} /\ UNCHANGED <<vars, mainVars, result>>
      /\ \A j \in Clients : j # k => at'[j] = at[j]
  BY DEF Main, Options, Controls
<1>3. run'[k] = NoRun /\ failCount'[k] = 0
  BY <1>2 DEF Main, CommandKept, ClientStages, mainVars
<1>4. \A c \in CLIs : ~InProgress(c)'
  BY <1>1, <1>2 DEF InProgress, vars
<1>5. ClientAlone(k)' /\ Served(k)'
  BY <1>2, <1>3, NativeAssumption DEF ClientAlone, Served, Started
<1>. QED
  BY <1>1, <1>2, <1>4, <1>5, OneClientSteps DEF mainVars

\* From the command to the connection.
LEMMA PrepareAlone ==
    ASSUME ServedInv, [NativeNext]_allVars, Quiet, Quiet', NEW k \in Clients, Prepare(k)
    PROVE  ClientsAlone' /\ QuietClientIsServed'
<1> USE DEF ServedInv, NativeInv, NativeTypeOK, GotoMain, Return
<1>1. Busy(k) /\ \A j \in Clients : Busy(j) => j = k
  <2>1. Busy(k)
    BY DEF Prepare, InvokeServer, SystemFails, CommandEnded, ConnectServer, Busy, Commands
  <2>. QED
    BY <2>1 DEF ClientsAlone
<1>2. \A j \in Clients : j # k =>
          at'[j] = at[j] /\ result'[j] = result[j] /\ run'[j] = run[j]
  BY DEF Prepare, InvokeServer, SystemFails, CommandEnded, AfterCommand, ConnectServer, Connected,
         Refused, mainVars
<1>3. ClientAlone(k)
  BY <1>1 DEF ClientsAlone
<1>4. (\A c \in CLIs : ~InProgress(c)) /\ Steady
  <2>1. at[k] = "system" => pc[run[k]] = "over"
    BY DEF Prepare, InvokeServer, SystemFails, CommandEnded, ConnectServer, Commands
  <2>. QED
    BY <1>1, <2>1, NoneInProgress
<1>5. CASE InvokeServer(k)
  <2>. PICK c \in CLIs : /\ cmd[c] = at[k] /\ Invoke(c) /\ run' = [run EXCEPT ![k] = c]
    BY <1>5 DEF InvokeServer
  <2>1. at'[k] = "system" /\ run'[k] = c /\ pc'[c] = "probe" /\ outcome'[c] = "none"
    BY <1>5 DEF InvokeServer, Invoke, Goto, IInv, TypeOK, RunStages
  <2>2. \A d \in CLIs : InProgress(d)' => d = c
    BY <1>4 DEF Invoke, Goto, InProgress, IInv, TypeOK
  <2>3. ClientAlone(k)' /\ Served(k)'
    BY <2>1 DEF ClientAlone, Served, Started
  <2>. QED
    BY <1>1, <1>2, <2>1, <2>2, <2>3, OneClientSteps
<1>6. ASSUME UNCHANGED vars, ClientAlone(k)', Served(k)' PROVE ClientsAlone' /\ QuietClientIsServed'
  <2>1. \A c \in CLIs : ~InProgress(c)'
    BY <1>4, <1>6 DEF InProgress, vars
  <2>. QED
    BY <1>1, <1>2, <1>6, <2>1, OneClientSteps
<1>7. CASE SystemFails(k)
  <2>1. UNCHANGED vars /\ run'[k] = Failed /\ at'[k] \in {"over", "connect"}
    BY <1>7 DEF SystemFails, AfterCommand
  <2>2. ClientAlone(k)' /\ Served(k)'
    BY <2>1, NativeAssumption DEF ClientAlone, Served, Started
  <2>. QED
    BY <1>6, <2>1, <2>2
<1>8. CASE CommandEnded(k)
  <2>1. /\ UNCHANGED vars /\ run' = run /\ at[k] = "system" /\ pc[run[k]] = "over"
        /\ \/ cmd[run[k]] = "kill" /\ at'[k] = "over" /\ result'[k] = "killed"
           \/ cmd[run[k]] # "start" /\ at'[k] = "connect" /\ failCount' = failCount
           \/ cmd[run[k]] = "start" /\ at'[k] = "connect"
    BY <1>8 DEF CommandEnded, AfterCommand
  <2>2. failCount[k] = 0
    BY <2>1 DEF ClientStages
  <2>3. ClientAlone(k)' /\ Served(k)'
    BY <1>3, <2>1, <2>2 DEF ClientAlone, Served, Started, AllOff, Off, vars, runVars
  <2>. QED
    BY <1>6, <2>1, <2>3
<1>9. CASE ConnectServer(k)
  <2>1. UNCHANGED vars /\ at[k] = "connect" /\ UNCHANGED <<opt, run, failCount>>
    BY <1>9 DEF ConnectServer, mainVars
  <2>2. \A s \in Servers : server[s] \notin Over \cup {"none"} => server[s] = "serving"
    BY <1>4 DEF Steady, Off
  <2>3. CASE at'[k] = "token"
    <3>1. opt[k].host = "local" => server_of'[k] \in Listeners
      BY <1>9, <2>3 DEF ConnectServer, Connected, Refused
    <3>2. ClientAlone(k)' /\ Served(k)'
      BY <1>3, <2>1, <2>2, <2>3, <3>1
         DEF ClientAlone, Served, Started, Listeners, Listening, Over, vars, runVars
    <3>. QED
      BY <1>6, <2>1, <3>2
  <2>4. CASE at'[k] = "start"
    <3>1. ClientAlone(k)' /\ Served(k)'
      BY <2>4 DEF ClientAlone, Served
    <3>. QED
      BY <1>6, <2>1, <3>1
  <2>5. CASE at'[k] = "over"
    <3>1. opt[k].host = "local" => Listeners = {} /\ failCount[k] = 1
      BY <1>9, <2>5 DEF ConnectServer, Connected, Refused
    <3>2. opt[k].host = "local" /\ run[k] # Failed => FALSE
      BY <1>3, <2>1, <2>2, <3>1 DEF ClientAlone, AllOff, Off, Listeners, Listening, Over
    <3>3. ClientAlone(k)' /\ Served(k)'
      BY <2>1, <2>5, <3>2 DEF ClientAlone, Served
    <3>. QED
      BY <1>6, <2>1, <3>3
  <2>. QED
    BY <1>9, <2>3, <2>4, <2>5 DEF ConnectServer, Connected, Refused
<1>. QED
  BY <1>5, <1>7, <1>8, <1>9 DEF Prepare

\* The token of the one server that can be reached, and its answer.
LEMMA ConverseAlone ==
    ASSUME ServedInv, [NativeNext]_allVars, Quiet, Quiet', NEW k \in Clients,
           Converse(k) \/ SignalHandler(k)
    PROVE  ClientsAlone' /\ QuietClientIsServed'
<1> USE DEF ServedInv, NativeInv, NativeTypeOK, GotoMain, Return
<1>1. at[k] \in {"token", "header", "session"} /\ UNCHANGED <<vars, mainVars>>
  BY DEF Converse, ReadAuthtoken, SendRequest, Status, SignalHandler
<1>2. Busy(k) /\ \A j \in Clients : Busy(j) => j = k
  <2>1. Busy(k)
    BY <1>1 DEF Busy
  <2>. QED
    BY <2>1 DEF ClientsAlone
<1>3. ClientAlone(k) /\ (\A c \in CLIs : ~InProgress(c)) /\ Steady
  BY <1>1, <1>2, NoneInProgress DEF ClientsAlone
<1>4. \A j \in Clients : j # k =>
          at'[j] = at[j] /\ result'[j] = result[j] /\ run'[j] = run[j]
  BY <1>1 DEF Converse, ReadAuthtoken, SendRequest, Status, SignalHandler, mainVars
<1>5. ASSUME ClientAlone(k)', Served(k)' PROVE ClientsAlone' /\ QuietClientIsServed'
  <2>1. \A c \in CLIs : ~InProgress(c)'
    BY <1>1, <1>3 DEF InProgress, vars
  <2>. QED
    BY <1>2, <1>4, <1>5, <2>1, OneClientSteps
<1>6. opt[k].host = "local" => server_of[k] \in Servers /\ file = server_of[k] /\ server[server_of[k]] = "serving"
  BY <1>1, <1>3 DEF ClientAlone, Steady, Off, Over
<1>7. CASE ReadAuthtoken(k)
  <2>1. at[k] = "token" /\ UNCHANGED <<server_of, answer>>
    BY <1>7 DEF ReadAuthtoken
  <2>2. CASE at'[k] = "header"
    <3>1. TakesFile(k) => auth'[k] = server_of[k]
      BY <1>6, <1>7 DEF ReadAuthtoken, TakesFile
    <3>2. ClientAlone(k)' /\ Served(k)'
      BY <1>1, <1>3, <2>1, <2>2, <3>1
         DEF ClientAlone, Served, Started, TakesFile, vars, runVars, mainVars
    <3>. QED
      BY <1>5, <3>2
  <2>3. CASE at'[k] # "header"
    <3>1. at'[k] = "over" /\ ~opt[k].given /\ file \notin Servers
      BY <1>7, <2>3 DEF ReadAuthtoken
    <3>2. ClientAlone(k)' /\ Served(k)'
      BY <1>1, <1>6, <3>1 DEF ClientAlone, Served, mainVars
    <3>. QED
      BY <1>5, <3>2
  <2>. QED
    BY <2>2, <2>3
<1>8. CASE SendRequest(k)
  <2>1. at[k] = "header" /\ at'[k] = "session" /\ answer[k] = "none" /\ UNCHANGED <<server_of, answer, auth>>
    BY <1>8 DEF SendRequest, ClientStages
  <2>2. ClientAlone(k)' /\ Served(k)'
    BY <1>1, <1>3, <2>1 DEF ClientAlone, Served, Started, TakesFile, vars, runVars, mainVars
  <2>. QED
    BY <1>5, <2>2
<1>9. CASE Status(k)
  <2>1. at[k] = "session" /\ at'[k] = "over" /\ result'[k] \in {"invalid", "status", "eof"}
    BY <1>9 DEF Status
  <2>2. opt[k].host = "local" => result'[k] # "eof"
    BY <1>6, <1>9 DEF Status, Over
  <2>3. opt[k].host = "local" /\ (opt[k].given => Started(k)) => result'[k] # "invalid"
    BY <1>3, <1>9, <2>1 DEF Status, ClientAlone
  <2>4. ClientAlone(k)' /\ Served(k)'
    BY <1>1, <2>1, <2>2, <2>3 DEF ClientAlone, Served, Started, vars, runVars, mainVars
  <2>. QED
    BY <1>5, <2>4
<1>10. CASE SignalHandler(k)
  <2>1. at'[k] = "over" /\ result'[k] = "interrupted"
    BY <1>10 DEF SignalHandler
  <2>2. ClientAlone(k)' /\ Served(k)'
    BY <2>1 DEF ClientAlone, Served
  <2>. QED
    BY <1>5, <2>2
<1>. QED
  BY <1>7, <1>8, <1>9, <1>10 DEF Converse

\* The server that a client is connected to takes its token: the one it gave to
\* the command that started it, or the one that it read.
LEMMA AnswerAlone ==
    ASSUME ServedInv, [NativeNext]_allVars, Quiet, Quiet', NEW k \in Clients,
           HandleRequest(k) \/ ScriptEnds(k)
    PROVE  ClientsAlone' /\ QuietClientIsServed'
<1> USE DEF ServedInv, NativeInv, NativeTypeOK
<1>1. UNCHANGED <<vars, at, mainVars, server_of, auth, request, result>>
      /\ \A j \in Clients : j # k => answer'[j] = answer[j]
  BY DEF HandleRequest, ScriptEnds
<1>2. ASSUME Busy(k), ClientAlone(k)
      PROVE  ClientAlone(k)'
  <2>1. ASSUME at[k] = "session", opt[k].host = "local", opt[k].given => Started(k),
               HandleRequest(k)
        PROVE  answer'[k] # "invalid"
    <3>1. server_of[k] \in Servers /\ server[server_of[k]] = "serving"
      BY <1>2, <2>1 DEF ClientAlone
    <3>2. Answering(k) /\ server_of[k] # Remote
      BY <3>1, NativeAssumption DEF Answering, Remote, Servers, Boot
    <3>3. request[k] = "invocation" /\ (opt[k].given => auth[k] = Given)
      BY <2>1 DEF ClientStages
    <3>4. CASE opt[k].given
      <4>1. run[k] \in CLIs /\ server[run[k]] = "serving" /\ run[k] \in launched[k]
        BY <1>2, <2>1, <3>4 DEF ClientAlone, Started, CommandKept
      <4>2. server_of[k] = run[k]
        BY <3>1, <4>1 DEF IInv, OneListener, Listeners, Listening, Servers
      <4>. QED
        BY <2>1, <3>2, <3>3, <3>4, <4>1, <4>2 DEF HandleRequest, Accepts
    <3>5. CASE ~opt[k].given
      <4>1. auth[k] = server_of[k]
        BY <1>2, <2>1, <3>5 DEF ClientAlone, TakesFile
      <4>2. Accepts(k)
        BY <3>1, <3>3, <4>1, NativeAssumption DEF Accepts, Given, Servers, Boot
      <4>. QED
        BY <2>1, <3>2, <4>2 DEF HandleRequest
    <3>. QED
      BY <3>4, <3>5
  <2>2. ScriptEnds(k) => answer'[k] # "invalid"
    BY DEF ScriptEnds
  <2>. QED
    BY <1>1, <1>2, <2>1, <2>2
       DEF ClientAlone, Started, TakesFile, AllOff, Off, vars, runVars, mainVars
<1>3. \A j \in Clients : j # k /\ ClientAlone(j) => ClientAlone(j)'
  BY <1>1 DEF ClientAlone, Started, TakesFile, AllOff, Off, vars, runVars, mainVars
<1>4. ClientsAlone'
  BY <1>1, <1>2, <1>3 DEF ClientsAlone, Busy, InProgress, vars, mainVars
<1>5. \A j \in Clients : Served(j)'
  BY <1>1, ServedStays DEF mainVars
<1>. QED
  BY <1>4, <1>5 DEF QuietClientIsServed, Served, Started

\* The command a client waits for, and the daemons; what users do otherwise is
\* not beside a client.
LEMMA OthersAlone ==
    ASSUME ServedInv, [NativeNext]_allVars, Quiet, Quiet', IInv',
           \/ UserStep
           \/ \E c \in CLIs : CommandStep(c)
           \/ \E s \in Servers : DaemonStep(s)
           \/ UNCHANGED allVars
    PROVE  ClientsAlone' /\ QuietClientIsServed'
<1> USE DEF ServedInv, NativeInv
<1>1. UNCHANGED <<at, mainVars, sessionVars, result>>
  BY DEF UserStep, CommandStep, DaemonStep, allVars, nativeVars
<1>2. \A j \in Clients : Served(j)'
  BY <1>1, ServedStays DEF mainVars
<1>3. QuietClientIsServed'
  BY <1>2 DEF QuietClientIsServed, Served, Started
<1>4. CASE UserStep
  <2>1. \A j \in Clients : ~Busy(j)
    BY <1>4 DEF UserStep, Quiet, SomebodyBusy
  <2>. QED
    BY <1>1, <1>3, <2>1 DEF ClientsAlone, Busy
<1>5. ASSUME NEW c \in CLIs, CommandStep(c) PROVE ClientsAlone'
  <2>1. InProgress(c) /\ RunAlone(c)
    <3>1. InProgress(c)
      BY <1>5 DEF CommandStep, CLIStep, InProgress, Probe, RemoveOldToken, CheckToken, Daemonize,
           AwaitToken, ReadToken, Dial, Judge, ShutdownReadsToken, RequestShutdown, AwaitTokenGone,
           AwaitPortClosed, WorkerStep, Pong, HandleShutdown, Alone, Quiet
    <3>. QED
      BY <3>1 DEF Alone, Quiet
  <2>2. \A d \in CLIs : d # c => pc'[d] = pc[d]
    BY <1>5 DEF CommandStep, CLIStep, Probe, RemoveOldToken, CheckToken, Daemonize, AwaitToken,
           ReadToken, Dial, Unavailable, Judge, ShutdownReadsToken, RequestShutdown, AwaitTokenGone,
           AwaitPortClosed, ShutDownDone, WorkerStep, Pong, HandleShutdown, Goto, Report, IInv, TypeOK
  <2>3. \A d \in CLIs : InProgress(d)' => InProgress(d)
    BY <2>1, <2>2 DEF InProgress
  <2>4. cmd' = cmd
    BY <1>5 DEF CommandStep, CLIStep, Probe, RemoveOldToken, CheckToken, Daemonize, AwaitToken,
           ReadToken, Dial, Judge, ShutdownReadsToken, RequestShutdown, AwaitTokenGone,
           AwaitPortClosed, WorkerStep, Pong, HandleShutdown, runVars
  <2>5. pc'[c] = "over" => /\ cmd[c] = "start" => ~AllOff'
                           /\ outcome'[c] = "started" => server'[c] = "serving"
    <3>1. CASE CLIStep(c) \/ Pong(c)
      BY <2>1, <3>1, RunAloneSteps DEF InProgress
    <3>2. CASE HandleShutdown(c)
      BY <2>1, <3>2 DEF HandleShutdown, InProgress
    <3>. QED
      BY <1>5, <3>1, <3>2 DEF CommandStep, WorkerStep
  <2>6. pc'[c] # "over" => outcome'[c] = "none"
    BY DEF IInv, RunStages
  <2>7. ASSUME NEW k \in Clients, Busy(k) PROVE ClientAlone(k)'
    <3>1. at[k] = "system" /\ run[k] = c
      BY <2>1, <2>7 DEF ClientsAlone
    <3>. QED
      BY <1>1, <2>4, <2>5, <2>6, <3>1 DEF ClientAlone, Started, mainVars
  <2>. QED
    BY <1>1, <2>3, <2>7 DEF ClientsAlone, Busy, mainVars
<1>6. ASSUME NEW s \in Servers, DaemonStep(s) PROVE ClientsAlone'
  <2>1. PICK c \in CLIs : InProgress(c)
    BY <1>6, ServingStays DEF DaemonStep, Alone, Quiet
  <2>2. UNCHANGED <<pc, cmd, outcome>>
    BY <1>6 DEF DaemonStep, ServerStep, Bind, CreateTokenFile, WriteToken, DeleteToken, Exit, runVars
  <2>3. outcome[c] = "none" /\ pc[c] # "over"
    BY <2>1 DEF InProgress, IInv, RunStages
  <2>4. ASSUME NEW k \in Clients, Busy(k) PROVE ClientAlone(k)'
    <3>1. at[k] = "system" /\ run[k] = c
      BY <2>1, <2>4 DEF ClientsAlone
    <3>. QED
      BY <1>1, <2>2, <2>3, <3>1 DEF ClientAlone, Started, mainVars
  <2>. QED
    BY <1>1, <2>2, <2>4 DEF ClientsAlone, Busy, InProgress, mainVars
<1>7. CASE UNCHANGED allVars
  <2>1. UNCHANGED <<pc, cmd, outcome, server, at, opt, run, failCount, server_of, auth, answer>>
    BY <1>7 DEF allVars, vars, runVars, nativeVars, mainVars, sessionVars
  <2>2. \A k \in Clients : ClientAlone(k)' <=> ClientAlone(k)
    BY <2>1 DEF ClientAlone, Started, TakesFile, AllOff, Off
  <2>. QED
    BY <1>3, <2>1, <2>2 DEF ClientsAlone, Busy, InProgress
<1>. QED
  BY <1>3, <1>4, <1>5, <1>6, <1>7

\* No step breaks it.
LEMMA ServedInductive == ServedInv /\ [NativeNext]_allVars => ServedInv'
<1> SUFFICES ASSUME ServedInv, [NativeNext]_allVars PROVE ServedInv'
  OBVIOUS
<1>1. NativeInv' /\ Alone' /\ CommandKept'
  BY NativeInductive, NativeStepIsStep, AloneInductive, CommandKeptInductive DEF ServedInv, NativeInv
<1>2. CASE ~Quiet'
  BY <1>1, <1>2 DEF ServedInv, ClientsAlone, QuietClientIsServed
<1>3. CASE Quiet'
  <2>1. Quiet
    BY <1>3, QuietBefore DEF ServedInv
  <2>2. ClientsAlone' /\ QuietClientIsServed'
    BY <1>1, <1>3, <2>1, MainAlone, PrepareAlone, ConverseAlone, AnswerAlone, OthersAlone
       DEF NativeNext, NativeInv
  <2>. QED
    BY <1>1, <2>2 DEF ServedInv
<1>. QED
  BY <1>2, <1>3

LEMMA ServedInitial == NativeInit => ServedInv
<1> SUFFICES ASSUME NativeInit PROVE ServedInv
  OBVIOUS
<1>1. NativeInv /\ Alone
  BY NativeInitial, AloneInitial DEF NativeInit
<1>2. CommandKept
  BY NativeAssumption DEF NativeInit, CommandKept
<1>3. ClientsAlone /\ QuietClientIsServed
  BY DEF NativeInit, ClientsAlone, QuietClientIsServed, Busy
<1>. QED
  BY <1>1, <1>2, <1>3 DEF ServedInv

\* A client beside which nothing else begins and no server is killed is served:
\* by the server that it finds, or by the one that its command has started.
THEOREM AloneClientIsServed == NativeSpec => []QuietClientIsServed
<1>1. ServedInv => QuietClientIsServed
  BY DEF ServedInv
<1>. QED
  BY <1>1, ServedInitial, ServedInductive, PTL DEF NativeSpec
=============================================================================
