--------------------------- MODULE ServerLifecycle ---------------------------
(***************************************************************************)
(* Starting and stopping servers on one port: several runs of ServerCLI    *)
(* (start, kill, restart), each with its GroovyClient, and the daemons     *)
(* they fork.  They meet only through the port and the authtoken file.     *)
(* A daemon's token is the daemon itself: tokens are random and are taken  *)
(* not to collide.  The server "boot" is one an earlier run left behind.   *)
(***************************************************************************)
CONSTANTS CLIs,     \* the runs of ServerCLI; run c forks the daemon c
          Crashes   \* the servers that may be killed from outside

Boot == "boot"
Servers == CLIs \cup {Boot}
NoServer == "nobody"
Absent == "absent"   \* there is no token file
Empty == "empty"     \* the file is created and not yet written

ASSUME NamesAssumption ==
    /\ CLIs \cap {Boot, NoServer, Absent, Empty} = {}
    /\ Crashes \subseteq Servers

Commands == {"start", "kill", "restart"}

VARIABLES cmd,         \* the command of each run
          pc,          \* where it is: "over" once the process has ended
          goal,        \* what it is doing: "kill", "start", "up" (waiting for up)
          authtoken,   \* GroovyClient.authtoken
          peer,        \* the server its socket is connected to
          exitStatus,  \* GroovyClient.exitStatus of its current client
          old,         \* the server it pinged in order to kill it
          outcome,     \* what it told the user
          asked,       \* what became of its shutdown request
          server,      \* the state of each daemon process
          file,        \* the token file
          overlap      \* history: a run was begun, or a server killed, during a run

runVars == <<cmd, goal, old, outcome, overlap>>
clientVars == <<authtoken, peer, exitStatus>>
vars == <<pc, runVars, clientVars, asked, server, file>>

Listening == {"bound", "saving", "serving", "stopping", "exiting"}
Over == {"dead", "crashed"}
Listeners == {s \in Servers : server[s] \in Listening}
InProgress(c) == pc[c] \notin {"idle", "over"}

Init ==
    /\ cmd \in [CLIs -> Commands]
    /\ pc = [c \in CLIs |-> "idle"]
    /\ goal = [c \in CLIs |-> "kill"]
    /\ authtoken = [c \in CLIs |-> Absent]
    /\ peer = [c \in CLIs |-> NoServer]
    /\ exitStatus = [c \in CLIs |-> "null"]
    /\ old = [c \in CLIs |-> NoServer]
    /\ outcome = [c \in CLIs |-> "none"]
    /\ asked = [c \in CLIs |-> "no"]
    /\ \E boot \in {"none", "serving", "crashed"} :
         /\ server = [s \in Servers |-> IF s = Boot THEN boot ELSE "none"]
         /\ file = IF boot = "none" THEN Absent ELSE Boot
    /\ overlap = FALSE

Goto(c, label) == pc' = [pc EXCEPT ![c] = label]
Report(c, what) == outcome' = [outcome EXCEPT ![c] = what] /\ Goto(c, "over")

-----------------------------------------------------------------------------
(* ServerCLI: invoke, and the checks that open both commands               *)

Invoke(c) ==
    /\ pc[c] = "idle"
    /\ overlap' = (overlap \/ \E d \in CLIs : InProgress(d))
    /\ goal' = [goal EXCEPT ![c] = IF cmd[c] = "start" THEN "start" ELSE "kill"]
    /\ Goto(c, "probe")
    /\ UNCHANGED <<cmd, old, outcome, clientVars, asked, server, file>>

\* Mutant of Probe: the port is not looked at.
ProbeNothing(c) ==
    /\ pc[c] = "probe"
    /\ Goto(c, "old")
    /\ exitStatus' = [exitStatus EXCEPT ![c] = "null"]
    /\ UNCHANGED <<runVars, authtoken, peer, asked, server, file>>

\* client.canConnect(), with the new client of shutdownServer or
\* startServerAsDaemon.
Probe(c) ==
    /\ pc[c] = "probe"
    /\ Goto(c, IF Listeners = {} THEN "old" ELSE "exists")
    /\ exitStatus' = [exitStatus EXCEPT ![c] = "null"]
    /\ UNCHANGED <<runVars, authtoken, peer, asked, server, file>>

\* The token file, if any, is taken for an old one and deleted.
RemoveOldToken(c) ==
    /\ pc[c] = "old"
    /\ file' = Absent
    /\ \/ /\ goal[c] = "start"
          /\ Goto(c, "fork")
          /\ UNCHANGED <<goal, outcome>>
       \/ /\ goal[c] = "kill" /\ cmd[c] = "kill"
          /\ Report(c, "nothing")
          /\ UNCHANGED goal
       \/ /\ goal[c] = "kill" /\ cmd[c] = "restart"
          /\ goal' = [goal EXCEPT ![c] = "start"]
          /\ Goto(c, "probe")
          /\ UNCHANGED outcome
    /\ UNCHANGED <<cmd, overlap, old, clientVars, asked, server>>

\* makeSureServerAvailableOrDie begins: no token, no access.
CheckToken(c) ==
    /\ pc[c] = "exists"
    /\ IF file = Absent THEN Report(c, "died")
                        ELSE Goto(c, "read") /\ UNCHANGED outcome
    /\ UNCHANGED <<cmd, overlap, goal, old, clientVars, asked, server, file>>

\* daemonize(): the process is forked; nothing is learnt about it.
Daemonize(c) ==
    /\ pc[c] = "fork"
    /\ server' = [server EXCEPT ![c] = "forked"]
    /\ goal' = [goal EXCEPT ![c] = "up"]
    /\ Goto(c, "await")
    /\ UNCHANGED <<cmd, overlap, old, outcome, clientVars, asked, file>>

AwaitToken(c) ==
    /\ pc[c] = "await"
    /\ file # Absent
    /\ Goto(c, "read")
    /\ UNCHANGED <<runVars, clientVars, asked, server, file>>

-----------------------------------------------------------------------------
(* GroovyClient.isServerAvailable, and what its callers make of it         *)

\* It returns false: the loop that waits for up tries again, the others die.
Unavailable(c) == IF goal[c] = "up" THEN Goto(c, "await") /\ UNCHANGED outcome
                                    ELSE Report(c, "died")

\* connect(): the token file is read...
ReadToken(c) ==
    /\ pc[c] = "read"
    /\ IF file = Absent
         THEN Unavailable(c) /\ UNCHANGED authtoken
         ELSE /\ authtoken' = [authtoken EXCEPT ![c] = file]
              /\ Goto(c, "dial")
              /\ UNCHANGED outcome
    /\ UNCHANGED <<cmd, overlap, goal, old, peer, exitStatus, asked, server, file>>

\* ... then the socket opened. The backlog takes it before accept() does.
Dial(c) ==
    /\ pc[c] = "dial"
    /\ \/ /\ Listeners = {}
          /\ Unavailable(c)
          /\ UNCHANGED <<peer, old>>
       \/ \E s \in Listeners :
            /\ peer' = [peer EXCEPT ![c] = s]
            /\ old' = IF goal[c] = "kill" THEN [old EXCEPT ![c] = s] ELSE old
            /\ Goto(c, "answer")
            /\ UNCHANGED outcome
    /\ UNCHANGED <<cmd, overlap, goal, authtoken, exitStatus, asked, server, file>>

\* The server answers the ping. If it has gone, waitForExit polls for ever.
Pong(c) ==
    /\ pc[c] = "answer"
    /\ server[peer[c]] \in {"serving", "stopping", "exiting"}
    /\ exitStatus' = [exitStatus EXCEPT ![c] =
                        IF authtoken[c] = peer[c] THEN "success" ELSE "invalid"]
    /\ Goto(c, "judge")
    /\ UNCHANGED <<runVars, authtoken, peer, asked, server, file>>

\* isServerAvailable returns true whatever the status was. The loop that waits
\* for up is content with that.
Judge(c) ==
    /\ pc[c] = "judge"
    /\ \/ goal[c] = "up" /\ Report(c, "started")
       \/ goal[c] # "up" /\ exitStatus[c] # "success" /\ Report(c, "died")
       \/ goal[c] = "start" /\ exitStatus[c] = "success" /\ Report(c, "running")
       \/ /\ goal[c] = "kill" /\ exitStatus[c] = "success"
          /\ Goto(c, "shutdown")
          /\ UNCHANGED outcome
    /\ UNCHANGED <<cmd, overlap, goal, old, clientVars, asked, server, file>>

-----------------------------------------------------------------------------
(* shutdownServer, once the server has answered                            *)

\* client.connect() reads the token file again.
ShutdownReadsToken(c) ==
    /\ pc[c] = "shutdown"
    /\ IF file = Absent
         THEN Report(c, "died") /\ UNCHANGED authtoken
         ELSE /\ authtoken' = [authtoken EXCEPT ![c] = file]
              /\ Goto(c, "request")
              /\ UNCHANGED outcome
    /\ UNCHANGED <<cmd, overlap, goal, old, peer, exitStatus, asked, server, file>>

\* connect().shutdown().waitForExit(): exitStatus still holds the ping's, so
\* nothing is waited for and the check of the status succeeds.
RequestShutdown(c) ==
    /\ pc[c] = "request"
    /\ \/ /\ Listeners = {}
          /\ Report(c, "died")
          /\ UNCHANGED <<peer, asked>>
       \/ \E s \in Listeners :
            /\ peer' = [peer EXCEPT ![c] = s]
            /\ asked' = [asked EXCEPT ![c] = "sent"]
            /\ Goto(c, "down")
            /\ UNCHANGED outcome
    /\ UNCHANGED <<cmd, overlap, goal, old, authtoken, exitStatus, server, file>>

\* The loop that waits for down: first the token file, then the port.
AwaitTokenGone(c) ==
    /\ pc[c] = "down"
    /\ file = Absent
    /\ Goto(c, "closed")
    /\ UNCHANGED <<runVars, clientVars, asked, server, file>>

ShutDownDone(c) ==
    IF cmd[c] = "restart"
      THEN Goto(c, "probe") /\ goal' = [goal EXCEPT ![c] = "start"] /\ UNCHANGED outcome
      ELSE Report(c, "down") /\ UNCHANGED goal

\* Mutant of AwaitPortClosed: the port is not looked at.
AwaitNothing(c) ==
    /\ pc[c] = "closed"
    /\ ShutDownDone(c)
    /\ UNCHANGED <<cmd, overlap, old, clientVars, asked, server, file>>

AwaitPortClosed(c) ==
    /\ pc[c] = "closed"
    /\ IF Listeners = {} THEN ShutDownDone(c)
                         ELSE Goto(c, "down") /\ UNCHANGED <<goal, outcome>>
    /\ UNCHANGED <<cmd, overlap, old, clientVars, asked, server, file>>

-----------------------------------------------------------------------------
(* GroovyServer                                                            *)

Become(s, state) == server' = [server EXCEPT ![s] = state]

\* Mutant of Bind: the token is saved before the port is bound.
SaveThenBind(s) ==
    /\ server[s] = "forked"
    /\ file' = s
    /\ Become(s, IF Listeners = {} THEN "serving" ELSE "dead")
    /\ UNCHANGED <<pc, runVars, clientVars, asked>>

\* startServer(): of several daemons one gets the port, the others exit.
Bind(s) ==
    /\ server[s] = "forked"
    /\ Become(s, IF Listeners = {} THEN "bound" ELSE "dead")
    /\ UNCHANGED <<pc, runVars, clientVars, asked, file>>

\* setupAuthToken(), AuthToken.save(): the file is truncated or created...
CreateTokenFile(s) ==
    /\ server[s] = "bound"
    /\ file' = Empty
    /\ Become(s, "saving")
    /\ UNCHANGED <<pc, runVars, clientVars, asked>>

\* ... and written, in vain when it has been deleted meanwhile.
WriteToken(s) ==
    /\ server[s] = "saving"
    /\ file' = IF file = Absent THEN Absent ELSE s
    /\ Become(s, "serving")
    /\ UNCHANGED <<pc, runVars, clientVars, asked>>

\* A worker gets c's shutdown request, answers and calls shutdown().
HandleShutdown(c) ==
    LET s == peer[c] IN
    /\ asked[c] = "sent"
    /\ server[s] \in {"serving", "stopping", "exiting"}
    /\ IF authtoken[c] = s
         THEN /\ asked' = [asked EXCEPT ![c] = "accepted"]
              /\ Become(s, IF server[s] = "serving" THEN "stopping" ELSE server[s])
         ELSE /\ asked' = [asked EXCEPT ![c] = "refused"]
              /\ UNCHANGED server
    /\ UNCHANGED <<pc, runVars, clientVars, file>>

\* Mutant of DeleteToken: the token file is left.
KeepToken(s) ==
    /\ server[s] = "stopping"
    /\ Become(s, "exiting")
    /\ UNCHANGED <<pc, runVars, clientVars, asked, file>>

DeleteToken(s) ==
    /\ server[s] = "stopping"
    /\ file' = Absent
    /\ Become(s, "exiting")
    /\ UNCHANGED <<pc, runVars, clientVars, asked>>

Exit(s) ==
    /\ server[s] = "exiting"
    /\ Become(s, "dead")
    /\ UNCHANGED <<pc, runVars, clientVars, asked, file>>

\* The process is killed; the token file stays.
Crash(s) ==
    /\ s \in Crashes
    /\ overlap' = (overlap \/ \E c \in CLIs : InProgress(c))
    /\ server[s] \in Listening \cup {"forked"}
    /\ Become(s, "crashed")
    /\ UNCHANGED <<pc, cmd, goal, old, outcome, clientVars, asked, file>>

-----------------------------------------------------------------------------
CLIStep(c) == \/ Probe(c) \/ RemoveOldToken(c) \/ CheckToken(c) \/ Daemonize(c)
              \/ AwaitToken(c) \/ ReadToken(c) \/ Dial(c) \/ Judge(c)
              \/ ShutdownReadsToken(c) \/ RequestShutdown(c)
              \/ AwaitTokenGone(c) \/ AwaitPortClosed(c)
WorkerStep(c) == Pong(c) \/ HandleShutdown(c)
ServerStep(s) == Bind(s) \/ CreateTokenFile(s) \/ WriteToken(s) \/ DeleteToken(s) \/ Exit(s)

AllOver == (\A c \in CLIs : pc[c] = "over") /\ UNCHANGED vars

Next == \/ \E c \in CLIs : Invoke(c) \/ CLIStep(c) \/ WorkerStep(c)
        \/ \E s \in Servers : ServerStep(s) \/ Crash(s)
        \/ AllOver

Spec == Init /\ [][Next]_vars

\* Every process runs on, and a serving server answers what it is sent.
Fairness == /\ \A c \in CLIs : WF_vars(CLIStep(c)) /\ WF_vars(WorkerStep(c))
            /\ \A s \in Servers : WF_vars(ServerStep(s))
FairSpec == Spec /\ Fairness

-----------------------------------------------------------------------------
(* Properties                                                              *)

Labels == {"idle", "probe", "old", "exists", "fork", "await", "read", "dial", "answer",
           "judge", "shutdown", "request", "down", "closed", "over"}

\* Every variable stays in its domain: the type invariant. A run that waits for
\* an answer waits for a server.
TypeOK ==
    /\ cmd \in [CLIs -> Commands]
    /\ pc \in [CLIs -> Labels]
    /\ goal \in [CLIs -> {"kill", "start", "up"}]
    /\ authtoken \in [CLIs -> Servers \cup {Absent, Empty}]
    /\ peer \in [CLIs -> Servers \cup {NoServer}]
    /\ old \in [CLIs -> Servers \cup {NoServer}]
    /\ exitStatus \in [CLIs -> {"null", "success", "invalid"}]
    /\ outcome \in [CLIs -> {"none", "died", "nothing", "running", "started", "down"}]
    /\ asked \in [CLIs -> {"no", "sent", "accepted", "refused"}]
    /\ server \in [Servers -> Listening \cup Over \cup {"none", "forked"}]
    /\ file \in Servers \cup {Absent, Empty}
    /\ overlap \in BOOLEAN
    /\ \A c \in CLIs : pc[c] = "answer" \/ asked[c] = "sent" => peer[c] # NoServer

\* A server that is up is never shadowed by another process's token: the file
\* holds its own token or nothing, however many daemons were started at once
\* (a daemon binds before it saves, so a loser of the race saves nothing).  A
\* server that exited has left no token of its own: only a killed one does.
TokenIsTheServers ==
    \A s \in Servers : /\ server[s] \in {"serving", "stopping"} => file \in {s, Absent}
                       /\ server[s] = "exiting" => file = Absent
                       /\ server[s] = "dead" => file # s

\* Once a run has told its user "shut down" (or, in a restart, goes on to
\* start), the server it had pinged in order to kill it is really gone.
KilledIsGone ==
    \A c \in CLIs :
        old[c] # NoServer /\ (goal[c] # "kill" \/ outcome[c] = "down")
            => server[old[c]] \in Over

\* As long as runs do not overlap: between two of them the server that runs, if
\* any, is the only daemon process and is reachable by its token.
QuietServerReachable ==
    ~overlap /\ (\A c \in CLIs : ~InProgress(c)) =>
        \A s \in Servers : server[s] \notin Over \cup {"none"} =>
            server[s] = "serving" /\ file = s

\* As long as runs do not overlap, each ends: neither wait for up nor for down
\* is endless, nor the wait for an answer.
CommandEnds == \A c \in CLIs : InProgress(c) ~> (pc[c] = "over" \/ overlap)

=============================================================================
