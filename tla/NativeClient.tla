---------------------------- MODULE NativeClient ----------------------------
(***************************************************************************)
(* The native client (groovyclient.c) beside the commands and daemons of   *)
(* ServerLifecycle: main controls the server if it is told to, connects,   *)
(* starts a server when the connection is refused, reads the token, sends  *)
(* its request and waits for a status.  What it runs with system() is a    *)
(* run of ServerCLI like the ones a user starts.                           *)
(*                                                                         *)
(* A token given with -Cauthtoken is the client's own: the servers that    *)
(* know it are those its commands started.                                 *)
(***************************************************************************)
EXTENDS ServerLifecycle, Naturals

CONSTANTS Clients,   \* runs of groovyclient
          Typed,     \* the option lines their users type
          UserRuns   \* the commands that users may start by themselves

Remote == "remote"   \* the server on another host
NoRun == "no_run"
Failed == "failed"   \* system() could not run the command
Given == "given"     \* the token of -Cauthtoken

Hosts == {"local", "option", "environment"}
Controls == {"none", "kill", "restart"}

VARIABLES opt,        \* client_option: control, host and whether a token is given
          at,         \* where main is
          run,        \* the last command run with system()
          launched,   \* the commands run so far
          failCount,  \* connect_server's count
          server_of,  \* what fd_soc is connected to
          auth,       \* the token in hand
          request,    \* what the server reads first: the request or an interruption
          answer,     \* the server's answer
          result,     \* how the process ended
          crowded     \* history: something else began, or a server died, during a client

mainVars == <<opt, launched, run, failCount>>
sessionVars == <<server_of, auth, request, answer>>
nativeVars == <<at, mainVars, sessionVars, result, crowded>>
allVars == <<vars, nativeVars>>

\* scan_options rejects control of a server on a host given as an option; a
\* host in GROOVYSERV_HOST is not noticed.
Options == {o \in [control : Controls, host : Hosts, given : BOOLEAN] :
              o.host = "option" => o.control = "none"}

ASSUME NativeAssumption == /\ CLIs \cap {Remote, NoRun, Failed, Given} = {}
                           /\ Typed \subseteq Options /\ UserRuns \subseteq CLIs

NativeInit ==
    /\ Init
    /\ opt \in [Clients -> Typed]
    /\ at = [k \in Clients |-> "idle"]
    /\ run = [k \in Clients |-> NoRun]
    /\ launched = [k \in Clients |-> {}]
    /\ failCount = [k \in Clients |-> 0]
    /\ server_of = [k \in Clients |-> NoServer]
    /\ auth = [k \in Clients |-> Absent]
    /\ request = [k \in Clients |-> "none"]
    /\ answer = [k \in Clients |-> "none"]
    /\ result = [k \in Clients |-> "none"]
    /\ crowded = FALSE

Busy(k) == at[k] \notin {"idle", "over"}
SomebodyBusy == \E k \in Clients : Busy(k)
GotoMain(k, label) == at' = [at EXCEPT ![k] = label]
Return(k, how) == GotoMain(k, "over") /\ result' = [result EXCEPT ![k] = how]

-----------------------------------------------------------------------------
(* main, invoke_server and connect_server                                  *)

Main(k) ==
    /\ at[k] = "idle"
    /\ GotoMain(k, IF opt[k].control = "none" THEN "connect" ELSE opt[k].control)
    /\ crowded' = (crowded \/ SomebodyBusy \/ \E c \in CLIs : InProgress(c))
    /\ UNCHANGED <<vars, mainVars, sessionVars, result>>

\* The command line that invoke_server makes: the port, -k or -r if asked for,
\* and a token that was given.
InvokeServer(k) ==
    /\ at[k] \in Commands
    /\ \E c \in CLIs :
         /\ cmd[c] = at[k]
         /\ Invoke(c)
         /\ run' = [run EXCEPT ![k] = c]
         /\ launched' = [launched EXCEPT ![k] = @ \cup {c}]
    /\ GotoMain(k, "system")
    /\ UNCHANGED <<opt, failCount, sessionVars, result, crowded>>

\* Mutant of AfterCommand: the failed attempts are not counted.
AfterCommandUncounted(k, control) ==
    /\ \/ control = "kill" /\ Return(k, "killed")
       \/ control # "kill" /\ GotoMain(k, "connect") /\ UNCHANGED result
    /\ UNCHANGED <<vars, opt, launched, failCount, sessionVars, crowded>>

\* Whatever became of the command, system()'s status is not looked at.
AfterCommand(k, control) ==
    /\ \/ control = "kill" /\ Return(k, "killed") /\ UNCHANGED failCount
       \/ control = "restart" /\ GotoMain(k, "connect") /\ UNCHANGED <<result, failCount>>
       \/ /\ control = "start" /\ GotoMain(k, "connect")
          /\ failCount' = [failCount EXCEPT ![k] = @ + 1]
          /\ UNCHANGED result
    /\ UNCHANGED <<vars, opt, launched, sessionVars, crowded>>

\* There is no groovyserver at GROOVYSERV_HOME or beside the client.
SystemFails(k) ==
    /\ at[k] \in Commands
    /\ run' = [run EXCEPT ![k] = Failed]
    /\ AfterCommand(k, at[k])

\* Mutant of CommandEnded: the command is run in the background.
CommandNotAwaited(k) ==
    /\ at[k] = "system"
    /\ AfterCommand(k, cmd[run[k]])
    /\ UNCHANGED run

CommandEnded(k) ==
    /\ at[k] = "system"
    /\ pc[run[k]] = "over"
    /\ AfterCommand(k, cmd[run[k]])
    /\ UNCHANGED run

Connected(k, s) ==
    /\ server_of' = [server_of EXCEPT ![k] = s]
    /\ GotoMain(k, "token")
    /\ UNCHANGED result

\* Mutant of Refused: one more attempt.
RefusedTwice(k) ==
    /\ \/ failCount[k] > 1 /\ Return(k, "no_server")
       \/ failCount[k] <= 1 /\ GotoMain(k, "start") /\ UNCHANGED result
    /\ UNCHANGED server_of

\* open_socket's connection is refused: a server is started, but once only.
Refused(k) ==
    /\ \/ failCount[k] >= 1 /\ Return(k, "no_server")
       \/ failCount[k] = 0 /\ GotoMain(k, "start") /\ UNCHANGED result
    /\ UNCHANGED server_of

\* The backlog takes the connection before accept() does. What a remote server
\* does is not known here, nor whether it can be resolved and reached at all; a
\* refusal starts a local server all the same.
ConnectServer(k) ==
    /\ at[k] = "connect"
    /\ \/ opt[k].host = "local" /\ \E s \in Listeners : Connected(k, s)
       \/ opt[k].host = "local" /\ Listeners = {} /\ Refused(k)
       \/ opt[k].host # "local" /\ (Connected(k, Remote) \/ Refused(k))
       \/ opt[k].host # "local" /\ Return(k, "unreachable") /\ UNCHANGED server_of
    /\ UNCHANGED <<vars, mainVars, auth, request, answer, crowded>>

-----------------------------------------------------------------------------
(* The token, the request and the session                                  *)

\* Mutant of ReadAuthtoken: a client without a token goes on.
ReadAuthtokenIfAny(k) ==
    /\ at[k] = "token"
    /\ auth' = [auth EXCEPT ![k] = IF opt[k].given THEN Given ELSE file]
    /\ GotoMain(k, "header")
    /\ UNCHANGED <<vars, mainVars, server_of, request, answer, result, crowded>>

\* With no token given, the file is read now, after the connection was made.
\* No file, or nothing in it yet: exit(1).
ReadAuthtoken(k) ==
    /\ at[k] = "token"
    /\ \/ opt[k].given /\ auth' = [auth EXCEPT ![k] = Given] /\ GotoMain(k, "header")
          /\ UNCHANGED result
       \/ /\ ~opt[k].given /\ file \in Servers
          /\ auth' = [auth EXCEPT ![k] = file]
          /\ GotoMain(k, "header")
          /\ UNCHANGED result
       \/ ~opt[k].given /\ file \notin Servers /\ Return(k, "no_token") /\ UNCHANGED auth
    /\ UNCHANGED <<vars, mainVars, server_of, request, answer, crowded>>

SendRequest(k) ==
    /\ at[k] = "header"
    /\ request' = [request EXCEPT ![k] = "invocation"]
    /\ GotoMain(k, "session")
    /\ UNCHANGED <<vars, mainVars, server_of, auth, answer, result, crowded>>

\* SIGINT once the handler is installed: an interrupt request, which is all the
\* server ever gets if the invocation was not yet sent; then exit(1).
SignalHandler(k) ==
    /\ at[k] \in {"token", "header", "session"}
    /\ request' = [request EXCEPT ![k] = IF @ = "none" THEN "interrupt" ELSE @]
    /\ Return(k, "interrupted")
    /\ UNCHANGED <<vars, mainVars, server_of, auth, answer, crowded>>

\* start_session returns a status, or 0 when the server has gone without one.
Status(k) ==
    /\ at[k] = "session"
    /\ \/ answer[k] \in {"invalid", "status"} /\ Return(k, answer[k])
       \/ /\ answer[k] \in {"none", "accepted"}
          /\ server_of[k] \in {s \in Servers : server[s] \in Over}
          /\ Return(k, "eof")
    /\ UNCHANGED <<vars, mainVars, sessionVars, crowded>>

-----------------------------------------------------------------------------
(* The server's side of the session                                        *)

Accepts(k) == /\ request[k] = "invocation"
              /\ server_of[k] \in IF auth[k] = Given THEN launched[k] ELSE {auth[k]}

Answering(k) == server_of[k] \in {s \in Servers : server[s] \in {"serving", "stopping", "exiting"}}

\* A RequestWorker gets the request and checks its token.
HandleRequest(k) ==
    /\ request[k] # "none" /\ answer[k] = "none"
    /\ \/ Answering(k) /\ answer' = [answer EXCEPT ![k] = IF Accepts(k) THEN "accepted" ELSE "invalid"]
       \/ server_of[k] = Remote /\ \E a \in {"accepted", "invalid"} : answer' = [answer EXCEPT ![k] = a]
    /\ UNCHANGED <<vars, at, mainVars, server_of, auth, request, result, crowded>>

\* The script ends, and its status is sent.
ScriptEnds(k) ==
    /\ answer[k] = "accepted"
    /\ Answering(k) \/ server_of[k] = Remote
    /\ answer' = [answer EXCEPT ![k] = "status"]
    /\ UNCHANGED <<vars, at, mainVars, server_of, auth, request, result, crowded>>

-----------------------------------------------------------------------------
\* A user starts a command, or a server is killed.
UserStep == /\ (\E c \in UserRuns : Invoke(c)) \/ (\E s \in Servers : Crash(s))
            /\ crowded' = (crowded \/ SomebodyBusy)
            /\ UNCHANGED <<at, mainVars, sessionVars, result>>

DaemonStep(s) == ServerStep(s) /\ UNCHANGED nativeVars
CommandStep(c) == (CLIStep(c) \/ WorkerStep(c)) /\ UNCHANGED nativeVars

Prepare(k) == InvokeServer(k) \/ SystemFails(k) \/ CommandEnded(k) \/ ConnectServer(k)
Converse(k) == ReadAuthtoken(k) \/ SendRequest(k) \/ Status(k)

NativeNext == \/ UserStep
              \/ \E c \in CLIs : CommandStep(c)
              \/ \E s \in Servers : DaemonStep(s)
              \/ \E k \in Clients : \/ Main(k) \/ Prepare(k) \/ Converse(k) \/ SignalHandler(k)
                                    \/ HandleRequest(k) \/ ScriptEnds(k)

NativeSpec == NativeInit /\ [][NativeNext]_allVars

\* Every process runs on, and a serving server answers.
NativeFairness ==
    /\ \A c \in CLIs : WF_allVars(CLIStep(c) /\ UNCHANGED nativeVars)
                       /\ WF_allVars(WorkerStep(c) /\ UNCHANGED nativeVars)
    /\ \A s \in Servers : WF_allVars(DaemonStep(s))
    /\ \A k \in Clients : WF_allVars(Prepare(k) \/ Converse(k)) /\ WF_allVars(HandleRequest(k))
FairNativeSpec == NativeSpec /\ NativeFairness

-----------------------------------------------------------------------------
(* Properties                                                              *)

\* Every variable of the clients stays in its domain: the type invariant. A
\* refused connection is answered by start_server once at most.
NativeTypeOK ==
    /\ opt \in [Clients -> Options]
    /\ at \in [Clients -> Commands \cup {"idle", "system", "connect", "token", "header",
                                          "session", "over"}]
    /\ run \in [Clients -> CLIs \cup {NoRun, Failed}]
    /\ launched \in [Clients -> SUBSET CLIs]
    /\ failCount \in [Clients -> 0 .. 1]
    /\ server_of \in [Clients -> Servers \cup {NoServer, Remote}]
    /\ auth \in [Clients -> Servers \cup {Absent, Given}]
    /\ request \in [Clients -> {"none", "invocation", "interrupt"}]
    /\ answer \in [Clients -> {"none", "accepted", "invalid", "status"}]
    /\ result \in [Clients -> {"none", "killed", "no_server", "unreachable", "no_token",
                                "interrupted", "invalid", "status", "eof"}]
    /\ crowded \in BOOLEAN

\* A client that takes the token from the file is never refused for it by a
\* local server, however many clients start servers and users stop them at the
\* same time, as long as no server is killed: because the token is read after
\* the connection was made, it is that server's or there is none.
NeverRefused ==
    \A k \in Clients :
        opt[k].host = "local" /\ ~opt[k].given /\ (\A c \in CLIs : server[c] # "crashed")
            => result[k] # "invalid"

\* A client that is left alone is served, whether there was a server, none, or
\* the token of one that was killed: by a server that it found or that its
\* command started (with the token it was given).
Quiet == ~overlap /\ ~crowded
QuietClientIsServed ==
    Quiet => \A k \in Clients :
        /\ at[k] = "over" /\ opt[k].host = "local" /\ run[k] # Failed
        /\ opt[k].given => run[k] \in CLIs /\ outcome[run[k]] = "started"
        => result[k] \in {"status", "killed", "interrupted"}

\* A client that is left alone ends, if its script does: neither its command nor
\* its session is waited for in vain, and it does not start servers for ever.
ClientEnds ==
    (\A k \in Clients : WF_allVars(ScriptEnds(k))) =>
        \A k \in Clients : Busy(k) ~> (at[k] = "over" \/ ~Quiet)
=============================================================================
