------------------------------ MODULE SubThreads ------------------------------
(***************************************************************************)
(* The threads of the server: the accepting one, a RequestWorker thread    *)
(* per connection, its two pool threads, and what a script starts.  Groups *)
(* tell the GroovyInvokeHandler which threads are its script's; the        *)
(* InheritableThreadLocal connectionHolder tells System.in, out and err    *)
(* which client a thread belongs to.                                       *)
(*                                                                         *)
(* When a script ends, its handler lists the threads it has left (they may *)
(* be starting others meanwhile), joins them, lists again what is left and *)
(* stops it by force.  What the handlers do otherwise is in RequestWorker. *)
(***************************************************************************)
EXTENDS Naturals, Sequences, SequencesExt, FiniteSets

CONSTANTS Sessions,  \* connections
          MaxSubs    \* bound: threads that scripts start

None == "none"

ASSUME SubThreadsAssumption ==
    IsFiniteSet(Sessions) /\ None \notin Sessions /\ MaxSubs \in Nat

\* A session's threads, in the order in which they are started.
Worker == 1
Stream == 2
Invoke == 3
Subs == 4 .. 3 + MaxSubs
Threads == Sessions \X (1 .. 3 + MaxSubs)

\* What a handler lists threads for.
Purposes == {"await", "kill"}

VARIABLES state,    \* of each thread: "new", "alive", "stopping" (stop() was called), "dead"
          group,    \* its ThreadGroup: a path from the server's own
          holder,   \* what connectionHolder holds for it
          daemon,   \* whether it is a daemon
          serverHolder, \* what connectionHolder holds for the accepting thread
          pc,       \* where a session's GroovyInvokeHandler is
          purpose,  \* what it lists threads for
          room,     \* the length of the array it enumerates them into
          threads,  \* its list of them
          interrupted, \* whether it was interrupted
          present,  \* history: the script's threads when it began to await or kill them
          thrown    \* history: whether the script or a join has thrown

threadVars == <<state, group, holder, daemon>>
handlerVars == <<purpose, room, threads, interrupted, present, thrown>>
vars == <<threadVars, serverHolder, pc, handlerVars>>

Alive(t) == state[t] \in {"alive", "stopping"}
Goto(s, label) == pc' = [pc EXCEPT ![s] = label]

Init == /\ state = [t \in Threads |-> "new"]
        /\ group = [t \in Threads |-> <<>>]
        /\ holder = [t \in Threads |-> None]
        /\ daemon = [t \in Threads |-> FALSE]
        /\ serverHolder = None
        /\ pc = [s \in Sessions |-> "none"]
        /\ purpose = [s \in Sessions |-> "await"]
        /\ room = [s \in Sessions |-> 0]
        /\ threads = [s \in Sessions |-> {}]
        /\ interrupted = [s \in Sessions |-> FALSE]
        /\ present = [s \in Sessions |-> [which \in Purposes |-> {}]]
        /\ thrown = [s \in Sessions |-> FALSE]

-----------------------------------------------------------------------------
(* How threads come into being                                             *)

\* new Thread(g, ...) by a thread whose connection is c.
New(t, g, c, isDaemon) ==
    /\ group' = [group EXCEPT ![t] = g]
    /\ holder' = [holder EXCEPT ![t] = c]
    /\ daemon' = [daemon EXCEPT ![t] = isDaemon]

Start(t) == state' = [state EXCEPT ![t] = "alive"]

\* handleRequest: the accepting thread makes the RequestWorker and with it the
\* ClientConnection, which it becomes the holder of...
Accept(s) ==
    /\ pc[s] = "none"
    /\ \A r \in Sessions : pc[r] # "accepted"
    /\ serverHolder' = s
    /\ Goto(s, "accepted")
    /\ UNCHANGED <<threadVars, handlerVars>>

\* Mutant of StartWorker: the thread of a session that is over is used again.
StartPooledWorker(s) ==
    /\ pc[s] = "accepted"
    /\ \E c \in {serverHolder} \cup {holder[<<r, Worker>>] : r \in {r \in Sessions : pc[r] = "over"}} :
         New(<<s, Worker>>, <<s>>, c, FALSE)
    /\ Start(<<s, Worker>>)
    /\ Goto(s, "worker")
    /\ UNCHANGED <<serverHolder, handlerVars>>

\* ... and then the worker's thread, in a group of its own.
StartWorker(s) ==
    /\ pc[s] = "accepted"
    /\ New(<<s, Worker>>, <<s>>, serverHolder, FALSE)
    /\ Start(<<s, Worker>>)
    /\ Goto(s, "worker")
    /\ UNCHANGED <<serverHolder, handlerVars>>

\* Mutant of ThreadFactory: both pool threads in the worker's group.
ThreadFactoryUngrouped(s, t, index) ==
    New(t, group[<<s, Worker>>], holder[<<s, Worker>>], FALSE)

\* newThread, called on the worker's thread: a sub group for each.
ThreadFactory(s, t, index) ==
    New(t, Append(group[<<s, Worker>>], index), holder[<<s, Worker>>], FALSE)

SubmitStream(s) ==
    /\ pc[s] = "worker"
    /\ ThreadFactory(s, <<s, Stream>>, 0)
    /\ Start(<<s, Stream>>)
    /\ Goto(s, "submit")
    /\ UNCHANGED <<serverHolder, handlerVars>>

\* After the second one the worker's run() returns.
SubmitInvoke(s) ==
    /\ pc[s] = "submit"
    /\ ThreadFactory(s, <<s, Invoke>>, 1)
    /\ state' = [state EXCEPT ![<<s, Invoke>>] = "alive", ![<<s, Worker>>] = "dead"]
    /\ Goto(s, "script")
    /\ UNCHANGED <<serverHolder, handlerVars>>

\* A thread that a script starts, or a thread of its, is in the same group as the
\* one it is started by.
StartSub(by, isDaemon) ==
    \E k \in Subs :
        /\ \A j \in Subs : state[<<by[1], j>>] = "new" <=> j >= k
        /\ Cardinality({t \in Threads : t[2] \in Subs /\ state[t] # "new"}) < MaxSubs
        /\ New(<<by[1], k>>, group[by], holder[by], isDaemon)
        /\ Start(<<by[1], k>>)
        /\ UNCHANGED <<serverHolder, pc, handlerVars>>

ScriptStartsThread(s) == pc[s] = "script" /\ \E d \in BOOLEAN : StartSub(<<s, Invoke>>, d)

\* A thread may start others even after stop(), as long as it runs.
SubStartsThread(t) == t[2] \in Subs /\ Alive(t) /\ \E d \in BOOLEAN : StartSub(t, d)

-----------------------------------------------------------------------------
(* How they end                                                            *)

SubEnds(t) ==
    /\ t[2] \in Subs /\ Alive(t)
    /\ state' = [state EXCEPT ![t] = "dead"]
    /\ UNCHANGED <<group, holder, daemon, serverHolder, pc, handlerVars>>

\* The stream handler ends because of the client, or of the connection that is
\* closed when the other handler is over.  afterExecute, still on its thread, waits
\* until there is another future, and cancels it unless it is done.
StreamEnds(s) ==
    /\ pc[s] \notin {"none", "accepted", "worker", "submit"}
    /\ Alive(<<s, Stream>>)
    /\ state' = [state EXCEPT ![<<s, Stream>>] = "dead"]
    /\ interrupted' = [interrupted EXCEPT ![s] = pc[s] # "over"]
    /\ UNCHANGED <<group, holder, daemon, serverHolder, pc, purpose, room, threads, present, thrown>>

StreamIsClosed(s) == pc[s] = "over" /\ StreamEnds(s)

-----------------------------------------------------------------------------
(* GroovyInvokeHandler                                                     *)

SubsOf(s) == {t \in Threads : t[1] = s /\ t[2] \in Subs /\ Alive(t)}

ListThreadsTo(s, which) ==
    /\ purpose' = [purpose EXCEPT ![s] = which]
    /\ present' = [present EXCEPT ![s][which] = SubsOf(s)]
    /\ threads' = [threads EXCEPT ![s] = {}]
    /\ Goto(s, "activeCount")
    /\ UNCHANGED <<threadVars, serverHolder, room, interrupted>>

\* A script that returns is followed by awaitAllSubThreads, one that throws by
\* killAllSubThreadsIfExist.
ScriptEnds(s) ==
    /\ pc[s] = "script"
    /\ \/ ListThreadsTo(s, "await") /\ UNCHANGED thrown
       \/ ListThreadsTo(s, "kill") /\ thrown' = [thrown EXCEPT ![s] = TRUE]

\* What enumerate finds: the live threads of the handler's group and of those
\* below it, itself included.
Members(s) == {t \in Threads : Alive(t) /\ IsPrefix(group[<<s, Invoke>>], group[t])}

\* Mutant of ActiveCount: no extra place.
ActiveCountExact(s) ==
    /\ pc[s] = "activeCount"
    /\ room' = [room EXCEPT ![s] = Cardinality(Members(s))]
    /\ Goto(s, "enumerate")
    /\ UNCHANGED <<threadVars, serverHolder, purpose, threads, interrupted, present, thrown>>

\* getAllAliveSubThreads: the array has one extra place...
ActiveCount(s) ==
    /\ pc[s] = "activeCount"
    /\ room' = [room EXCEPT ![s] = Cardinality(Members(s)) + 1]
    /\ Goto(s, "enumerate")
    /\ UNCHANGED <<threadVars, serverHolder, purpose, threads, interrupted, present, thrown>>

\* ... and if it is filled all the same, the listing begins anew: a thread may
\* have found no place in it.
Enumerate(s) ==
    /\ pc[s] = "enumerate"
    /\ IF Cardinality(Members(s)) < room[s]
         THEN /\ threads' = [threads EXCEPT ![s] = Members(s) \ {<<s, Invoke>>}]
              /\ Goto(s, IF purpose[s] = "await" THEN "join" ELSE "stop")
         ELSE Goto(s, "activeCount") /\ UNCHANGED threads
    /\ room' = [room EXCEPT ![s] = 0]
    /\ UNCHANGED <<threadVars, serverHolder, purpose, interrupted, present, thrown>>

\* Mutant of ToBeJoined: the loop is left, not continued, at a daemon.
ToBeJoinedBeforeDaemon(s) ==
    {t \in threads[s] : /\ ~daemon[t] /\ Alive(t)
                        /\ \A u \in threads[s] : u[2] < t[2] => ~daemon[u]}

ToBeJoined(s) == {t \in threads[s] : ~daemon[t] /\ Alive(t)}

\* Mutant of Joined: what is stopped is what was to be joined.
JoinedThenStop(s) ==
    /\ pc[s] = "join"
    /\ ToBeJoined(s) = {}
    /\ present' = [present EXCEPT ![s].kill = SubsOf(s)]
    /\ Goto(s, "stop")
    /\ UNCHANGED <<threadVars, serverHolder, purpose, room, threads, interrupted, thrown>>

\* One after the other, without a limit; a thread that is dead remains dead.
Joined(s) == /\ pc[s] = "join"
             /\ ToBeJoined(s) = {}
             /\ ListThreadsTo(s, "kill")
             /\ UNCHANGED thrown

JoinThrows(s) == /\ pc[s] = "join"
                 /\ interrupted[s] /\ ToBeJoined(s) # {}
                 /\ thrown' = [thrown EXCEPT ![s] = TRUE]
                 /\ ListThreadsTo(s, "kill")

\* stop() of the next thread of the list, if it still lives.
Stop(s) ==
    /\ pc[s] = "stop"
    /\ \E t \in threads[s] :
         /\ \A u \in threads[s] : t[2] <= u[2]
         /\ state' = [state EXCEPT ![t] = IF @ = "alive" THEN "stopping" ELSE @]
         /\ threads' = [threads EXCEPT ![s] = @ \ {t}]
    /\ UNCHANGED <<group, holder, daemon, serverHolder, pc, purpose, room, interrupted,
                   present, thrown>>

HandlerEnds(s) == /\ pc[s] = "stop"
                  /\ threads[s] = {}
                  /\ state' = [state EXCEPT ![<<s, Invoke>>] = "dead"]
                  /\ Goto(s, "over")
                  /\ UNCHANGED <<group, holder, daemon, serverHolder, handlerVars>>

-----------------------------------------------------------------------------
Begin(s) == Accept(s) \/ StartWorker(s) \/ SubmitStream(s) \/ SubmitInvoke(s)
HandlerStep(s) == ActiveCount(s) \/ Enumerate(s) \/ Joined(s) \/ JoinThrows(s) \/ Stop(s) \/ HandlerEnds(s)

Next == \/ \E s \in Sessions : \/ Begin(s) \/ StreamEnds(s)
                               \/ ScriptStartsThread(s) \/ ScriptEnds(s) \/ HandlerStep(s)
        \/ \E t \in Threads : SubStartsThread(t) \/ SubEnds(t)

Spec == Init /\ [][Next]_vars

\* The server's own threads run on.
Fairness == \A s \in Sessions : /\ WF_vars(Begin(s)) /\ WF_vars(StreamIsClosed(s))
                                /\ WF_vars(HandlerStep(s))
FairSpec == Spec /\ Fairness

-----------------------------------------------------------------------------
(* Properties                                                              *)

\* Every variable stays in its domain: the type invariant.
TypeOK ==
    /\ state \in [Threads -> {"new", "alive", "stopping", "dead"}]
    /\ group \in [Threads -> {<<>>} \cup {<<s>> : s \in Sessions} \cup (Sessions \X {0, 1})]
    /\ holder \in [Threads -> Sessions \cup {None}]
    /\ daemon \in [Threads -> BOOLEAN]
    /\ serverHolder \in Sessions \cup {None}
    /\ pc \in [Sessions -> {"none", "accepted", "worker", "submit", "script", "activeCount",
                             "enumerate", "join", "stop", "over"}]
    /\ purpose \in [Sessions -> Purposes]
    /\ room \in [Sessions -> Nat]
    /\ threads \in [Sessions -> SUBSET Threads]
    /\ interrupted \in [Sessions -> BOOLEAN]
    /\ present \in [Sessions -> [Purposes -> SUBSET Threads]]
    /\ thrown \in [Sessions -> BOOLEAN]

\* Whatever a thread of a script prints, or reads, is its own client's,
\* whichever thread has started it, however many sessions come and go, and also
\* after its session.
OutputGoesToOwnClient == \A t \in Threads : Alive(t) => holder[t] = t[1]

\* A thread that was there when its script had returned, and is no daemon, is
\* let finish: it is stopped by force only if the client interrupted the wait.
AwaitedThreadsFinish ==
    \A s \in Sessions : \A t \in present[s].await :
        state[t] = "stopping" /\ ~daemon[t] => thrown[s]

\* What was there when the handler began to kill has ended or was stopped when it
\* is over: none is missed, however many are started while they are counted.
\* (One that is started later, by another of them, may outlive the session.)
NoThreadMissed ==
    \A s \in Sessions : pc[s] = "over" =>
        \A t \in present[s].kill : state[t] \in {"stopping", "dead"}

\* Threads are only stopped by their own session, and only at its end.
StoppedByOwnHandler ==
    \A t \in Threads : state[t] = "stopping" =>
        pc[t[1]] \in {"stop", "over"} /\ t[2] \in Subs

\* If scripts and their threads end, every session's handler ends: it never
\* waits for a thread that waits for it, and does not count for ever.
HandlersEnd ==
    (\A s \in Sessions : WF_vars(ScriptEnds(s))) /\ (\A t \in Threads : WF_vars(SubEnds(t))) =>
        \A s \in Sessions : pc[s] = "accepted" ~> pc[s] = "over"
=============================================================================
