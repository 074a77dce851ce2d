--------------------------- MODULE SubThreadsProof ---------------------------
(***************************************************************************)
(* SubThreads for any number of sessions and threads.                      *)
(*                                                                         *)
(* The argument: the group of a thread is that of the part it plays in its *)
(* session, so what a handler finds in its group are the threads of its    *)
(* script and no others; a thread that is there when a listing begins is   *)
(* in the list, or has ended; and nothing that lives leaves the list       *)
(* before it is joined or stopped.                                         *)
(***************************************************************************)
EXTENDS SubThreads, FiniteSetTheorems, SequenceTheorems, TLAPS

Beginning == {"none", "accepted", "worker", "submit"}
Listing == {"activeCount", "enumerate"}
Labels == Beginning \cup {"script", "join", "stop", "over"} \cup Listing

\* The group of a thread that plays part k in session s.
GroupOf(s, k) == IF k = Worker THEN <<s>> ELSE IF k = Stream THEN <<s, 0>> ELSE <<s, 1>>

\* Which threads a session has, by how far it has begun.
Born == \A t \in Threads :
    /\ pc[t[1]] \in {"none", "accepted"} => state[t] = "new"
    /\ pc[t[1]] \in Beginning /\ t[2] \in Subs \cup {Invoke} => state[t] = "new"
    /\ pc[t[1]] = "worker" /\ t[2] = Stream => state[t] = "new"
    /\ pc[t[1]] \notin {"none", "accepted"} /\ t[2] = Worker => state[t] # "new"
    /\ pc[t[1]] \notin Beginning /\ t[2] = Invoke => state[t] # "new"

Inherited == /\ \A s \in Sessions : pc[s] = "accepted" => serverHolder = s
             /\ \A t \in Threads : state[t] # "new" =>
                    group[t] = GroupOf(t[1], t[2]) /\ holder[t] = t[1]

\* The sub threads of session s that were ever started.
Started(s) == {t \in Threads : t[1] = s /\ t[2] \in Subs /\ state[t] # "new"}

ListsOK == \A s \in Sessions :
    /\ threads[s] \subseteq Started(s)
    /\ present[s].await \subseteq Started(s)
    /\ present[s].kill \subseteq Started(s)
    /\ pc[s] \in Beginning \cup {"script"} => present[s].await = {}
    /\ pc[s] = "join" => purpose[s] = "await"
    /\ pc[s] \in {"stop", "over"} => purpose[s] = "kill"

\* What a handler kills: what was there, unless it has ended, is in its list.
Killing == \A s \in Sessions : \A t \in present[s].kill :
    /\ pc[s] = "stop" => state[t] \in {"stopping", "dead"} \/ t \in threads[s]
    /\ pc[s] = "over" => state[t] \in {"stopping", "dead"}

\* What it has waited for, unless it was disturbed, is dead when it begins to kill.
Awaited(s) == {t \in present[s].await : ~daemon[t]}
Awaiting == \A s \in Sessions : ~thrown[s] => \A t \in Awaited(s) :
    /\ pc[s] = "join" => state[t] = "dead" \/ t \in threads[s]
    /\ pc[s] \notin Beginning \cup {"script"} /\ purpose[s] = "kill" => state[t] = "dead"

IInv == TypeOK /\ Born /\ Inherited /\ ListsOK /\ Killing /\ Awaiting /\ StoppedByOwnHandler

\* A thread is a session and a part.
LEMMA Parts == /\ MaxSubs \in Nat /\ {Worker, Stream, Invoke} \cap Subs = {}
               /\ Worker # Stream /\ Worker # Invoke /\ Stream # Invoke
               /\ None \notin Sessions
               /\ \A s \in Sessions : \A k \in Subs \cup {Worker, Stream, Invoke} : <<s, k>> \in Threads
               /\ \A t \in Threads : /\ t = <<t[1], t[2]>> /\ t[1] \in Sessions
                                     /\ t[2] \in Subs \cup {Worker, Stream, Invoke}
BY SubThreadsAssumption DEF Subs, Worker, Stream, Invoke, Threads

\* Nothing has been started.
THEOREM Initial == Init => IInv
<1>. SUFFICES ASSUME Init PROVE IInv
  OBVIOUS
<1>1. TypeOK
  BY SubThreadsAssumption DEF Init, TypeOK, Purposes
<1>2. ListsOK
  BY DEF Init, ListsOK, Purposes
<1>. QED
  BY <1>1, <1>2, Parts DEF Init, IInv, Born, Inherited, Killing, Awaiting, Awaited, StoppedByOwnHandler, Beginning

\* A thread's group tells its session and whether it is of the script.
LEMMA GroupPrefix ==
    ASSUME NEW s \in Sessions, NEW r \in Sessions, NEW k \in Subs \cup {Worker, Stream, Invoke}
    PROVE  IsPrefix(<<s, 1>>, GroupOf(r, k)) <=> r = s /\ k \in Subs \cup {Invoke}
<1>1. CASE k = Worker
  BY <1>1, Parts DEF GroupOf, IsPrefix
<1>2. CASE k = Stream
  BY <1>2, Parts DEF GroupOf, IsPrefix
<1>3. CASE k \in Subs \cup {Invoke}
  BY <1>3, Parts DEF GroupOf, IsPrefix
<1>. QED
  BY <1>1, <1>2, <1>3

\* What a handler finds in its group is itself and its script's living threads.
LEMMA MembersAre ==
    ASSUME IInv, NEW s \in Sessions, pc[s] \notin Beginning
    PROVE  Members(s) \ {<<s, Invoke>>} = SubsOf(s)
<1>1. group[<<s, Invoke>>] = <<s, 1>>
  BY Parts DEF IInv, Born, Inherited, GroupOf
<1>2. ASSUME NEW t \in Threads, Alive(t)
      PROVE  IsPrefix(<<s, 1>>, group[t]) <=> t[1] = s /\ t[2] \in Subs \cup {Invoke}
  <2>1. group[t] = GroupOf(t[1], t[2])
    BY <1>2 DEF Alive, IInv, Inherited
  <2>. QED
    BY <2>1, Parts, GroupPrefix
<1>. QED
  BY <1>1, <1>2, Parts DEF Members, SubsOf

\* A path of two.
LEMMA AppendPair ==
    ASSUME NEW S, NEW s \in S, NEW index \in {0, 1}
    PROVE  Append(<<s>>, index) = <<s, index>>
<1>1. <<s>> \in Seq(S \cup {0, 1}) /\ Len(<<s>>) = 1 /\ <<s>>[1] = s
  OBVIOUS
<1>2. <<s, index>> \in Seq(S \cup {0, 1}) /\ Len(<<s, index>>) = 2
  OBVIOUS
<1>3. Append(<<s>>, index) \in Seq(S \cup {0, 1}) /\ Len(Append(<<s>>, index)) = 2
  BY <1>1
<1>4. \A i \in 1 .. 2 : Append(<<s>>, index)[i] = <<s, index>>[i]
  BY <1>1
<1>. QED
  BY <1>2, <1>3, <1>4, SeqEqual

\* What the factory makes: a thread in a sub group, of the worker's connection.
LEMMA Factory ==
    ASSUME IInv, NEW s \in Sessions, pc[s] \in {"worker", "submit"},
           NEW t, NEW index \in {0, 1}, ThreadFactory(s, t, index)
    PROVE  New(t, <<s, index>>, s, FALSE)
<1>1. group[<<s, Worker>>] = <<s>> /\ holder[<<s, Worker>>] = s
  BY Parts DEF IInv, Born, Inherited, GroupOf
<1>2. Append(<<s>>, index) = <<s, index>>
  BY AppendPair
<1>. QED
  BY <1>1, <1>2 DEF ThreadFactory

\* A thread that is started as its part demands leaves the rest as it is.
LEMMA NewKeeps ==
    ASSUME IInv, NEW s \in Sessions, NEW k \in Subs \cup {Worker, Stream, Invoke},
           NEW d \in BOOLEAN, New(<<s, k>>, GroupOf(s, k), s, d),
           state[<<s, k>>] = "new", state' \in [Threads -> {"new", "alive", "stopping", "dead"}],
           state'[<<s, k>>] = "alive",
           \A t \in Threads \ {<<s, k>>} : state[t] # "new" <=> state'[t] # "new"
    PROVE  /\ group' \in [Threads -> {<<>>} \cup {<<r>> : r \in Sessions} \cup (Sessions \X {0, 1})]
           /\ holder' \in [Threads -> Sessions \cup {None}] /\ daemon' \in [Threads -> BOOLEAN]
           /\ \A t \in Threads : state'[t] # "new" =>
                  group'[t] = GroupOf(t[1], t[2]) /\ holder'[t] = t[1]
           /\ \A t \in Threads : state[t] # "new" => daemon'[t] = daemon[t]
<1> USE Parts DEF IInv, TypeOK, New
<1>1. GroupOf(s, k) \in {<<>>} \cup {<<r>> : r \in Sessions} \cup (Sessions \X {0, 1})
  BY DEF GroupOf
<1>2. group' \in [Threads -> {<<>>} \cup {<<r>> : r \in Sessions} \cup (Sessions \X {0, 1})]
  BY <1>1
<1>3. holder' \in [Threads -> Sessions \cup {None}] /\ daemon' \in [Threads -> BOOLEAN]
  OBVIOUS
<1>4. ASSUME NEW t \in Threads, state'[t] # "new"
      PROVE  group'[t] = GroupOf(t[1], t[2]) /\ holder'[t] = t[1]
  <2>1. CASE t = <<s, k>>
    BY <2>1
  <2>2. CASE t # <<s, k>>
    BY <2>2, <1>4 DEF Inherited
  <2>. QED
    BY <2>1, <2>2
<1>5. ASSUME NEW t \in Threads, state[t] # "new"
      PROVE  daemon'[t] = daemon[t]
  BY <1>5
<1>. QED
  BY <1>2, <1>3, <1>4, <1>5

\* The accepting thread becomes the holder of a connection.
LEMMA AcceptKeeps == ASSUME IInv, NEW s \in Sessions, Accept(s) PROVE IInv'
<1> USE Parts DEF IInv, TypeOK, Goto, Accept, threadVars, handlerVars
<1>1. TypeOK'
  OBVIOUS
<1>2. Born' /\ Inherited'
  BY DEF Born, Inherited, Beginning
<1>3. ListsOK' /\ Killing' /\ Awaiting' /\ StoppedByOwnHandler'
  BY DEF ListsOK, Killing, Awaiting, StoppedByOwnHandler, Awaited, Started, Beginning
<1>. QED
  BY <1>1, <1>2, <1>3

\* A session's own threads come into being one after the other.
Ready(s, k) == pc[s] = IF k = Worker THEN "accepted" ELSE IF k = Stream THEN "worker" ELSE "submit"
ReadyNext(k) == IF k = Worker THEN "worker" ELSE IF k = Stream THEN "submit" ELSE "script"

LEMMA OwnThreadKeeps ==
    ASSUME IInv, NEW s \in Sessions, NEW k \in {Worker, Stream, Invoke},
           Ready(s, k), pc' = [pc EXCEPT ![s] = ReadyNext(k)],
           New(<<s, k>>, GroupOf(s, k), s, FALSE),
           state' = [t \in Threads |-> IF t = <<s, k>> THEN "alive"
                                       ELSE IF k = Invoke /\ t = <<s, Worker>> THEN "dead"
                                       ELSE state[t]],
           UNCHANGED <<serverHolder, purpose, room, threads, interrupted, present, thrown>>
    PROVE  IInv'
<1> USE Parts DEF Ready, ReadyNext
<1>1. state[<<s, k>>] = "new"
  BY DEF IInv, Born, Beginning
<1>2. state' \in [Threads -> {"new", "alive", "stopping", "dead"}]
  BY DEF IInv, TypeOK
<1>3. \A t \in Threads \ {<<s, k>>} : state[t] # "new" <=> state'[t] # "new"
  BY DEF IInv, Born
<1>4. /\ group' \in [Threads -> {<<>>} \cup {<<r>> : r \in Sessions} \cup (Sessions \X {0, 1})]
      /\ holder' \in [Threads -> Sessions \cup {None}] /\ daemon' \in [Threads -> BOOLEAN]
      /\ \A t \in Threads : state'[t] # "new" =>
             group'[t] = GroupOf(t[1], t[2]) /\ holder'[t] = t[1]
      /\ \A t \in Threads : state[t] # "new" => daemon'[t] = daemon[t]
  <2>1. state'[<<s, k>>] = "alive"
    OBVIOUS
  <2>. QED
    BY <1>1, <1>2, <1>3, <2>1, NewKeeps
<1>5. TypeOK'
  BY <1>2, <1>4 DEF IInv, TypeOK
<1>6. Born'
  BY DEF IInv, TypeOK, Born, Beginning
<1>7. Inherited'
  BY <1>4 DEF IInv, TypeOK, Inherited
<1>8. ListsOK'
  BY <1>3 DEF IInv, TypeOK, ListsOK, Started, Beginning
<1>9. \A r \in Sessions : \A t \in present[r].kill \cup present[r].await :
          state'[t] = state[t] /\ daemon'[t] = daemon[t]
  BY <1>1, <1>4 DEF IInv, ListsOK, Started
<1>10. Killing'
  BY <1>9 DEF IInv, TypeOK, Killing
<1>11. Awaiting'
  <2>1. \A r \in Sessions : Awaited(r)' = Awaited(r)
    BY <1>9 DEF Awaited
  <2>2. /\ present[s].await = {}
        /\ \A r \in Sessions : pc'[r] = IF r = s THEN ReadyNext(k) ELSE pc[r]
    BY DEF IInv, TypeOK, ListsOK, Beginning
  <2>. QED
    BY <1>9, <2>1, <2>2 DEF IInv, Awaiting, Awaited
<1>12. StoppedByOwnHandler'
  BY DEF IInv, TypeOK, StoppedByOwnHandler
<1>. QED
  BY <1>5, <1>6, <1>7, <1>8, <1>10, <1>11, <1>12 DEF IInv

LEMMA BeginKeeps ==
    ASSUME IInv, NEW s \in Sessions, StartWorker(s) \/ SubmitStream(s) \/ SubmitInvoke(s)
    PROVE  IInv'
<1> USE Parts DEF Ready, ReadyNext, Goto, handlerVars
<1>0. state \in [Threads -> {"new", "alive", "stopping", "dead"}]
  BY DEF IInv, TypeOK
<1>1. CASE StartWorker(s)
  <2>1. New(<<s, Worker>>, GroupOf(s, Worker), s, FALSE)
    BY <1>1 DEF StartWorker, IInv, Inherited, GroupOf
  <2>2. state' = [t \in Threads |-> IF t = <<s, Worker>> THEN "alive" ELSE state[t]]
    BY <1>0, <1>1 DEF StartWorker, Start
  <2>. QED
    BY <1>1, <2>1, <2>2, OwnThreadKeeps DEF StartWorker
<1>2. CASE SubmitStream(s)
  <2>1. New(<<s, Stream>>, GroupOf(s, Stream), s, FALSE)
    BY <1>2, Factory DEF SubmitStream, GroupOf
  <2>2. state' = [t \in Threads |-> IF t = <<s, Stream>> THEN "alive" ELSE state[t]]
    BY <1>0, <1>2 DEF SubmitStream, Start
  <2>. QED
    BY <1>2, <2>1, <2>2, OwnThreadKeeps DEF SubmitStream
<1>3. CASE SubmitInvoke(s)
  <2>1. New(<<s, Invoke>>, GroupOf(s, Invoke), s, FALSE)
    BY <1>3, Factory DEF SubmitInvoke, GroupOf
  <2>2. state' = [t \in Threads |-> IF t = <<s, Invoke>> THEN "alive"
                                    ELSE IF t = <<s, Worker>> THEN "dead" ELSE state[t]]
    <3>1. state' = [state EXCEPT ![<<s, Invoke>>] = "alive", ![<<s, Worker>>] = "dead"]
      BY <1>3 DEF SubmitInvoke
    <3>2. <<s, Invoke>> # <<s, Worker>>
      OBVIOUS
    <3>. QED
      BY <1>0, <3>1, <3>2
  <2>3. state' = [t \in Threads |-> IF t = <<s, Invoke>> THEN "alive"
                                    ELSE IF Invoke = Invoke /\ t = <<s, Worker>> THEN "dead"
                                    ELSE state[t]]
    BY <2>2
  <2>4. Ready(s, Invoke) /\ ReadyNext(Invoke) = "script"
    BY <1>3 DEF SubmitInvoke
  <2>. HIDE DEF Ready, ReadyNext
  <2>. QED
    BY <1>3, <2>1, <2>3, <2>4, OwnThreadKeeps DEF SubmitInvoke
<1>. QED
  BY <1>1, <1>2, <1>3

\* A script, or one of its threads, starts another.
LEMMA StartSubKeeps ==
    ASSUME IInv, NEW by \in Threads, by[2] \in Subs \cup {Invoke}, state[by] # "new",
           NEW d \in BOOLEAN, StartSub(by, d)
    PROVE  IInv'
<1> DEFINE s == by[1]
<1>1. PICK k \in Subs : /\ \A j \in Subs : state[<<s, j>>] = "new" <=> j >= k
                        /\ New(<<s, k>>, group[by], holder[by], d)
                        /\ Start(<<s, k>>)
                        /\ UNCHANGED <<serverHolder, pc, handlerVars>>
  BY DEF StartSub
<1> USE Parts DEF handlerVars
<1>2. s \in Sessions /\ pc[s] \notin Beginning
  BY DEF IInv, Born
<1>3. group[by] = GroupOf(s, k) /\ holder[by] = s
  BY DEF IInv, Inherited, GroupOf
<1>4. state[<<s, k>>] = "new"
  BY <1>1 DEF Subs
<1>5. state' = [state EXCEPT ![<<s, k>>] = "alive"] /\ <<s, k>> \in Threads
  BY <1>1, <1>2 DEF Start
<1>. HIDE DEF s
<1>6. /\ state' \in [Threads -> {"new", "alive", "stopping", "dead"}]
      /\ state'[<<s, k>>] = "alive"
      /\ \A t \in Threads \ {<<s, k>>} : state[t] = state'[t]
  BY <1>5 DEF IInv, TypeOK
<1>7. /\ group' \in [Threads -> {<<>>} \cup {<<r>> : r \in Sessions} \cup (Sessions \X {0, 1})]
      /\ holder' \in [Threads -> Sessions \cup {None}] /\ daemon' \in [Threads -> BOOLEAN]
      /\ \A t \in Threads : state'[t] # "new" =>
             group'[t] = GroupOf(t[1], t[2]) /\ holder'[t] = t[1]
      /\ \A t \in Threads : state[t] # "new" => daemon'[t] = daemon[t]
  <2>1. \A t \in Threads \ {<<s, k>>} : state[t] # "new" <=> state'[t] # "new"
    BY <1>6
  <2>2. New(<<s, k>>, GroupOf(s, k), s, d)
    BY <1>1, <1>3 DEF s
  <2>. QED
    BY <1>2, <1>4, <1>6, <2>1, <2>2, NewKeeps
<1>8. TypeOK'
  BY <1>1, <1>6, <1>7 DEF IInv, TypeOK
<1>9. Born'
  BY <1>1, <1>2, <1>6 DEF IInv, Born, Beginning
<1>10. Inherited'
  BY <1>1, <1>7 DEF IInv, Inherited
<1>11. ListsOK'
  BY <1>1, <1>4, <1>6 DEF IInv, ListsOK, Started
<1>12. \A r \in Sessions : \A t \in present[r].kill \cup present[r].await :
          state'[t] = state[t] /\ daemon'[t] = daemon[t]
  <2>1. \A r \in Sessions : \A t \in present[r].kill \cup present[r].await :
            t \in Threads /\ state[t] # "new"
    BY DEF IInv, ListsOK, Started
  <2>. QED
    BY <1>4, <1>6, <1>7, <2>1
<1>13. Killing'
  BY <1>1, <1>12 DEF IInv, Killing
<1>14. Awaiting'
  BY <1>1, <1>12 DEF IInv, Awaiting, Awaited
<1>15. StoppedByOwnHandler'
  BY <1>1, <1>6 DEF IInv, StoppedByOwnHandler
<1>. QED
  BY <1>8, <1>9, <1>10, <1>11, <1>13, <1>14, <1>15 DEF IInv

\* A thread that ends takes nothing from the others.
LEMMA EndKeeps ==
    ASSUME IInv, NEW t \in Threads, Alive(t), t[2] \in Subs \cup {Stream},
           state' = [state EXCEPT ![t] = "dead"], interrupted' \in [Sessions -> BOOLEAN],
           UNCHANGED <<group, holder, daemon, serverHolder, pc, purpose, room, threads, present, thrown>>
    PROVE  IInv'
<1> USE Parts DEF Alive
<1>1. TypeOK'
  BY DEF IInv, TypeOK
<1>2. Born' /\ Inherited'
  <2>1. \A u \in Threads : state[u] # "new" <=> state'[u] # "new"
    BY DEF IInv, TypeOK
  <2>2. Born'
    BY <2>1 DEF IInv, Born
  <2>3. Inherited'
    BY <2>1 DEF IInv, Inherited
  <2>. QED
    BY <2>2, <2>3
<1>3. ListsOK'
  BY DEF IInv, TypeOK, ListsOK, Started
<1>4. \A u \in Threads : state'[u] \in {state[u], "dead"}
  BY DEF IInv, TypeOK
<1>5. Killing'
  BY <1>4 DEF IInv, Killing, ListsOK, Started
<1>6. Awaiting'
  BY <1>4 DEF IInv, Awaiting, Awaited, ListsOK, Started
<1>7. StoppedByOwnHandler'
  BY <1>4 DEF IInv, StoppedByOwnHandler
<1>. QED
  BY <1>1, <1>2, <1>3, <1>5, <1>6, <1>7 DEF IInv

\* A script ends, or what was to be joined has ended, or the wait is given up.
LEMMA ListKeeps ==
    ASSUME IInv, NEW s \in Sessions, ScriptEnds(s) \/ Joined(s) \/ JoinThrows(s)
    PROVE  IInv'
<1> USE Parts DEF threadVars, Goto
<1>1. PICK which \in {"await", "kill"} :
        /\ ListThreadsTo(s, which)
        /\ thrown' \in [Sessions -> BOOLEAN]
        /\ \A r \in Sessions : thrown[r] => thrown'[r]
        /\ pc[s] \in {"script", "join"}
        /\ pc[s] = "script" => which = "await" \/ thrown'[s]
        /\ pc[s] = "join" => which = "kill" /\ (thrown'[s] \/ (ToBeJoined(s) = {} /\ thrown'[s] = thrown[s]))
        /\ \A r \in Sessions \ {s} : thrown'[r] = thrown[r]
  <2>0. thrown \in [Sessions -> BOOLEAN]
    BY DEF IInv, TypeOK
  <2>1. CASE ScriptEnds(s)
    BY <2>0, <2>1 DEF ScriptEnds
  <2>2. CASE Joined(s)
    BY <2>0, <2>2 DEF Joined
  <2>3. CASE JoinThrows(s)
    <3>1. pc[s] = "join" /\ ListThreadsTo(s, "kill") /\ thrown' = [thrown EXCEPT ![s] = TRUE]
      BY <2>3 DEF JoinThrows
    <3>2. thrown' \in [Sessions -> BOOLEAN] /\ thrown'[s] /\ \A r \in Sessions : thrown[r] => thrown'[r]
      BY <2>0, <3>1
    <3>3. \A r \in Sessions \ {s} : thrown'[r] = thrown[r]
      BY <2>0, <3>1
    <3>4. /\ \A r \in Sessions : thrown[r] => thrown'[r]
          /\ thrown' \in [Sessions -> BOOLEAN]
          /\ thrown'[s] \/ (ToBeJoined(s) = {} /\ thrown'[s] = thrown[s])
          /\ pc[s] # "script"
      BY <3>1, <3>2
    <3>5. WITNESS "kill" \in {"await", "kill"}
    <3>. QED
      BY <3>1, <3>3, <3>4
  <2>. QED
    BY <2>1, <2>2, <2>3
<1>2. SubsOf(s) \subseteq Started(s)
  BY DEF SubsOf, Started, Alive
<1>3. TypeOK'
  <2>1. present' \in [Sessions -> [Purposes -> SUBSET Threads]]
    BY <1>1 DEF IInv, TypeOK, ListThreadsTo, SubsOf, Purposes
  <2>. QED
    BY <1>1, <2>1 DEF IInv, TypeOK, ListThreadsTo
<1>4. Born' /\ Inherited' /\ StoppedByOwnHandler'
  BY <1>1 DEF IInv, TypeOK, Born, Inherited, StoppedByOwnHandler, ListThreadsTo, Beginning
<1>5. ListsOK'
  BY <1>1, <1>2 DEF IInv, TypeOK, ListsOK, Started, ListThreadsTo, Beginning
<1>6. Killing'
  BY <1>1 DEF IInv, TypeOK, Killing, ListThreadsTo
<1>7. Awaiting'
  <2> SUFFICES ASSUME NEW r \in Sessions, ~thrown'[r], NEW t \in Awaited(r)'
               PROVE  /\ pc'[r] = "join" => state'[t] = "dead" \/ t \in threads'[r]
                      /\ pc'[r] \notin Beginning \cup {"script"} /\ purpose'[r] = "kill" => state'[t] = "dead"
    BY DEF Awaiting
  <2>1. CASE r # s
    BY <2>1, <1>1 DEF IInv, TypeOK, Awaiting, Awaited, ListThreadsTo
  <2>2. CASE r = s /\ pc[s] = "script"
    BY <2>2, <1>1 DEF IInv, TypeOK, ListThreadsTo
  <2>3. CASE r = s /\ pc[s] = "join"
    <3>1. t \in Awaited(s) /\ ~thrown[s] /\ ToBeJoined(s) = {} /\ t \in Threads
      BY <2>3, <1>1 DEF IInv, TypeOK, Awaited, ListThreadsTo, ListsOK, Started
    <3>2. state[t] = "dead"
      BY <2>3, <3>1 DEF IInv, TypeOK, Awaiting, Awaited, ToBeJoined, Alive, ListsOK, Started
    <3>. QED
      BY <3>2, <2>3, <1>1 DEF IInv, TypeOK, ListThreadsTo
  <2>. QED
    BY <1>1, <2>1, <2>2, <2>3
<1>. QED
  BY <1>3, <1>4, <1>5, <1>6, <1>7 DEF IInv

\* A handler counts what is in its group: there are finitely many.
LEMMA ActiveCountKeeps == ASSUME IInv, NEW s \in Sessions, ActiveCount(s) PROVE IInv'
<1>1. Cardinality(Members(s)) \in Nat
  <2>1. IsFiniteSet(Threads)
    <3>1. IsFiniteSet(1 .. 3 + MaxSubs)
      BY SubThreadsAssumption, FS_Interval
    <3>. QED
      BY <3>1, SubThreadsAssumption, FS_Product DEF Threads
  <2>. QED
    BY <2>1, FS_Subset, FS_CardinalityType DEF Members
<1> USE Parts DEF ActiveCount, Goto, threadVars
<1>2. TypeOK'
  BY <1>1 DEF IInv, TypeOK
<1>3. Born' /\ Inherited' /\ StoppedByOwnHandler'
  BY DEF IInv, TypeOK, Born, Inherited, StoppedByOwnHandler, Beginning
<1>4. ListsOK' /\ Killing' /\ Awaiting'
  BY DEF IInv, TypeOK, ListsOK, Killing, Awaiting, Awaited, Started, Beginning
<1>. QED
  BY <1>2, <1>3, <1>4 DEF IInv

\* A listing that is complete has what lives, and nothing but the script's.
LEMMA EnumerateKeeps == ASSUME IInv, NEW s \in Sessions, Enumerate(s) PROVE IInv'
<1> USE Parts DEF Goto, threadVars
<1>1. PICK T, label :
        /\ pc[s] = "enumerate" /\ room' = [room EXCEPT ![s] = 0]
        /\ UNCHANGED <<threadVars, serverHolder, purpose, interrupted, present, thrown>>
        /\ threads' = [threads EXCEPT ![s] = T] /\ pc' = [pc EXCEPT ![s] = label]
        /\ \/ label = "activeCount" /\ T = threads[s]
           \/ label = "join" /\ purpose[s] = "await" /\ T = SubsOf(s)
           \/ label = "stop" /\ purpose[s] = "kill" /\ T = SubsOf(s)
  <2>1. pc[s] = "enumerate" => Members(s) \ {<<s, Invoke>>} = SubsOf(s)
    BY MembersAre DEF Beginning
  <2>2. threads = [threads EXCEPT ![s] = threads[s]] /\ purpose[s] \in {"await", "kill"}
    BY DEF IInv, TypeOK, Purposes
  <2>3. CASE Cardinality(Members(s)) < room[s]
    BY <2>1, <2>2, <2>3 DEF Enumerate
  <2>4. CASE ~(Cardinality(Members(s)) < room[s])
    BY <2>1, <2>2, <2>4 DEF Enumerate
  <2>. QED
    BY <2>3, <2>4
<1>2. SubsOf(s) \subseteq Started(s) /\ SubsOf(s) \subseteq Threads
  BY DEF SubsOf, Started, Alive
<1>3. TypeOK'
  BY <1>1, <1>2 DEF IInv, TypeOK
<1>4. Born' /\ Inherited' /\ StoppedByOwnHandler'
  BY <1>1 DEF IInv, TypeOK, Born, Inherited, StoppedByOwnHandler, Beginning
<1>5. ListsOK'
  BY <1>1, <1>2 DEF IInv, TypeOK, ListsOK, Started, Beginning
<1>6. \A t \in Started(s) : state[t] = "dead" \/ t \in SubsOf(s)
  BY DEF IInv, TypeOK, Started, SubsOf, Alive
<1>7. Killing'
  BY <1>1, <1>6 DEF IInv, TypeOK, Killing, ListsOK
<1>8. Awaiting'
  BY <1>1, <1>6 DEF IInv, TypeOK, Awaiting, Awaited, ListsOK, Beginning
<1>. QED
  BY <1>3, <1>4, <1>5, <1>7, <1>8 DEF IInv

\* The next of the list is stopped.
LEMMA StopKeeps == ASSUME IInv, NEW s \in Sessions, Stop(s) PROVE IInv'
<1>1. PICK t \in threads[s] :
        /\ state' = [state EXCEPT ![t] = IF @ = "alive" THEN "stopping" ELSE @]
        /\ threads' = [threads EXCEPT ![s] = @ \ {t}]
  BY DEF Stop
<1> USE Parts
<1>2. /\ pc[s] = "stop"
      /\ UNCHANGED <<group, holder, daemon, serverHolder, pc, purpose, room, interrupted, present, thrown>>
  BY DEF Stop
<1>3. t \in Threads /\ t[1] = s /\ t[2] \in Subs /\ state[t] # "new"
  BY DEF IInv, ListsOK, Started
<1>4. /\ \A u \in Threads \ {t} : state'[u] = state[u]
      /\ state[t] = "dead" => state'[t] = "dead"
      /\ state'[t] \in {"stopping", "dead"}
  BY <1>1, <1>3 DEF IInv, TypeOK
<1>5. TypeOK'
  BY <1>1, <1>2, <1>3 DEF IInv, TypeOK
<1>6. Born'
  BY <1>2, <1>3, <1>4 DEF IInv, Born
<1>7. Inherited'
  BY <1>2, <1>3, <1>4 DEF IInv, Inherited
<1>8. ListsOK'
  BY <1>1, <1>2, <1>3, <1>4 DEF IInv, TypeOK, ListsOK, Started
<1>9. Killing'
  BY <1>1, <1>2, <1>3, <1>4 DEF IInv, TypeOK, Killing, ListsOK, Started
<1>10. Awaiting'
  BY <1>1, <1>2, <1>3, <1>4 DEF IInv, TypeOK, Awaiting, Awaited, ListsOK, Started
<1>11. StoppedByOwnHandler'
  BY <1>2, <1>3, <1>4 DEF IInv, StoppedByOwnHandler
<1>. QED
  BY <1>5, <1>6, <1>7, <1>8, <1>9, <1>10, <1>11 DEF IInv

\* With the list empty, all that was there has been stopped.
LEMMA HandlerEndsKeeps == ASSUME IInv, NEW s \in Sessions, HandlerEnds(s) PROVE IInv'
<1> USE Parts DEF HandlerEnds, Goto, handlerVars
<1>1. <<s, Invoke>> \in Threads /\ state[<<s, Invoke>>] # "new"
  BY DEF IInv, Born, Beginning
<1>2. \A t \in Threads : state'[t] = IF t = <<s, Invoke>> THEN "dead" ELSE state[t]
  BY DEF IInv, TypeOK
<1>3. TypeOK'
  BY DEF IInv, TypeOK
<1>4. Born'
  BY <1>1, <1>2 DEF IInv, TypeOK, Born, Beginning
<1>5. Inherited'
  BY <1>1, <1>2 DEF IInv, TypeOK, Inherited
<1>6. ListsOK'
  BY <1>1, <1>2 DEF IInv, TypeOK, ListsOK, Started, Beginning
<1>7. Killing'
  BY <1>2 DEF IInv, TypeOK, Killing, ListsOK, Started
<1>8. Awaiting'
  BY <1>2 DEF IInv, TypeOK, Awaiting, Awaited, ListsOK, Started, Beginning
<1>9. StoppedByOwnHandler'
  BY <1>2 DEF IInv, TypeOK, StoppedByOwnHandler
<1>. QED
  BY <1>3, <1>4, <1>5, <1>6, <1>7, <1>8, <1>9 DEF IInv

\* No step breaks the invariant.
THEOREM Inductive == IInv /\ [Next]_vars => IInv'
<1> SUFFICES ASSUME IInv, [Next]_vars PROVE IInv'
  OBVIOUS
<1>1. ASSUME NEW s \in Sessions, Begin(s) PROVE IInv'
  BY <1>1, AcceptKeeps, BeginKeeps DEF Begin
<1>2. ASSUME NEW s \in Sessions, StreamEnds(s) PROVE IInv'
  <2>1. interrupted' \in [Sessions -> BOOLEAN] /\ <<s, Stream>> \in Threads
    BY <1>2, Parts DEF IInv, TypeOK, StreamEnds
  <2>. QED
    BY <1>2, <2>1, EndKeeps DEF StreamEnds
<1>3. ASSUME NEW s \in Sessions, ScriptStartsThread(s) PROVE IInv'
  <2>1. <<s, Invoke>> \in Threads /\ state[<<s, Invoke>>] # "new"
    BY <1>3, Parts DEF IInv, Born, ScriptStartsThread, Beginning
  <2>. QED
    BY <1>3, <2>1, StartSubKeeps DEF ScriptStartsThread
<1>4. ASSUME NEW s \in Sessions, ScriptEnds(s) PROVE IInv'
  BY <1>4, ListKeeps
<1>5. ASSUME NEW s \in Sessions, HandlerStep(s) PROVE IInv'
  BY <1>5, ActiveCountKeeps, EnumerateKeeps, ListKeeps, StopKeeps, HandlerEndsKeeps DEF HandlerStep
<1>6. ASSUME NEW t \in Threads, SubStartsThread(t) PROVE IInv'
  BY <1>6, StartSubKeeps DEF SubStartsThread, Alive
<1>7. ASSUME NEW t \in Threads, SubEnds(t) PROVE IInv'
  <2>1. interrupted' \in [Sessions -> BOOLEAN]
    BY <1>7 DEF IInv, TypeOK, SubEnds, handlerVars
  <2>. QED
    BY <1>7, <2>1, EndKeeps DEF SubEnds, handlerVars
<1>8. CASE UNCHANGED vars
  <2> USE <1>8 DEF vars, threadVars, handlerVars, IInv
  <2>1. TypeOK' /\ Born' /\ Inherited' /\ StoppedByOwnHandler'
    BY DEF TypeOK, Born, Inherited, StoppedByOwnHandler
  <2>2. ListsOK' /\ Killing' /\ Awaiting'
    BY DEF ListsOK, Started, Killing, Awaiting, Awaited
  <2>. QED
    BY <2>1, <2>2
<1>. QED
  BY <1>1, <1>2, <1>3, <1>4, <1>5, <1>6, <1>7, <1>8 DEF Next

\* It holds in every reachable state.
THEOREM Invariance == Spec => []IInv
BY Initial, Inductive, PTL DEF Spec

\* Every variable keeps its type.
THEOREM TypeCorrect == Spec => []TypeOK
<1>1. IInv => TypeOK
  BY DEF IInv
<1>. QED
  BY Invariance, <1>1, PTL

\* Every thread, of however many, has its own session's connection.
THEOREM OwnClient == Spec => []OutputGoesToOwnClient
<1>1. IInv => OutputGoesToOwnClient
  BY DEF IInv, Inherited, OutputGoesToOwnClient, Alive
<1>. QED
  BY Invariance, <1>1, PTL

\* What was there when a script returned is let finish, unless interrupted.
THEOREM LetFinish == Spec => []AwaitedThreadsFinish
<1>1. IInv => AwaitedThreadsFinish
  <2> SUFFICES ASSUME IInv, NEW s \in Sessions, NEW t \in present[s].await,
                      state[t] = "stopping", ~daemon[t], ~thrown[s]
               PROVE  FALSE
    BY DEF IInv, TypeOK, AwaitedThreadsFinish
  <2>1. t \in Threads /\ t[1] = s
    BY DEF IInv, ListsOK, Started
  <2>2. pc[s] \in {"stop", "over"} /\ purpose[s] = "kill"
    BY <2>1 DEF IInv, StoppedByOwnHandler, ListsOK
  <2>. QED
    BY <2>2 DEF IInv, Awaiting, Awaited, Beginning
<1>. QED
  BY Invariance, <1>1, PTL

\* What was there when a handler began to kill has ended or was stopped.
THEOREM NoneMissed == Spec => []NoThreadMissed
<1>1. IInv => NoThreadMissed
  BY DEF IInv, Killing, NoThreadMissed
<1>. QED
  BY Invariance, <1>1, PTL

\* Nobody stops the threads of another session, or those of the server.
THEOREM OnlyOwn == Spec => []StoppedByOwnHandler
<1>1. IInv => StoppedByOwnHandler
  BY DEF IInv
<1>. QED
  BY Invariance, <1>1, PTL
=============================================================================
