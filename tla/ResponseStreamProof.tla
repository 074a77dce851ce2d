------------------------- MODULE ResponseStreamProof -------------------------
(***************************************************************************)
(* ResponseStream for any number of threads, chunks and sizes: however     *)
(* the chunks mix and whenever the session ends, the client's exit code is *)
(* its own or the one status that was sent, unless it obeyed output as a   *)
(* header; and as long as no chunks mix it does not, and the frames        *)
(* implement Delivery.                                                     *)
(*                                                                         *)
(* The argument: a status is written once, so every status on the wire is  *)
(* that one, and a header is never written without its tail, so whatever   *)
(* the client reads from a header on, it reads what was written there.     *)
(* Unmixed, every header is followed by its whole body, the client is      *)
(* where a header begins or within a body it has announced, and what it    *)
(* has printed and what is still on the wire is what was written.          *)
(***************************************************************************)
EXTENDS ResponseStream, SequenceTheorems, TLAPS

WireUnits ==
    [kind : {"head"}, channel : Channels, size : 0 .. MaxSize] \cup
    [kind : {"status"}, code : Codes] \cup
    [kind : {"tail"}] \cup
    [kind : {"unit"}, channel : Channels, number : Nat]

\* Every status on the wire is the one that was decided.
StatusesAreTheStatus ==
    \A i \in 1 .. Len(wire) :
        wire[i].kind = "status" => status # Undecided /\ wire[i].code = status

HeadersHaveTails ==
    \A i \in 1 .. Len(wire) : wire[i].kind \in {"head", "status"} => i < Len(wire)

\* A client that has a code of the server's has it after the server sent it.
ExitedWithStatus ==
    \/ exitCode \in {Undecided, 0, 1} \/ misread
    \/ status # Undecided /\ exitCode = ExitCodeOf(status)

IInv == /\ TypeOK /\ wire \in Seq(WireUnits)
        /\ StatusesAreTheStatus /\ HeadersHaveTails /\ ExitedWithStatus

\* What is written is added at the end.
LEMMA WireGrows ==
    ASSUME wire \in Seq(WireUnits), NEW units \in Seq(WireUnits), wire' = wire \o units
    PROVE  /\ wire' \in Seq(WireUnits)
           /\ Len(wire) \in Nat /\ Len(wire') = Len(wire) + Len(units)
           /\ \A i \in 1 .. Len(wire) : wire'[i] = wire[i]
           /\ \A i \in 1 .. Len(units) : wire'[Len(wire) + i] = units[i]
<1>1. Len(wire) \in Nat /\ Len(units) \in Nat
  BY LenProperties
<1>2. /\ wire' \in Seq(WireUnits)
      /\ Len(wire') = Len(wire) + Len(units)
      /\ \A i \in 1 .. Len(wire) + Len(units) :
            wire'[i] = IF i <= Len(wire) THEN wire[i] ELSE units[i - Len(wire)]
  BY ConcatProperties
<1>. QED
  BY <1>1, <1>2

\* A header and its tail keep what is known of the wire.
LEMMA HeaderKeeps ==
    ASSUME wire \in Seq(WireUnits), StatusesAreTheStatus, HeadersHaveTails,
           NEW head \in WireUnits, wire' = wire \o <<head, TailUnit>>,
           status # Undecided => status' = status,
           head.kind = "status" => status' # Undecided /\ head.code = status'
    PROVE  /\ wire' \in Seq(WireUnits) /\ Len(wire') = Len(wire) + 2
           /\ StatusesAreTheStatus' /\ HeadersHaveTails'
<1> DEFINE units == <<head, TailUnit>>
<1>1. units \in Seq(WireUnits) /\ Len(units) = 2 /\ units[1] = head /\ units[2] = TailUnit
  BY DEF WireUnits, TailUnit
<1>. HIDE DEF units
<1>2. /\ wire' \in Seq(WireUnits)
      /\ Len(wire) \in Nat /\ Len(wire') = Len(wire) + 2
      /\ \A i \in 1 .. Len(wire) : wire'[i] = wire[i]
      /\ \A i \in 1 .. Len(units) : wire'[Len(wire) + i] = units[i]
  BY <1>1, WireGrows DEF units
<1>3. wire'[Len(wire) + 1] = head /\ wire'[Len(wire) + 2] = TailUnit
  BY <1>1, <1>2
<1>4. \A i \in 1 .. Len(wire') : i \in 1 .. Len(wire) \/ i = Len(wire) + 1 \/ i = Len(wire) + 2
  BY <1>2
<1>5. TailUnit.kind = "tail"
  BY DEF TailUnit
<1>6. StatusesAreTheStatus'
  BY <1>2, <1>3, <1>4, <1>5 DEF StatusesAreTheStatus
<1>7. HeadersHaveTails'
  BY <1>2, <1>3, <1>4, <1>5 DEF HeadersHaveTails
<1>. QED
  BY <1>2, <1>6, <1>7

\* So do the units of a body.
LEMMA BodyKeeps ==
    ASSUME wire \in Seq(WireUnits), StatusesAreTheStatus, HeadersHaveTails,
           NEW units \in Seq(WireUnits), wire' = wire \o units,
           \A i \in 1 .. Len(units) : units[i].kind = "unit",
           status' = status
    PROVE  /\ wire' \in Seq(WireUnits) /\ Len(wire') >= Len(wire)
           /\ StatusesAreTheStatus' /\ HeadersHaveTails'
<1>1. Len(units) \in Nat
  BY LenProperties
<1>2. /\ wire' \in Seq(WireUnits)
      /\ Len(wire) \in Nat /\ Len(wire') = Len(wire) + Len(units)
      /\ \A i \in 1 .. Len(wire) : wire'[i] = wire[i]
      /\ \A i \in 1 .. Len(units) : wire'[Len(wire) + i] = units[i]
  BY WireGrows
<1>3. ASSUME NEW i \in 1 .. Len(wire'), wire'[i].kind # "unit"
      PROVE  i \in 1 .. Len(wire) /\ wire'[i] = wire[i]
  <2>. SUFFICES ASSUME i \notin 1 .. Len(wire) PROVE FALSE
    BY <1>2
  <2>1. i - Len(wire) \in 1 .. Len(units) /\ i = Len(wire) + (i - Len(wire))
    BY <1>1, <1>2
  <2>. QED
    BY <1>2, <1>3, <2>1
<1>4. StatusesAreTheStatus'
  BY <1>3 DEF StatusesAreTheStatus
<1>5. HeadersHaveTails'
  BY <1>1, <1>2, <1>3 DEF HeadersHaveTails
<1>. QED
  BY <1>1, <1>2, <1>4, <1>5

\* An exit status of a process has eight bits, and is not Undecided.
LEMMA ExitCodes == \A code \in Codes : ExitCodeOf(code) \in 0 .. 255 /\ code # Undecided
BY BoundsAssumption DEF ExitCodeOf, Undecided

\* Nothing is on the wire and nothing decided.
THEOREM Initial == Init => IInv
<1> SUFFICES ASSUME Init PROVE IInv
  OBVIOUS
<1>1. \A S : <<>> \in Seq(S) /\ Len(<<>>) = 0
  BY EmptySeq
<1>2. NoChunk \in [channel : Channels, size : 0 .. MaxSize]
  BY BoundsAssumption DEF NoChunk, Channels
<1>3. chunk \in [Threads -> [channel : Channels, size : 0 .. MaxSize]]
  BY <1>2 DEF Init
<1>4. written \in Seq(OutputUnits) /\ printed \in Seq(OutputUnits) /\ taken \in 0 .. Len(wire)
  BY <1>1 DEF Init
<1>5. /\ writing \in [Threads -> {"no", "header", "body"}] /\ chunks \in 0 .. MaxChunks
      /\ body \in [channel : Channels, size : Nat] /\ body.size <= MaxSize
  BY <1>2, BoundsAssumption DEF Init, NoChunk
<1>6. TypeOK
  BY <1>3, <1>4, <1>5 DEF Init, TypeOK
<1>. QED
  BY <1>1, <1>6 DEF Init, IInv, StatusesAreTheStatus, HeadersHaveTails, ExitedWithStatus, Undecided

\* Writing, failing, sending the status and closing keep it.
LEMMA ServerKeeps ==
    ASSUME IInv, (\E t \in Threads : BeginWrite(t) \/ WriteHeader(t) \/ WriteBody(t) \/ WriteFails(t))
                 \/ SendExit \/ Close
    PROVE  IInv'
<1> USE BoundsAssumption
<1>1. ASSUME NEW t \in Threads, BeginWrite(t) PROVE IInv'
  BY <1>1 DEF BeginWrite, Busy, IInv, TypeOK, StatusesAreTheStatus, HeadersHaveTails,
              ExitedWithStatus, clientVars
<1>2. ASSUME NEW t \in Threads, WriteHeader(t) PROVE IInv'
  <2> DEFINE head == HeadUnit(chunk[t].channel, chunk[t].size)
  <2>1. head \in WireUnits /\ head.kind = "head"
    BY DEF IInv, TypeOK, WireUnits, HeadUnit
  <2>2. wire' = wire \o <<head, TailUnit>> /\ status' = status
    BY <1>2 DEF WriteHeader
  <2>. HIDE DEF head
  <2>3. /\ wire' \in Seq(WireUnits) /\ Len(wire') = Len(wire) + 2
        /\ StatusesAreTheStatus' /\ HeadersHaveTails'
    BY <2>1, <2>2, HeaderKeeps DEF IInv
  <2>4. taken' \in 0 .. Len(wire')
    BY <1>2, <2>3, LenProperties DEF IInv, TypeOK, WriteHeader, clientVars
  <2>. QED
    BY <1>2, <2>3, <2>4 DEF WriteHeader, IInv, TypeOK, ExitedWithStatus, clientVars
<1>3. ASSUME NEW t \in Threads, WriteBody(t) PROVE IInv'
  <2>. DEFINE ch == chunk[t].channel
              n == chunk[t].size
              body_ == [i \in 1 .. n |-> [channel |-> ch, number |-> Len(written) + i]]
              units == [i \in DOMAIN body_ |->
                          [kind |-> "unit", channel |-> ch, number |-> body_[i].number]]
  <2>1. ch \in Channels /\ n \in Nat /\ Len(written) \in Nat
    BY LenProperties DEF IInv, TypeOK
  <2>2. body_ \in Seq(OutputUnits) /\ DOMAIN body_ = 1 .. n
    <3>1. \A i \in 1 .. n : [channel |-> ch, number |-> Len(written) + i] \in OutputUnits
      BY <2>1 DEF OutputUnits
    <3>2. body_ \in [1 .. n -> OutputUnits]
      BY <3>1
    <3>3. DOMAIN body_ = 1 .. n
      OBVIOUS
    <3>. HIDE DEF body_
    <3>. QED
      BY <2>1, <3>2, <3>3, SeqDef
  <2>3. /\ units \in Seq(WireUnits) /\ Len(units) = n
        /\ \A i \in 1 .. Len(units) : units[i].kind = "unit"
    <3>1. \A i \in 1 .. n : body_[i].number \in Nat
      BY <2>1
    <3>2. \A i \in 1 .. n : [kind |-> "unit", channel |-> ch, number |-> body_[i].number] \in WireUnits
      BY <2>1, <3>1 DEF WireUnits
    <3>. HIDE DEF body_
    <3>3. units \in [1 .. n -> WireUnits]
      BY <2>2, <3>2
    <3>4. \A i \in 1 .. n : units[i].kind = "unit"
      BY <2>2
    <3>5. units \in Seq(WireUnits) /\ Len(units) = n
      BY <2>1, <2>2, <3>3, SeqDef
    <3>. QED
      BY <3>4, <3>5
  <2>4. wire' = wire \o units /\ written' = written \o body_ /\ status' = status
    BY <1>3 DEF WriteBody
  <2>. HIDE DEF units, body_
  <2>5. /\ wire' \in Seq(WireUnits) /\ Len(wire') >= Len(wire)
        /\ StatusesAreTheStatus' /\ HeadersHaveTails'
    BY <2>3, <2>4, BodyKeeps DEF IInv
  <2>6. taken' \in 0 .. Len(wire')
    <3>1. Len(wire) \in Nat /\ Len(wire') \in Nat
      BY <2>5, LenProperties DEF IInv
    <3>2. taken' = taken
      BY <1>3 DEF WriteBody, clientVars
    <3>3. taken \in 0 .. Len(wire)
      BY DEF IInv, TypeOK
    <3>. QED
      BY <2>5, <3>1, <3>2, <3>3
  <2>7. written' \in Seq(OutputUnits)
    BY <2>2, <2>4, ConcatProperties DEF IInv, TypeOK
  <2>. QED
    BY <1>3, <2>5, <2>6, <2>7 DEF WriteBody, IInv, TypeOK, ExitedWithStatus, clientVars
<1>4. ASSUME NEW t \in Threads, WriteFails(t) PROVE IInv'
  BY <1>4 DEF WriteFails, IInv, TypeOK, StatusesAreTheStatus, HeadersHaveTails,
              ExitedWithStatus, clientVars
<1>5. CASE SendExit
  <2>1. PICK code \in Codes : status' = code /\ wire' = wire \o <<StatusHead(code), TailUnit>>
    BY <1>5 DEF SendExit
  <2>2. /\ StatusHead(code) \in WireUnits
        /\ StatusHead(code).kind = "status" /\ StatusHead(code).code = code
    BY DEF StatusHead, WireUnits
  <2>3. status = Undecided /\ code # Undecided
    BY <1>5, ExitCodes DEF SendExit
  <2>4. /\ wire' \in Seq(WireUnits) /\ Len(wire') = Len(wire) + 2
        /\ StatusesAreTheStatus' /\ HeadersHaveTails'
    BY <2>1, <2>2, <2>3, HeaderKeeps DEF IInv
  <2>5. taken' \in 0 .. Len(wire')
    BY <1>5, <2>4, LenProperties DEF IInv, TypeOK, SendExit, clientVars
  <2>6. ExitedWithStatus'
    BY <1>5, <2>3 DEF SendExit, IInv, ExitedWithStatus, clientVars
  <2>. QED
    BY <1>5, <2>1, <2>4, <2>5, <2>6 DEF SendExit, IInv, TypeOK, Busy, clientVars
<1>6. CASE Close
  BY <1>6 DEF Close, IInv, TypeOK, StatusesAreTheStatus, HeadersHaveTails, ExitedWithStatus,
              clientVars
<1>. QED
  BY <1>1, <1>2, <1>3, <1>4, <1>5, <1>6

\* The client's reading keeps it: it only consumes what is on the wire.
LEMMA ClientKeeps ==
    ASSUME IInv, ClientStep
    PROVE  IInv'
<1> USE BoundsAssumption
<1>1. Len(wire) \in Nat
  BY LenProperties DEF IInv
<1>2. CASE ReadHeaders
  <2>1. taken + 1 \in 1 .. Len(wire) /\ Ahead \in WireUnits /\ Ahead = wire[taken + 1]
    BY <1>1, <1>2, ElementOfSeq DEF ReadHeaders, Readable, Ahead, IInv, TypeOK
  <2>2. taken' \in 0 .. Len(wire)
    BY <1>1, <1>2, <2>1 DEF ReadHeaders, IInv, TypeOK, HeadersHaveTails
  <2>3. CASE Ahead.kind = "head"
    <3>1. [channel |-> Ahead.channel, size |-> Ahead.size] \in [channel : Channels, size : 0 .. MaxSize]
      BY <2>1, <2>3 DEF WireUnits
    <3>. QED
      BY <1>2, <2>2, <2>3, <3>1 DEF ReadHeaders, Exit, IInv, TypeOK, StatusesAreTheStatus,
                                    HeadersHaveTails, ExitedWithStatus, serverVars
  <2>4. CASE Ahead.kind = "status"
    <3>1. status # Undecided /\ Ahead.code = status
      BY <2>1, <2>4 DEF IInv, StatusesAreTheStatus
    <3>. QED
      BY <1>2, <2>2, <2>4, <3>1 DEF ReadHeaders, Exit, IInv, TypeOK, StatusesAreTheStatus,
                                    HeadersHaveTails, ExitedWithStatus, serverVars
  <2>. QED
    BY <1>2, <2>3, <2>4 DEF ReadHeaders
<1>7. CASE ReadOutputAsHeaders
  <2>1. taken' \in 0 .. Len(wire)
    BY <1>1, <1>7 DEF ReadOutputAsHeaders, Readable, IInv, TypeOK
  <2>2. body' \in [channel : Channels, size : Nat]
    <3>1. body \in [channel : Channels, size : Nat]
      BY DEF IInv, TypeOK
    <3>2. ASSUME NEW ch \in Channels, NEW n \in TextSizes
          PROVE  [channel |-> ch, size |-> n] \in [channel : Channels, size : Nat]
      BY TextAssumption
    <3>. QED
      BY <1>7, <3>1, <3>2 DEF ReadOutputAsHeaders
  <2>. QED
    BY <1>7, <2>1, <2>2 DEF ReadOutputAsHeaders, Exit, IInv, TypeOK, StatusesAreTheStatus,
                            HeadersHaveTails, ExitedWithStatus, serverVars
<1>3. CASE ReadGarbage
  BY <1>1, <1>3 DEF ReadGarbage, Readable, Exit, IInv, TypeOK, StatusesAreTheStatus,
                    HeadersHaveTails, ExitedWithStatus, serverVars
<1>4. CASE ReadEOF
  BY <1>4 DEF ReadEOF, Exit, IInv, TypeOK, StatusesAreTheStatus, HeadersHaveTails,
              ExitedWithStatus, serverVars
<1>5. CASE ReceiveUnit
  <2>. DEFINE unit == IF Ahead.kind = "unit" /\ Ahead.channel = body.channel
                        THEN [channel |-> Ahead.channel, number |-> Ahead.number]
                        ELSE [channel |-> body.channel, number |-> 0]
  <2>1. Ahead \in WireUnits
    BY <1>1, <1>5, ElementOfSeq DEF ReceiveUnit, Readable, Ahead, IInv, TypeOK
  <2>2. unit \in OutputUnits
    BY <2>1 DEF WireUnits, OutputUnits, IInv, TypeOK
  <2>3. printed' = Append(printed, unit)
    BY <1>5 DEF ReceiveUnit
  <2>. HIDE DEF unit
  <2>4. printed' \in Seq(OutputUnits)
    BY <2>2, <2>3, AppendProperties DEF IInv, TypeOK
  <2>5. taken' \in 0 .. Len(wire)
    BY <1>1, <1>5 DEF ReceiveUnit, Readable, IInv, TypeOK
  <2>6. body' \in [channel : Channels, size : Nat] /\ (~misread => body'.size <= MaxSize)
    <3>1. /\ body \in [channel : Channels, size : Nat]
          /\ body.size - 1 \in Nat /\ (~misread => body.size - 1 <= MaxSize)
          /\ body' = [body EXCEPT !.size = body.size - 1]
      BY <1>5 DEF ReceiveUnit, IInv, TypeOK
    <3>. QED
      BY <3>1
  <2>. QED
    BY <1>5, <2>4, <2>5, <2>6 DEF ReceiveUnit, IInv, TypeOK, StatusesAreTheStatus, HeadersHaveTails,
                            ExitedWithStatus, serverVars
<1>6. CASE BodyEnds
  BY <1>6 DEF BodyEnds, IInv, TypeOK, StatusesAreTheStatus, HeadersHaveTails,
              ExitedWithStatus, serverVars
<1>. QED
  BY <1>2, <1>3, <1>4, <1>5, <1>6, <1>7 DEF ClientStep

\* Every step of either end keeps it.
THEOREM Inductive == IInv /\ [Next]_vars => IInv'
<1> SUFFICES ASSUME IInv, [Next]_vars PROVE IInv'
  OBVIOUS
<1>1. CASE ScriptStep \/ SendExit \/ Close
  BY <1>1, ServerKeeps DEF ScriptStep
<1>2. CASE ClientStep
  BY <1>2, ClientKeeps
<1>3. CASE UNCHANGED vars
  BY <1>3 DEF vars, serverVars, clientVars, IInv, TypeOK, StatusesAreTheStatus,
              HeadersHaveTails, ExitedWithStatus
<1>. QED
  BY <1>1, <1>2, <1>3 DEF Next, AllOver

\* It holds in every reachable state.
THEOREM Invariance == Spec => []IInv
BY Initial, Inductive, PTL DEF Spec

\* Every variable keeps its type.
THEOREM TypeCorrect == Spec => []TypeOK
<1>1. IInv => TypeOK
  BY DEF IInv
<1>. QED
  BY Invariance, <1>1, PTL

-----------------------------------------------------------------------------
(* Delivery: as long as every chunk is alone on the wire.                  *)

\* Units are numbered as they are written, and are on the wire in that order.
Numbered == \A n \in 1 .. Len(written) : written[n].number = n

UnitsAreWritten ==
    \A p \in 1 .. Len(wire) : wire[p].kind = "unit" =>
        /\ wire[p].number \in 1 .. Len(written)
        /\ wire[p].channel = written[wire[p].number].channel

Ordered ==
    \A p, q \in 1 .. Len(wire) :
        wire[p].kind = "unit" /\ wire[q].kind = "unit" /\ p < q => wire[p].number < wire[q].number

OverHasCode == client = "over" <=> exitCode # Undecided

\* A header begins behind p, or nothing yet.
Start(p) == p = Len(wire) \/ wire[p + 1].kind \in {"head", "status"}

Pending(ch, size) ==
    \E t \in Threads : writing[t] = "body" /\ chunk[t] = [channel |-> ch, size |-> size]

\* Behind p is the body that was announced, or will be.
Follows(p, ch, size) ==
    \/ p = Len(wire) /\ Pending(ch, size)
    \/ /\ p + size <= Len(wire)
       /\ \A q \in p + 1 .. p + size : wire[q].kind = "unit" /\ wire[q].channel = ch
       /\ Start(p + size)

Framed ==
    \A p \in 1 .. Len(wire) :
        /\ wire[p].kind \in {"head", "status"} => p < Len(wire) /\ wire[p + 1].kind = "tail"
        /\ wire[p].kind = "head" => Follows(p + 1, wire[p].channel, wire[p].size)
        /\ wire[p].kind = "status" => p = Len(wire) - 1

\* One thread writes, until the status is sent.
OneWriter ==
    /\ \A t, u \in Threads : writing[t] # "no" /\ writing[u] # "no" => t = u
    /\ status # Undecided => \A t \in Threads : writing[t] = "no"
    /\ closed => status # Undecided

\* A header that waits for its body is the last, and a client that has read it waits too.
LastHeader ==
    \A t \in Threads : writing[t] = "body" =>
        /\ Len(wire) >= 2
        /\ wire[Len(wire) - 1] = HeadUnit(chunk[t].channel, chunk[t].size)
        /\ wire[Len(wire)].kind = "tail"
        /\ taken = Len(wire) => \/ client = "body" /\ body = chunk[t]
                                \/ client = "select" /\ chunk[t].size = 0
                                \/ client = "over"

\* A client that goes on has the status still to read.
StatusAhead ==
    status # Undecided /\ client # "over" =>
        taken + 2 <= Len(wire) /\ wire[Len(wire) - 1].kind = "status"

\* The client looks for a header where one begins, and for the rest of a body
\* where it is.
Aligned ==
    /\ client = "select" => Start(taken)
    /\ client = "body" => Follows(taken, body.channel, body.size)

\* What is printed is what was written, and the rest is what is still to be read.
PrintedIsPrefix ==
    /\ Len(printed) <= Len(written)
    /\ \A n \in 1 .. Len(printed) : printed[n] = written[n]

RestIsAhead ==
    /\ \A p \in taken + 1 .. Len(wire) : wire[p].kind = "unit" => wire[p].number > Len(printed)
    /\ \A n \in Len(printed) + 1 .. Len(written) :
          \E p \in taken + 1 .. Len(wire) : wire[p].kind = "unit" /\ wire[p].number = n

Numbering == Numbered /\ UnitsAreWritten /\ Ordered /\ OverHasCode
Unmixed == /\ Framed /\ OneWriter /\ LastHeader /\ StatusAhead /\ Aligned
           /\ PrintedIsPrefix /\ RestIsAhead

DInv == IInv /\ Numbering /\ (~mixed => Unmixed)

\* What is added by a header, of a chunk or of a status.
LEMMA HeaderGrows ==
    ASSUME wire \in Seq(WireUnits), NEW head \in WireUnits, wire' = wire \o <<head, TailUnit>>
    PROVE  /\ Len(wire) \in Nat /\ Len(wire') = Len(wire) + 2
           /\ \A q \in 1 .. Len(wire) : wire'[q] = wire[q]
           /\ wire'[Len(wire) + 1] = head /\ wire'[Len(wire) + 2].kind = "tail"
           /\ \A q \in 1 .. Len(wire') : q \in 1 .. Len(wire) \/ q = Len(wire) + 1 \/ q = Len(wire) + 2
<1> DEFINE units == <<head, TailUnit>>
<1>1. units \in Seq(WireUnits) /\ Len(units) = 2 /\ units[1] = head /\ units[2] = TailUnit
  BY DEF WireUnits, TailUnit
<1>. HIDE DEF units
<1>2. /\ wire' \in Seq(WireUnits)
      /\ Len(wire) \in Nat /\ Len(wire') = Len(wire) + 2
      /\ \A i \in 1 .. Len(wire) : wire'[i] = wire[i]
      /\ \A i \in 1 .. Len(units) : wire'[Len(wire) + i] = units[i]
  BY <1>1, WireGrows DEF units
<1>3. TailUnit.kind = "tail"
  BY DEF TailUnit
<1>. QED
  BY <1>1, <1>2, <1>3

\* What is added by a body: n units of one channel, with the next numbers.
LEMMA BodyGrows ==
    ASSUME IInv, NEW t \in Threads, WriteBody(t)
    PROVE  /\ chunk[t].size \in Nat /\ Len(wire) \in Nat /\ Len(written) \in Nat
           /\ Len(wire') = Len(wire) + chunk[t].size
           /\ Len(written') = Len(written) + chunk[t].size
           /\ \A q \in 1 .. Len(wire) : wire'[q] = wire[q]
           /\ \A q \in Len(wire) + 1 .. Len(wire) + chunk[t].size :
                 /\ wire'[q].kind = "unit" /\ wire'[q].channel = chunk[t].channel
                 /\ wire'[q].number = Len(written) + (q - Len(wire))
           /\ \A n \in 1 .. Len(written) : written'[n] = written[n]
           /\ \A n \in Len(written) + 1 .. Len(written) + chunk[t].size :
                 written'[n].number = n /\ written'[n].channel = chunk[t].channel
           /\ written' \in Seq(OutputUnits)
<1>. DEFINE ch == chunk[t].channel
            k == chunk[t].size
            body_ == [i \in 1 .. k |-> [channel |-> ch, number |-> Len(written) + i]]
            units == [i \in DOMAIN body_ |->
                        [kind |-> "unit", channel |-> ch, number |-> body_[i].number]]
<1>1. ch \in Channels /\ k \in Nat /\ Len(written) \in Nat /\ Len(wire) \in Nat
  BY BoundsAssumption, LenProperties DEF IInv, TypeOK
<1>2. /\ body_ \in Seq(OutputUnits) /\ DOMAIN body_ = 1 .. k /\ Len(body_) = k
      /\ \A i \in 1 .. k : body_[i] = [channel |-> ch, number |-> Len(written) + i]
  <2>1. \A i \in 1 .. k : [channel |-> ch, number |-> Len(written) + i] \in OutputUnits
    BY <1>1 DEF OutputUnits
  <2>2. body_ \in [1 .. k -> OutputUnits] /\ DOMAIN body_ = 1 .. k
    BY <2>1
  <2>3. \A i \in 1 .. k : body_[i] = [channel |-> ch, number |-> Len(written) + i]
    OBVIOUS
  <2>. HIDE DEF body_
  <2>. QED
    BY <1>1, <2>2, <2>3, SeqDef
<1>3. /\ units \in Seq(WireUnits) /\ Len(units) = k
      /\ \A i \in 1 .. k : units[i] = [kind |-> "unit", channel |-> ch, number |-> Len(written) + i]
  <2>1. \A i \in 1 .. k : body_[i].number = Len(written) + i
    BY <1>2
  <2>2. \A i \in 1 .. k :
          [kind |-> "unit", channel |-> ch, number |-> Len(written) + i] \in WireUnits
    BY <1>1 DEF WireUnits
  <2>. HIDE DEF body_
  <2>3. units = [i \in 1 .. k |-> [kind |-> "unit", channel |-> ch, number |-> body_[i].number]]
    BY <1>2
  <2>4. \A i \in 1 .. k : units[i] = [kind |-> "unit", channel |-> ch, number |-> Len(written) + i]
    BY <2>1, <2>3
  <2>5. units \in [1 .. k -> WireUnits]
    BY <2>1, <2>2, <2>3
  <2>6. DOMAIN units = 1 .. k
    BY <2>3
  <2>. HIDE DEF units
  <2>7. units \in Seq(WireUnits) /\ Len(units) = k
    BY <1>1, <2>5, <2>6, SeqDef
  <2>. QED
    BY <2>4, <2>7
<1>4. wire' = wire \o units /\ written' = written \o body_
  BY DEF WriteBody
<1>. HIDE DEF units, body_
<1>5. /\ Len(wire') = Len(wire) + k
      /\ \A i \in 1 .. Len(wire) : wire'[i] = wire[i]
      /\ \A i \in 1 .. k : wire'[Len(wire) + i] = units[i]
  BY <1>3, <1>4, WireGrows DEF IInv
<1>6. /\ written' \in Seq(OutputUnits)
      /\ Len(written') = Len(written) + k
      /\ \A i \in 1 .. Len(written) + k :
            written'[i] = IF i <= Len(written) THEN written[i] ELSE body_[i - Len(written)]
  <2>1. written \in Seq(OutputUnits) /\ body_ \in Seq(OutputUnits) /\ Len(body_) = k
    BY <1>2 DEF IInv, TypeOK
  <2>. HIDE DEF k, ch
  <2>. QED
    BY <1>4, <2>1, ConcatProperties
<1>7. ASSUME NEW q \in Len(wire) + 1 .. Len(wire) + k
      PROVE  /\ wire'[q].kind = "unit" /\ wire'[q].channel = ch
             /\ wire'[q].number = Len(written) + (q - Len(wire))
  <2>1. q - Len(wire) \in 1 .. k /\ Len(wire) + (q - Len(wire)) = q
    BY <1>1
  <2>2. wire'[q] = units[q - Len(wire)]
    BY <1>5, <2>1
  <2>3. units[q - Len(wire)] = [kind |-> "unit", channel |-> ch,
                                number |-> Len(written) + (q - Len(wire))]
    BY <1>3, <2>1
  <2>. QED
    BY <2>2, <2>3
<1>8. ASSUME NEW n \in Len(written) + 1 .. Len(written) + k
      PROVE  written'[n].number = n /\ written'[n].channel = ch
  <2>1. n - Len(written) \in 1 .. k /\ n \in 1 .. Len(written) + k /\ ~(n <= Len(written))
    BY <1>1
  <2>2. written'[n] = [channel |-> ch, number |-> Len(written) + (n - Len(written))]
    BY <1>2, <1>6, <2>1
  <2>. QED
    BY <1>1, <2>1, <2>2
<1>9. \A n \in 1 .. Len(written) : written'[n] = written[n]
  BY <1>1, <1>6
<1>. QED
  BY <1>1, <1>5, <1>6, <1>7, <1>8, <1>9

\* Numbering does not depend on what is mixed.
LEMMA NumberingKept == ASSUME IInv, Numbering, [Next]_vars PROVE Numbering'
<1>1. CASE UNCHANGED <<written, wire, client, exitCode>>
  BY <1>1 DEF Numbering, Numbered, UnitsAreWritten, Ordered, OverHasCode
<1>2. ASSUME UNCHANGED <<written, client, exitCode>>,
             NEW head \in WireUnits, head.kind # "unit", wire' = wire \o <<head, TailUnit>>
      PROVE  Numbering'
  <2>1. /\ Len(wire) \in Nat /\ Len(wire') = Len(wire) + 2
        /\ \A q \in 1 .. Len(wire) : wire'[q] = wire[q]
        /\ wire'[Len(wire) + 1] = head /\ wire'[Len(wire) + 2].kind = "tail"
        /\ \A q \in 1 .. Len(wire') : q \in 1 .. Len(wire) \/ q = Len(wire) + 1 \/ q = Len(wire) + 2
    BY <1>2, HeaderGrows DEF IInv
  <2>2. \A q \in 1 .. Len(wire') : wire'[q].kind = "unit" => q \in 1 .. Len(wire) /\ wire'[q] = wire[q]
    BY <1>2, <2>1
  <2>3. Numbered' /\ OverHasCode'
    BY <1>2 DEF Numbering, Numbered, OverHasCode
  <2>4. UnitsAreWritten'
    BY <1>2, <2>2 DEF Numbering, UnitsAreWritten
  <2>5. Ordered'
    BY <2>2 DEF Numbering, Ordered
  <2>. QED
    BY <2>3, <2>4, <2>5 DEF Numbering
<1>3. ASSUME NEW t \in Threads, WriteHeader(t) PROVE Numbering'
  <2>1. /\ HeadUnit(chunk[t].channel, chunk[t].size) \in WireUnits
        /\ HeadUnit(chunk[t].channel, chunk[t].size).kind # "unit"
    BY DEF IInv, TypeOK, WireUnits, HeadUnit
  <2>. QED
    BY <1>2, <1>3, <2>1 DEF WriteHeader, clientVars
<1>4. ASSUME SendExit PROVE Numbering'
  <2>1. PICK code \in Codes : wire' = wire \o <<StatusHead(code), TailUnit>>
    BY <1>4 DEF SendExit
  <2>2. StatusHead(code) \in WireUnits /\ StatusHead(code).kind # "unit"
    BY DEF StatusHead, WireUnits
  <2>. QED
    BY <1>2, <1>4, <2>1, <2>2 DEF SendExit, clientVars
<1>5. ASSUME NEW t \in Threads, WriteBody(t) PROVE Numbering'
  <2>. DEFINE k == chunk[t].size
  <2>1. /\ k \in Nat /\ Len(wire) \in Nat /\ Len(written) \in Nat
        /\ Len(wire') = Len(wire) + k /\ Len(written') = Len(written) + k
        /\ \A q \in 1 .. Len(wire) : wire'[q] = wire[q]
        /\ \A q \in Len(wire) + 1 .. Len(wire) + k :
              /\ wire'[q].kind = "unit" /\ wire'[q].channel = chunk[t].channel
              /\ wire'[q].number = Len(written) + (q - Len(wire))
        /\ \A n \in 1 .. Len(written) : written'[n] = written[n]
        /\ \A n \in Len(written) + 1 .. Len(written) + k :
              written'[n].number = n /\ written'[n].channel = chunk[t].channel
    BY <1>5, BodyGrows
  <2>2. UNCHANGED <<client, exitCode>>
    BY <1>5 DEF WriteBody, clientVars
  <2>. HIDE DEF k
  <2>3. Numbered'
    <3>. SUFFICES ASSUME NEW n \in 1 .. Len(written') PROVE written'[n].number = n
      BY DEF Numbered
    <3>1. n \in 1 .. Len(written) \/ n \in Len(written) + 1 .. Len(written) + k
      BY <2>1
    <3>. QED
      BY <2>1, <3>1 DEF Numbering, Numbered
  <2>4. \A q \in 1 .. Len(wire') : q \in 1 .. Len(wire) \/ q \in Len(wire) + 1 .. Len(wire) + k
    BY <2>1
  <2>5. UnitsAreWritten'
    <3>. SUFFICES ASSUME NEW q \in 1 .. Len(wire'), wire'[q].kind = "unit"
                  PROVE  /\ wire'[q].number \in 1 .. Len(written')
                         /\ wire'[q].channel = written'[wire'[q].number].channel
      BY DEF UnitsAreWritten
    <3>1. CASE q \in 1 .. Len(wire)
      <4>1. /\ wire[q].number \in 1 .. Len(written) /\ wire'[q] = wire[q]
            /\ wire[q].channel = written[wire[q].number].channel
        BY <2>1, <3>1 DEF Numbering, UnitsAreWritten
      <4>2. written'[wire[q].number] = written[wire[q].number]
        BY <2>1, <4>1
      <4>3. wire[q].number \in 1 .. Len(written')
        BY <2>1, <4>1
      <4>. QED
        BY <4>1, <4>2, <4>3
    <3>2. CASE q \in Len(wire) + 1 .. Len(wire) + k
      <4>1. Len(written) + (q - Len(wire)) \in Len(written) + 1 .. Len(written) + k
        BY <2>1, <3>2
      <4>2. Len(written) + (q - Len(wire)) \in 1 .. Len(written')
        BY <2>1, <3>2
      <4>. QED
        BY <2>1, <3>2, <4>1, <4>2
    <3>. QED
      BY <2>4, <3>1, <3>2
  <2>6. Ordered'
    <3>. SUFFICES ASSUME NEW p \in 1 .. Len(wire'), NEW q \in 1 .. Len(wire'),
                         wire'[p].kind = "unit", wire'[q].kind = "unit", p < q
                  PROVE  wire'[p].number < wire'[q].number
      BY DEF Ordered
    <3>1. CASE q \in 1 .. Len(wire)
      <4>1. p \in 1 .. Len(wire)
        BY <3>1
      <4>. QED
        BY <2>1, <3>1, <4>1 DEF Numbering, Ordered
    <3>2. CASE q \in Len(wire) + 1 .. Len(wire) + k /\ p \in 1 .. Len(wire)
      <4>1. wire'[p].number \in 1 .. Len(written)
        BY <2>1, <3>2 DEF Numbering, UnitsAreWritten
      <4>2. wire'[q].number = Len(written) + (q - Len(wire))
        BY <2>1, <3>2
      <4>. QED
        BY <2>1, <3>2, <4>1, <4>2
    <3>3. CASE q \in Len(wire) + 1 .. Len(wire) + k /\ p \in Len(wire) + 1 .. Len(wire) + k
      <4>1. /\ wire'[q].number = Len(written) + (q - Len(wire))
            /\ wire'[p].number = Len(written) + (p - Len(wire))
        BY <2>1, <3>3
      <4>. QED
        BY <2>1, <4>1
    <3>. QED
      BY <2>4, <3>1, <3>2, <3>3
  <2>. QED
    BY <2>2, <2>3, <2>5, <2>6 DEF Numbering, OverHasCode
<1>6. ASSUME UNCHANGED <<written, wire>>, OverHasCode' PROVE Numbering'
  BY <1>6 DEF Numbering, Numbered, UnitsAreWritten, Ordered
<1>7. CASE ClientStep
  <2>1. UNCHANGED <<written, wire>>
    BY <1>7 DEF ClientStep, ReadHeaders, ReadGarbage, ReadOutputAsHeaders,
         ReadEOF, ReceiveUnit, BodyEnds, serverVars
  <2>2. CASE ReadHeaders
    <3>1. Ahead.kind = "status" => Ahead.code \in Codes
      <4>1. taken + 1 \in 1 .. Len(wire)
        BY <2>2, LenProperties DEF ReadHeaders, Readable, IInv, TypeOK
      <4>2. Ahead \in WireUnits
        BY <4>1, ElementOfSeq DEF Ahead, IInv
      <4>. QED
        BY <4>2 DEF WireUnits
    <3>. QED
      BY <1>6, <2>1, <2>2, <3>1, ExitCodes DEF ReadHeaders, Exit, Numbering, OverHasCode, Undecided
  <2>7. CASE ReadOutputAsHeaders
    BY <1>6, <2>1, <2>7, TextAssumption DEF ReadOutputAsHeaders, Exit, Numbering, OverHasCode, Undecided
  <2>3. CASE ReadGarbage
    BY <1>6, <2>1, <2>3 DEF ReadGarbage, Exit, Numbering, OverHasCode, Undecided
  <2>4. CASE ReadEOF
    BY <1>6, <2>1, <2>4 DEF ReadEOF, Exit, Numbering, OverHasCode, Undecided
  <2>5. CASE ReceiveUnit
    BY <1>6, <2>1, <2>5 DEF ReceiveUnit, Numbering, OverHasCode
  <2>6. CASE BodyEnds
    BY <1>6, <2>1, <2>6 DEF BodyEnds, Numbering, OverHasCode
  <2>. QED
    BY <1>7, <2>2, <2>3, <2>4, <2>5, <2>6, <2>7 DEF ClientStep
<1>8. ASSUME NEW t \in Threads, BeginWrite(t) \/ WriteFails(t) PROVE Numbering'
  BY <1>1, <1>8 DEF BeginWrite, WriteFails, clientVars
<1>9. CASE Close \/ AllOver \/ UNCHANGED vars
  BY <1>1, <1>9 DEF Close, AllOver, vars, serverVars, clientVars
<1>. QED
  BY <1>3, <1>4, <1>5, <1>7, <1>8, <1>9 DEF Next, ScriptStep

\* The lengths and positions that are numbers.
LEMMA Lengths ==
    ASSUME IInv
    PROVE  /\ Len(wire) \in Nat /\ Len(written) \in Nat /\ Len(printed) \in Nat
           /\ taken \in Nat /\ taken <= Len(wire) /\ body.size \in Nat
           /\ \A t \in Threads : chunk[t].size \in Nat
BY BoundsAssumption, LenProperties DEF IInv, TypeOK

\* What lies ahead of the client is on the wire.
LEMMA AheadIs ==
    ASSUME IInv, Readable
    PROVE  taken + 1 \in 1 .. Len(wire) /\ Ahead = wire[taken + 1] /\ Ahead \in WireUnits
<1>1. taken + 1 \in 1 .. Len(wire)
  BY Lengths DEF Readable
<1>. QED
  BY <1>1, ElementOfSeq DEF IInv, Ahead

\* A client that is in step never meets garbage where a header begins...
LEMMA NoGarbage == ASSUME DInv, Unmixed, ReadGarbage \/ ReadOutputAsHeaders PROVE FALSE
<1>1. taken < Len(wire) /\ client = "select" /\ wire[taken + 1].kind \in {"unit", "tail"}
  BY DEF ReadGarbage, ReadOutputAsHeaders, Readable, Ahead
<1>. QED
  BY <1>1 DEF Unmixed, Aligned, Start

\* ... nor the end before the status.
LEMMA NoEarlyEnd ==
    ASSUME DInv, Unmixed, ~Readable, closed, client # "over" PROVE FALSE
<1>1. taken + 2 <= Len(wire)
  BY DEF Unmixed, OneWriter, StatusAhead
<1>. QED
  BY <1>1, Lengths DEF Readable, DInv

\* The status is read when all is printed.
LEMMA StatusRead ==
    ASSUME DInv, Unmixed, ReadHeaders, Ahead.kind = "status"
    PROVE  /\ printed = written /\ status # Undecided /\ Ahead.code = status
           /\ taken + 2 = Len(wire)
<1>1. /\ taken + 1 \in 1 .. Len(wire) /\ wire[taken + 1].kind = "status"
      /\ wire[taken + 1].code = Ahead.code
  BY AheadIs DEF ReadHeaders, DInv
<1>2. taken + 1 = Len(wire) - 1 /\ taken + 1 < Len(wire) /\ wire[taken + 1 + 1].kind = "tail"
  BY <1>1 DEF Unmixed, Framed
<1>3. \A p \in taken + 1 .. Len(wire) : wire[p].kind # "unit"
  <2>1. \A p \in taken + 1 .. Len(wire) : p = taken + 1 \/ p = taken + 1 + 1
    BY <1>2, Lengths DEF DInv
  <2>. QED
    BY <1>1, <1>2, <2>1
<1>4. Len(written) <= Len(printed)
  <2>. SUFFICES ASSUME Len(written) > Len(printed) PROVE FALSE
    BY Lengths DEF DInv
  <2>1. Len(written) \in Len(printed) + 1 .. Len(written)
    BY Lengths DEF DInv
  <2>. QED
    BY <1>3, <2>1 DEF Unmixed, RestIsAhead
<1>5. Len(printed) = Len(written) /\ \A n \in 1 .. Len(printed) : printed[n] = written[n]
  BY <1>4, Lengths DEF DInv, Unmixed, PrintedIsPrefix
<1>6. printed = written
  BY <1>5, SeqEqual DEF DInv, IInv, TypeOK
<1>7. status # Undecided /\ Ahead.code = status
  BY <1>1 DEF DInv, IInv, StatusesAreTheStatus
<1>. QED
  BY <1>2, <1>6, <1>7, Lengths DEF DInv

\* A unit that is read as part of a body is the next one that was written.
LEMMA UnitRead ==
    ASSUME DInv, Unmixed, ReceiveUnit
    PROVE  /\ taken + 1 \in 1 .. Len(wire) /\ Len(printed) + 1 \in 1 .. Len(written)
           /\ taken + body.size <= Len(wire)
           /\ wire[taken + 1].kind = "unit" /\ wire[taken + 1].channel = body.channel
           /\ wire[taken + 1].number = Len(printed) + 1
           /\ printed' = Append(printed, written[Len(printed) + 1])
<1>1. /\ taken + 1 \in 1 .. Len(wire) /\ taken # Len(wire) /\ Ahead = wire[taken + 1]
  BY AheadIs, Lengths DEF ReceiveUnit, DInv, Readable
<1>2. /\ wire[taken + 1].kind = "unit" /\ wire[taken + 1].channel = body.channel
      /\ taken + body.size <= Len(wire)
  <2>1. Follows(taken, body.channel, body.size)
    BY DEF Unmixed, Aligned, ReceiveUnit
  <2>2. taken + 1 \in taken + 1 .. taken + body.size
    BY Lengths DEF ReceiveUnit, DInv
  <2>. QED
    BY <1>1, <2>1, <2>2 DEF Follows
<1>3. /\ wire[taken + 1].number \in 1 .. Len(written)
      /\ wire[taken + 1].channel = written[wire[taken + 1].number].channel
  BY <1>1, <1>2 DEF DInv, Numbering, UnitsAreWritten
<1>4. wire[taken + 1].number > Len(printed)
  <2>1. taken + 1 \in taken + 1 .. Len(wire)
    BY <1>1, Lengths DEF DInv
  <2>. QED
    BY <1>2, <2>1 DEF Unmixed, RestIsAhead
<1>5. Len(printed) + 1 \in Len(printed) + 1 .. Len(written)
  BY <1>3, <1>4, Lengths DEF DInv
<1>6. PICK p \in taken + 1 .. Len(wire) : wire[p].kind = "unit" /\ wire[p].number = Len(printed) + 1
  BY <1>5 DEF Unmixed, RestIsAhead
<1>7. wire[taken + 1].number = Len(printed) + 1
  <2>1. p \in 1 .. Len(wire) /\ (p = taken + 1 \/ taken + 1 < p)
    BY <1>6, Lengths DEF DInv
  <2>2. CASE taken + 1 < p
    <3>1. wire[taken + 1].number < wire[p].number
      BY <1>1, <1>2, <1>6, <2>1, <2>2 DEF DInv, Numbering, Ordered
    <3>. QED
      BY <1>3, <1>4, <1>6, <3>1, Lengths DEF DInv
  <2>. QED
    BY <1>6, <2>1, <2>2
<1>8. printed' = Append(printed, [channel |-> Ahead.channel, number |-> Ahead.number])
  BY <1>1, <1>2 DEF ReceiveUnit
<1>9. [channel |-> Ahead.channel, number |-> Ahead.number] = written[Len(printed) + 1]
  <2>1. written[Len(printed) + 1] \in OutputUnits /\ written[Len(printed) + 1].number = Len(printed) + 1
    <3>1. Len(printed) + 1 \in 1 .. Len(written)
      BY <1>5, Lengths DEF DInv
    <3>2. written[Len(printed) + 1] \in OutputUnits
      BY <3>1, ElementOfSeq DEF DInv, IInv, TypeOK
    <3>. QED
      BY <3>1, <3>2 DEF DInv, Numbering, Numbered
  <2>2. Ahead.number = written[Len(printed) + 1].number /\ Ahead.channel = written[Len(printed) + 1].channel
    BY <1>1, <1>3, <1>7, <2>1
  <2>. QED
    BY <2>1, <2>2 DEF OutputUnits
<1>. QED
  BY <1>1, <1>2, <1>5, <1>7, <1>8, <1>9, Lengths DEF DInv

\* A chunk is begun when no other is under way.
LEMMA BeginKeeps ==
    ASSUME DInv, Unmixed, NEW t \in Threads, BeginWrite(t), ~mixed'
    PROVE  Unmixed'
<1>1. /\ \A u \in Threads : writing[u] = "no"
      /\ status = Undecided
      /\ UNCHANGED <<written, wire, status, closed, client, taken, body, printed, exitCode>>
      /\ writing' = [writing EXCEPT ![t] = "header"]
  BY DEF BeginWrite, Busy, clientVars
<1>2. /\ \A u \in Threads : writing'[u] # "no" => u = t
      /\ \A u \in Threads : writing'[u] # "body"
  BY <1>1 DEF DInv, IInv, TypeOK
<1>3. \A p, ch, k : Follows(p, ch, k) => Follows(p, ch, k)'
  BY <1>1, <1>2 DEF Follows, Pending, Start
<1>4. Framed'
  BY <1>1, <1>3 DEF Unmixed, Framed
<1>5. OneWriter'
  BY <1>1, <1>2 DEF Unmixed, OneWriter
<1>6. LastHeader'
  BY <1>2 DEF LastHeader
<1>7. StatusAhead'
  BY <1>1 DEF Unmixed, StatusAhead
<1>8. Aligned'
  BY <1>1, <1>3 DEF Unmixed, Aligned, Start
<1>9. PrintedIsPrefix' /\ RestIsAhead'
  BY <1>1 DEF Unmixed, PrintedIsPrefix, RestIsAhead
<1>. QED
  BY <1>4, <1>5, <1>6, <1>7, <1>8, <1>9 DEF Unmixed

\* The header of a chunk is written behind whole bodies.
LEMMA HeaderUnmixed ==
    ASSUME DInv, Unmixed, NEW t \in Threads, WriteHeader(t)
    PROVE  Unmixed'
<1>0. PICK ch, k : ch = chunk[t].channel /\ k = chunk[t].size
  OBVIOUS
<1>. DEFINE head == HeadUnit(ch, k)
<1>1. /\ head \in WireUnits /\ head.kind = "head" /\ head.channel = ch /\ head.size = k
      /\ chunk[t] = [channel |-> ch, size |-> k]
  BY <1>0 DEF DInv, IInv, TypeOK, WireUnits, HeadUnit
<1>. HIDE DEF head
<1>2. /\ Len(wire) \in Nat /\ Len(wire') = Len(wire) + 2
      /\ \A q \in 1 .. Len(wire) : wire'[q] = wire[q]
      /\ wire'[Len(wire) + 1] = head /\ wire'[Len(wire) + 2].kind = "tail"
      /\ \A q \in 1 .. Len(wire') : q \in 1 .. Len(wire) \/ q = Len(wire) + 1 \/ q = Len(wire) + 2
  <2>1. wire' = wire \o <<head, TailUnit>>
    BY <1>0 DEF WriteHeader, head
  <2>. QED
    BY <1>1, <2>1, HeaderGrows DEF DInv, IInv
<1>3. /\ UNCHANGED <<chunk, written, status, closed, client, taken, body, printed, exitCode>>
      /\ writing' = [writing EXCEPT ![t] = "body"] /\ writing[t] = "header"
  BY DEF WriteHeader, clientVars
<1>4. \A u \in Threads : writing[u] # "no" => u = t
  BY <1>3 DEF Unmixed, OneWriter
<1>5. /\ writing'[t] = "body"
      /\ \A u \in Threads : writing'[u] # "no" => u = t
      /\ \A u \in Threads : writing[u] # "body"
  BY <1>3, <1>4 DEF DInv, IInv, TypeOK
<1>6. \A p \in Nat : p <= Len(wire) /\ Start(p) => Start(p)'
  <2>. SUFFICES ASSUME NEW p \in Nat, p <= Len(wire), Start(p) PROVE Start(p)'
    OBVIOUS
  <2>1. CASE p = Len(wire)
    BY <1>1, <1>2, <2>1 DEF Start
  <2>2. CASE p < Len(wire)
    <3>1. p + 1 \in 1 .. Len(wire)
      BY <1>2, <2>2
    <3>. QED
      BY <1>2, <2>2, <3>1 DEF Start
  <2>. QED
    BY <1>2, <2>1, <2>2
<1>7. ASSUME NEW p \in Nat, NEW c, NEW s \in Nat, Follows(p, c, s) PROVE Follows(p, c, s)'
  <2>1. ~Pending(c, s)
    BY <1>5 DEF Pending
  <2>2. /\ p + s <= Len(wire)
        /\ \A q \in p + 1 .. p + s : wire[q].kind = "unit" /\ wire[q].channel = c
        /\ Start(p + s)
    BY <1>7, <2>1 DEF Follows
  <2>3. ASSUME NEW q \in p + 1 .. p + s PROVE wire'[q] = wire[q]
    <3>1. q \in 1 .. Len(wire)
      BY <1>2, <2>2
    <3>. QED
      BY <1>2, <3>1
  <2>4. Start(p + s)'
    BY <1>6, <2>2
  <2>5. p + s <= Len(wire')
    BY <1>2, <2>2
  <2>. QED
    BY <2>2, <2>3, <2>4, <2>5 DEF Follows
<1>8. status = Undecided
  BY <1>3 DEF Unmixed, OneWriter
<1>9. Framed'
  <2>. SUFFICES ASSUME NEW p \in 1 .. Len(wire')
                PROVE  /\ wire'[p].kind \in {"head", "status"} => p < Len(wire') /\ wire'[p + 1].kind = "tail"
                       /\ wire'[p].kind = "head" => Follows(p + 1, wire[p].channel, wire[p].size)'
                       /\ wire'[p].kind = "status" => p = Len(wire') - 1
    BY DEF Framed
  <2>1. CASE p \in 1 .. Len(wire)
    <3>1. wire'[p] = wire[p] /\ wire[p].kind # "status"
      BY <1>2, <1>8, <2>1 DEF DInv, IInv, StatusesAreTheStatus
    <3>2. ASSUME wire[p].kind = "head"
          PROVE  p < Len(wire) /\ wire'[p + 1].kind = "tail" /\ wire[p].size \in Nat
                 /\ Follows(p + 1, wire[p].channel, wire[p].size)
      <4>1. p < Len(wire) /\ wire[p + 1].kind = "tail" /\ Follows(p + 1, wire[p].channel, wire[p].size)
        BY <2>1, <3>2 DEF Unmixed, Framed
      <4>2. p + 1 \in 1 .. Len(wire)
        BY <2>1, <4>1
      <4>3. wire[p] \in WireUnits
        BY <2>1, ElementOfSeq DEF DInv, IInv
      <4>. QED
        BY <1>2, <3>2, <4>1, <4>2, <4>3, BoundsAssumption DEF WireUnits
    <3>3. ASSUME wire[p].kind = "head"
          PROVE  Follows(p + 1, wire[p].channel, wire[p].size)'
      <4>1. PICK c, n : c = wire[p].channel /\ n = wire[p].size
        OBVIOUS
      <4>2. Follows(p + 1, c, n)'
        BY <1>7, <3>2, <3>3, <4>1
      <4>. QED
        BY <3>1, <4>1, <4>2 DEF Follows, Pending, Start
    <3>. QED
      BY <1>2, <2>1, <3>1, <3>2, <3>3
  <2>2. CASE p = Len(wire) + 1
    <3>1. Pending(ch, k)'
      BY <1>1, <1>3, <1>5 DEF Pending
    <3>2. wire'[p].channel = ch /\ wire'[p].size = k /\ p + 1 = Len(wire') /\ wire'[p].kind = "head"
      BY <1>1, <1>2, <2>2
    <3>3. Follows(p + 1, wire[p].channel, wire[p].size)'
      BY <3>1, <3>2 DEF Follows, Pending
    <3>. QED
      BY <1>2, <2>2, <3>2, <3>3
  <2>3. CASE p = Len(wire) + 2
    BY <1>2, <2>3
  <2>. QED
    BY <1>2, <2>1, <2>2, <2>3
<1>10. OneWriter'
  BY <1>3, <1>5, <1>8 DEF Unmixed, OneWriter
<1>11. LastHeader'
  <2>1. taken' # Len(wire') /\ Len(wire') - 1 = Len(wire) + 1
    BY <1>2, <1>3, Lengths DEF DInv
  <2>2. chunk'[t] = chunk[t]
    BY <1>3
  <2>. QED
    BY <1>0, <1>2, <1>5, <2>1, <2>2 DEF LastHeader, head
<1>12. StatusAhead'
  BY <1>3, <1>8 DEF StatusAhead
<1>13. Aligned'
  BY <1>3, <1>6, <1>7, Lengths DEF Unmixed, Aligned, DInv
<1>14. PrintedIsPrefix'
  BY <1>3 DEF Unmixed, PrintedIsPrefix
<1>15. RestIsAhead'
  <2>1. \A q \in taken + 1 .. Len(wire') : wire'[q].kind = "unit" =>
           q \in taken + 1 .. Len(wire) /\ wire'[q] = wire[q]
    BY <1>1, <1>2, Lengths DEF DInv
  <2>2. \A q \in taken + 1 .. Len(wire) : q \in taken + 1 .. Len(wire') /\ wire'[q] = wire[q]
    BY <1>2, Lengths DEF DInv
  <2>. QED
    BY <1>3, <2>1, <2>2 DEF Unmixed, RestIsAhead
<1>. QED
  BY <1>9, <1>10, <1>11, <1>12, <1>13, <1>14, <1>15 DEF Unmixed

\* The body follows the header that announced it.
LEMMA BodyUnmixed ==
    ASSUME DInv, Unmixed, NEW t \in Threads, WriteBody(t)
    PROVE  Unmixed'
<1>0. PICK ch, k : ch = chunk[t].channel /\ k = chunk[t].size
  OBVIOUS
<1>1. /\ k \in Nat /\ Len(wire) \in Nat /\ Len(written) \in Nat
      /\ Len(wire') = Len(wire) + k /\ Len(written') = Len(written) + k
      /\ \A q \in 1 .. Len(wire) : wire'[q] = wire[q]
      /\ \A q \in Len(wire) + 1 .. Len(wire) + k :
            /\ wire'[q].kind = "unit" /\ wire'[q].channel = ch
            /\ wire'[q].number = Len(written) + (q - Len(wire))
      /\ \A n \in 1 .. Len(written) : written'[n] = written[n]
      /\ chunk[t] = [channel |-> ch, size |-> k]
  BY <1>0, BodyGrows DEF DInv, IInv, TypeOK
<1>2. /\ UNCHANGED <<chunk, status, closed, client, taken, body, printed, exitCode>>
      /\ writing' = [writing EXCEPT ![t] = "no"] /\ writing[t] = "body"
  BY DEF WriteBody, clientVars
<1>3. /\ \A u \in Threads : writing[u] # "no" => u = t
      /\ \A u \in Threads : writing'[u] = "no"
      /\ status = Undecided
  BY <1>2 DEF Unmixed, OneWriter, DInv, IInv, TypeOK
<1>4. /\ Len(wire) >= 2 /\ wire[Len(wire)].kind = "tail"
      /\ wire[Len(wire) - 1] = HeadUnit(ch, k)
      /\ wire[Len(wire) - 1].kind = "head"
      /\ wire[Len(wire) - 1].channel = ch /\ wire[Len(wire) - 1].size = k
      /\ taken = Len(wire) => \/ client = "body" /\ body = chunk[t]
                              \/ client = "select" /\ chunk[t].size = 0
                              \/ client = "over"
  BY <1>0, <1>2 DEF Unmixed, LastHeader, HeadUnit
\* A header or the start of one stays where it is.
<1>5. \A p \in Nat : p < Len(wire) /\ Start(p) => Start(p)'
  <2>. SUFFICES ASSUME NEW p \in Nat, p < Len(wire), Start(p) PROVE Start(p)'
    OBVIOUS
  <2>1. p + 1 \in 1 .. Len(wire)
    BY <1>1
  <2>. QED
    BY <1>1, <2>1 DEF Start
<1>6. \A p : p = Len(wire) + k => Start(p)'
  BY <1>1 DEF Start
\* A whole body ends before the last tail...
<1>7. ASSUME NEW p \in Nat, NEW c, NEW s \in Nat, p < Len(wire), Follows(p, c, s)
      PROVE  Follows(p, c, s)'
  <2>1. /\ p + s <= Len(wire)
        /\ \A q \in p + 1 .. p + s : wire[q].kind = "unit" /\ wire[q].channel = c
        /\ Start(p + s)
    BY <1>7 DEF Follows
  <2>2. p + s < Len(wire)
    <3>. SUFFICES ASSUME p + s = Len(wire) PROVE FALSE
      BY <1>1, <2>1
    <3>1. Len(wire) \in p + 1 .. p + s
      BY <1>1, <1>7
    <3>. QED
      BY <1>4, <2>1, <3>1
  <2>3. ASSUME NEW q \in p + 1 .. p + s PROVE wire'[q] = wire[q]
    <3>1. q \in 1 .. Len(wire)
      BY <1>1, <2>1
    <3>. QED
      BY <1>1, <3>1
  <2>4. Start(p + s)'
    BY <1>5, <2>1, <2>2
  <2>. QED
    BY <1>1, <2>1, <2>2, <2>3, <2>4 DEF Follows
\* ... and behind it is now the one that was pending.
<1>8. ASSUME NEW p \in Nat, p = Len(wire) PROVE Follows(p, ch, k)'
  BY <1>1, <1>6, <1>8 DEF Follows
<1>9. Framed'
  <2>. SUFFICES ASSUME NEW p \in 1 .. Len(wire')
                PROVE  /\ wire'[p].kind \in {"head", "status"} => p < Len(wire') /\ wire'[p + 1].kind = "tail"
                       /\ wire'[p].kind = "head" => Follows(p + 1, wire[p].channel, wire[p].size)'
                       /\ wire'[p].kind = "status" => p = Len(wire') - 1
    BY DEF Framed
  <2>1. CASE p \in 1 .. Len(wire)
    <3>1. wire'[p] = wire[p] /\ wire[p].kind # "status"
      BY <1>1, <1>3, <2>1 DEF DInv, IInv, StatusesAreTheStatus
    <3>2. ASSUME wire[p].kind = "head"
          PROVE  /\ p < Len(wire) /\ wire'[p + 1].kind = "tail" /\ wire[p].size \in Nat
                 /\ Follows(p + 1, wire[p].channel, wire[p].size)
      <4>1. p < Len(wire) /\ wire[p + 1].kind = "tail" /\ Follows(p + 1, wire[p].channel, wire[p].size)
        BY <2>1, <3>2 DEF Unmixed, Framed
      <4>2. p + 1 \in 1 .. Len(wire)
        BY <2>1, <4>1
      <4>3. wire[p] \in WireUnits
        BY <2>1, ElementOfSeq DEF DInv, IInv
      <4>. QED
        BY <1>1, <3>2, <4>1, <4>2, <4>3, BoundsAssumption DEF WireUnits
    <3>3. ASSUME wire[p].kind = "head"
          PROVE  Follows(p + 1, wire[p].channel, wire[p].size)'
      <4>1. PICK c, n : c = wire[p].channel /\ n = wire[p].size
        OBVIOUS
      <4>2. CASE p + 1 < Len(wire)
        <5>1. Follows(p + 1, c, n)'
          BY <1>7, <3>2, <3>3, <4>1, <4>2
        <5>. QED
          BY <3>1, <4>1, <5>1 DEF Follows, Pending, Start
      <4>3. CASE p + 1 = Len(wire)
        <5>1. c = ch /\ n = k
          BY <1>1, <1>4, <4>1, <4>3
        <5>2. Follows(p + 1, c, n)'
          BY <1>8, <4>3, <5>1
        <5>. QED
          BY <3>1, <4>1, <5>2 DEF Follows, Pending, Start
      <4>. QED
        BY <1>1, <3>2, <3>3, <4>2, <4>3
    <3>. QED
      BY <1>1, <2>1, <3>1, <3>2, <3>3
  <2>2. CASE p \in Len(wire) + 1 .. Len(wire) + k
    BY <1>1, <2>2
  <2>. QED
    BY <1>1, <2>1, <2>2
<1>10. OneWriter'
  BY <1>2, <1>3 DEF Unmixed, OneWriter
<1>11. LastHeader'
  BY <1>3 DEF LastHeader
<1>12. StatusAhead'
  BY <1>2, <1>3 DEF StatusAhead
<1>13. Aligned'
  <2>1. CASE client = "select"
    <3>1. Start(taken)'
      <4>1. CASE taken < Len(wire)
        BY <1>2, <1>5, <2>1, <4>1, Lengths DEF Unmixed, Aligned, DInv, Start
      <4>2. CASE taken = Len(wire)
        <5>1. k = 0
          BY <1>0, <1>4, <2>1, <4>2
        <5>. QED
          BY <1>1, <1>2, <4>2, <5>1 DEF Start
      <4>. QED
        BY <4>1, <4>2, Lengths DEF DInv
    <3>. QED
      BY <1>2, <2>1, <3>1 DEF Aligned
  <2>2. CASE client = "body"
    <3>0. PICK c, s, p : c = body.channel /\ s = body.size /\ p = taken
      OBVIOUS
    <3>1. Follows(p, c, s)'
      <4>1. Follows(p, c, s) /\ p \in Nat /\ s \in Nat /\ p <= Len(wire)
        BY <2>2, <3>0, Lengths DEF Unmixed, Aligned, DInv, Follows, Pending, Start
      <4>2. CASE p < Len(wire)
        BY <1>7, <4>1, <4>2
      <4>3. CASE p = Len(wire)
        <5>1. c = ch /\ s = k
          BY <1>0, <1>4, <2>2, <3>0, <4>3
        <5>. QED
          BY <1>8, <4>1, <4>3, <5>1
      <4>. QED
        BY <1>1, <4>1, <4>2, <4>3
    <3>2. body'.channel = c /\ body'.size = s /\ taken' = p
      BY <1>2, <3>0
    <3>. QED
      BY <1>2, <2>2, <3>1, <3>2 DEF Aligned, Follows, Pending, Start
  <2>3. CASE client \notin {"select", "body"}
    BY <1>2, <2>3 DEF Aligned
  <2>. QED
    BY <2>1, <2>2, <2>3
<1>14. PrintedIsPrefix'
  <2>1. Len(printed) <= Len(written') /\ \A n \in 1 .. Len(printed) : n \in 1 .. Len(written)
    BY <1>1, Lengths DEF Unmixed, PrintedIsPrefix, DInv
  <2>. QED
    BY <1>1, <1>2, <2>1 DEF Unmixed, PrintedIsPrefix
<1>15. RestIsAhead'
  <2>1. ASSUME NEW q \in taken + 1 .. Len(wire'), wire'[q].kind = "unit"
        PROVE  wire'[q].number > Len(printed)
    <3>1. CASE q <= Len(wire)
      <4>1. q \in taken + 1 .. Len(wire) /\ q \in 1 .. Len(wire)
        BY <2>1, <3>1, Lengths DEF DInv
      <4>. QED
        BY <1>1, <2>1, <4>1 DEF Unmixed, RestIsAhead
    <3>2. CASE q > Len(wire)
      <4>1. q \in Len(wire) + 1 .. Len(wire) + k
        BY <1>1, <2>1, <3>2, Lengths DEF DInv
      <4>2. wire'[q].number = Len(written) + (q - Len(wire))
        BY <1>1, <4>1
      <4>. QED
        BY <1>1, <4>1, <4>2, Lengths DEF Unmixed, PrintedIsPrefix, DInv
    <3>. QED
      BY <1>1, <3>1, <3>2, Lengths DEF DInv
  <2>2. ASSUME NEW n \in Len(printed) + 1 .. Len(written')
        PROVE  \E q \in taken + 1 .. Len(wire') : wire'[q].kind = "unit" /\ wire'[q].number = n
    <3>1. CASE n <= Len(written)
      <4>1. n \in Len(printed) + 1 .. Len(written)
        BY <1>1, <3>1, Lengths DEF DInv
      <4>2. PICK q \in taken + 1 .. Len(wire) : wire[q].kind = "unit" /\ wire[q].number = n
        BY <4>1 DEF Unmixed, RestIsAhead
      <4>3. q \in taken + 1 .. Len(wire') /\ q \in 1 .. Len(wire)
        BY <1>1, Lengths DEF DInv
      <4>. QED
        BY <1>1, <4>2, <4>3
    <3>2. CASE n > Len(written)
      <4>. DEFINE q == Len(wire) + (n - Len(written))
      <4>1. q \in Len(wire) + 1 .. Len(wire) + k /\ q \in taken + 1 .. Len(wire') 
            /\ q - Len(wire) = n - Len(written)
        BY <1>1, <3>2, Lengths DEF DInv
      <4>2. wire'[q].kind = "unit" /\ wire'[q].number = Len(written) + (n - Len(written))
        BY <1>1, <4>1
      <4>3. Len(written) + (n - Len(written)) = n
        BY <1>1, Lengths DEF DInv
      <4>. QED
        BY <4>1, <4>2, <4>3
    <3>. QED
      BY <1>1, <3>1, <3>2, Lengths DEF DInv
  <2>. QED
    BY <1>2, <2>1, <2>2 DEF RestIsAhead
<1>. QED
  BY <1>9, <1>10, <1>11, <1>12, <1>13, <1>14, <1>15 DEF Unmixed

\* The status is sent behind whole bodies.
LEMMA ExitUnmixed ==
    ASSUME DInv, Unmixed, SendExit, ~mixed'
    PROVE  Unmixed'
<1>1. PICK code \in Codes : status' = code /\ wire' = wire \o <<StatusHead(code), TailUnit>>
  BY DEF SendExit
<1>2. StatusHead(code) \in WireUnits /\ StatusHead(code).kind = "status"
  BY DEF StatusHead, WireUnits
<1>3. /\ Len(wire) \in Nat /\ Len(wire') = Len(wire) + 2
      /\ \A q \in 1 .. Len(wire) : wire'[q] = wire[q]
      /\ wire'[Len(wire) + 1].kind = "status" /\ wire'[Len(wire) + 2].kind = "tail"
      /\ \A q \in 1 .. Len(wire') : q \in 1 .. Len(wire) \/ q = Len(wire) + 1 \/ q = Len(wire) + 2
  BY <1>1, <1>2, HeaderGrows DEF DInv, IInv
<1>4. /\ UNCHANGED <<chunk, writing, written, closed, client, taken, body, printed, exitCode>>
      /\ \A u \in Threads : writing[u] = "no"
      /\ status = Undecided
  BY DEF SendExit, Busy, clientVars
<1>5. \A p \in Nat : p <= Len(wire) /\ Start(p) => Start(p)'
  <2>. SUFFICES ASSUME NEW p \in Nat, p <= Len(wire), Start(p) PROVE Start(p)'
    OBVIOUS
  <2>1. CASE p = Len(wire)
    BY <1>3, <2>1 DEF Start
  <2>2. CASE p < Len(wire)
    <3>1. p + 1 \in 1 .. Len(wire)
      BY <1>3, <2>2
    <3>. QED
      BY <1>3, <2>2, <3>1 DEF Start
  <2>. QED
    BY <1>3, <2>1, <2>2
<1>6. ASSUME NEW p \in Nat, NEW c, NEW s \in Nat, Follows(p, c, s) PROVE Follows(p, c, s)'
  <2>1. ~Pending(c, s)
    BY <1>4 DEF Pending
  <2>2. /\ p + s <= Len(wire)
        /\ \A q \in p + 1 .. p + s : wire[q].kind = "unit" /\ wire[q].channel = c
        /\ Start(p + s)
    BY <1>6, <2>1 DEF Follows
  <2>3. ASSUME NEW q \in p + 1 .. p + s PROVE wire'[q] = wire[q]
    <3>1. q \in 1 .. Len(wire)
      BY <1>3, <2>2
    <3>. QED
      BY <1>3, <3>1
  <2>4. Start(p + s)'
    BY <1>5, <2>2
  <2>. QED
    BY <1>3, <2>2, <2>3, <2>4 DEF Follows
<1>7. Framed'
  <2>. SUFFICES ASSUME NEW p \in 1 .. Len(wire')
                PROVE  /\ wire'[p].kind \in {"head", "status"} => p < Len(wire') /\ wire'[p + 1].kind = "tail"
                       /\ wire'[p].kind = "head" => Follows(p + 1, wire[p].channel, wire[p].size)'
                       /\ wire'[p].kind = "status" => p = Len(wire') - 1
    BY DEF Framed
  <2>1. CASE p \in 1 .. Len(wire)
    <3>1. wire'[p] = wire[p] /\ wire[p].kind # "status"
      BY <1>3, <1>4, <2>1 DEF DInv, IInv, StatusesAreTheStatus
    <3>2. ASSUME wire[p].kind = "head"
          PROVE  /\ p < Len(wire) /\ wire'[p + 1].kind = "tail" /\ wire[p].size \in Nat
                 /\ Follows(p + 1, wire[p].channel, wire[p].size)
      <4>1. p < Len(wire) /\ wire[p + 1].kind = "tail" /\ Follows(p + 1, wire[p].channel, wire[p].size)
        BY <2>1, <3>2 DEF Unmixed, Framed
      <4>2. p + 1 \in 1 .. Len(wire)
        BY <2>1, <4>1
      <4>3. wire[p] \in WireUnits
        BY <2>1, ElementOfSeq DEF DInv, IInv
      <4>. QED
        BY <1>3, <3>2, <4>1, <4>2, <4>3, BoundsAssumption DEF WireUnits
    <3>3. ASSUME wire[p].kind = "head"
          PROVE  Follows(p + 1, wire[p].channel, wire[p].size)'
      <4>1. PICK c, n : c = wire[p].channel /\ n = wire[p].size
        OBVIOUS
      <4>2. Follows(p + 1, c, n)'
        BY <1>6, <3>2, <3>3, <4>1
      <4>. QED
        BY <3>1, <4>1, <4>2 DEF Follows, Pending, Start
    <3>. QED
      BY <1>3, <2>1, <3>1, <3>2, <3>3
  <2>2. CASE p \in {Len(wire) + 1, Len(wire) + 2}
    BY <1>3, <2>2
  <2>. QED
    BY <1>3, <2>1, <2>2
<1>8. OneWriter'
  BY <1>1, <1>4, ExitCodes DEF Unmixed, OneWriter
<1>9. LastHeader'
  BY <1>4 DEF LastHeader
<1>10. StatusAhead'
  BY <1>3, <1>4, Lengths DEF StatusAhead, DInv
<1>11. Aligned'
  BY <1>4, <1>5, <1>6, Lengths DEF Unmixed, Aligned, DInv
<1>12. PrintedIsPrefix'
  BY <1>4 DEF Unmixed, PrintedIsPrefix
<1>13. RestIsAhead'
  <2>1. \A q \in taken + 1 .. Len(wire') : wire'[q].kind = "unit" =>
           q \in taken + 1 .. Len(wire) /\ wire'[q] = wire[q]
    BY <1>3, Lengths DEF DInv
  <2>2. \A q \in taken + 1 .. Len(wire) : q \in taken + 1 .. Len(wire') /\ wire'[q] = wire[q]
    BY <1>3, Lengths DEF DInv
  <2>. QED
    BY <1>4, <2>1, <2>2 DEF Unmixed, RestIsAhead
<1>. QED
  BY <1>7, <1>8, <1>9, <1>10, <1>11, <1>12, <1>13 DEF Unmixed

\* The client takes headers where they begin and bodies where they are.
LEMMA ClientUnmixed ==
    ASSUME DInv, Unmixed, ClientStep
    PROVE  Unmixed'
<1>1. UNCHANGED <<writing, chunk, written, wire, status, closed>>
  BY DEF ClientStep, ReadHeaders, ReadGarbage, ReadOutputAsHeaders,
         ReadEOF, ReceiveUnit, BodyEnds, serverVars
<1>2. Framed' /\ OneWriter'
  BY <1>1 DEF Unmixed, Framed, OneWriter, Follows, Pending, Start
<1>3. CASE ReadHeaders /\ Ahead.kind = "head"
  <2>1. /\ taken + 1 \in 1 .. Len(wire) /\ wire[taken + 1].kind = "head"
        /\ taken' = taken + 2 /\ client' = "body" /\ printed' = printed
        /\ body' = [channel |-> wire[taken + 1].channel, size |-> wire[taken + 1].size]
    BY <1>3, AheadIs DEF ReadHeaders, DInv, Ahead
  <2>2. /\ taken + 1 < Len(wire) /\ wire[taken + 2].kind = "tail"
        /\ Follows(taken + 2, wire[taken + 1].channel, wire[taken + 1].size)
    <3>1. taken + 1 + 1 = taken + 2
      BY Lengths DEF DInv
    <3>. QED
      BY <2>1, <3>1 DEF Unmixed, Framed
  <2>3. Aligned'
    BY <1>1, <2>1, <2>2 DEF Aligned, Follows, Pending, Start
  <2>4. LastHeader'
    <3>. SUFFICES ASSUME NEW t \in Threads, writing[t] = "body", taken + 2 = Len(wire)
                  PROVE  body' = chunk[t]
      BY <1>1, <2>1 DEF Unmixed, LastHeader
    <3>1. taken + 1 = Len(wire) - 1
      BY Lengths DEF DInv
    <3>2. wire[taken + 1] = HeadUnit(chunk[t].channel, chunk[t].size)
      BY <3>1 DEF Unmixed, LastHeader
    <3>3. chunk[t] \in [channel : Channels, size : 0 .. MaxSize]
      BY DEF DInv, IInv, TypeOK
    <3>. QED
      BY <2>1, <3>2, <3>3 DEF HeadUnit
  <2>5. StatusAhead'
    <3>. SUFFICES ASSUME status # Undecided PROVE taken + 4 <= Len(wire)
      BY <1>1, <2>1, <1>3, Lengths DEF Unmixed, StatusAhead, ReadHeaders, DInv
    <3>1. wire[Len(wire) - 1].kind = "status" /\ taken + 2 <= Len(wire)
      BY <1>3 DEF Unmixed, StatusAhead, ReadHeaders
    <3>2. taken + 1 # Len(wire) - 1 /\ taken + 2 # Len(wire) - 1
      BY <2>1, <2>2, <3>1
    <3>. QED
      BY <3>1, <3>2, Lengths DEF DInv
  <2>6. PrintedIsPrefix'
    BY <1>1, <2>1 DEF Unmixed, PrintedIsPrefix
  <2>7. RestIsAhead'
    <3>1. \A q \in taken + 1 .. Len(wire) : q \in taken + 3 .. Len(wire) \/ wire[q].kind # "unit"
      <4>1. \A q \in taken + 1 .. Len(wire) : q \in taken + 3 .. Len(wire) \/ q = taken + 1 \/ q = taken + 2
        BY Lengths DEF DInv
      <4>. QED
        BY <2>1, <2>2, <4>1
    <3>2. taken' + 1 = taken + 3 /\ \A q \in taken + 3 .. Len(wire) : q \in taken + 1 .. Len(wire)
      BY <2>1, Lengths DEF DInv
    <3>. QED
      BY <1>1, <2>1, <3>1, <3>2 DEF Unmixed, RestIsAhead
  <2>. QED
    BY <1>2, <2>3, <2>4, <2>5, <2>6, <2>7 DEF Unmixed
<1>4. CASE ReadHeaders /\ Ahead.kind = "status"
  <2>1. printed = written /\ taken' = Len(wire) /\ client' = "over" /\ printed' = printed
        /\ status # Undecided
    BY <1>4, StatusRead DEF ReadHeaders, Exit
  <2>2. Aligned' /\ StatusAhead'
    BY <2>1 DEF Aligned, StatusAhead
  <2>3. LastHeader'
    BY <1>1, <2>1 DEF Unmixed, OneWriter, LastHeader
  <2>4. PrintedIsPrefix'
    BY <1>1, <2>1, Lengths DEF PrintedIsPrefix, DInv
  <2>5. RestIsAhead'
    BY <1>1, <2>1, Lengths DEF RestIsAhead, DInv
  <2>. QED
    BY <1>2, <2>2, <2>3, <2>4, <2>5 DEF Unmixed
<1>5. CASE ReadGarbage \/ ReadOutputAsHeaders \/ ReadEOF
  BY <1>5, NoGarbage, NoEarlyEnd DEF ReadEOF
<1>6. CASE ReceiveUnit
  <2>1. /\ taken + 1 \in 1 .. Len(wire) /\ Len(printed) + 1 \in 1 .. Len(written)
        /\ taken + body.size <= Len(wire)
        /\ wire[taken + 1].kind = "unit" /\ wire[taken + 1].channel = body.channel
        /\ wire[taken + 1].number = Len(printed) + 1
        /\ printed' = Append(printed, written[Len(printed) + 1])
    BY <1>6, UnitRead
  <2>2. /\ client = "body" /\ client' = "body" /\ body.size > 0 /\ taken' = taken + 1
        /\ taken # Len(wire)
        /\ body'.channel = body.channel /\ body'.size = body.size - 1
    BY <1>6, Lengths DEF ReceiveUnit, Readable, DInv, IInv, TypeOK
  <2>3. Aligned'
    <3>1. /\ taken + body.size <= Len(wire)
          /\ \A q \in taken + 1 .. taken + body.size : wire[q].kind = "unit" /\ wire[q].channel = body.channel
          /\ Start(taken + body.size)
      BY <2>2 DEF Unmixed, Aligned, Follows
    <3>2. /\ taken' + body'.size = taken + body.size
          /\ \A q \in taken' + 1 .. taken' + body'.size : q \in taken + 1 .. taken + body.size
      BY <2>2, Lengths DEF DInv
    <3>. QED
      BY <1>1, <2>2, <3>1, <3>2 DEF Aligned, Follows, Start
  <2>4. LastHeader'
    <3>. SUFFICES ASSUME NEW t \in Threads, writing[t] = "body", taken + 1 = Len(wire) PROVE FALSE
      BY <1>1, <2>2 DEF Unmixed, LastHeader
    <3>. QED
      BY <2>1 DEF Unmixed, LastHeader
  <2>5. StatusAhead'
    <3>. SUFFICES ASSUME status # Undecided PROVE taken + 3 <= Len(wire)
      BY <1>1, <2>2, Lengths DEF Unmixed, StatusAhead, DInv
    <3>1. wire[Len(wire) - 1].kind = "status" /\ taken + 2 <= Len(wire)
      BY <2>2 DEF Unmixed, StatusAhead
    <3>2. taken + 1 # Len(wire) - 1
      BY <2>1, <3>1
    <3>. QED
      BY <3>1, <3>2, Lengths DEF DInv
  <2>6. /\ Len(printed') = Len(printed) + 1
        /\ \A n \in 1 .. Len(printed) : printed'[n] = printed[n]
        /\ printed'[Len(printed) + 1] = written[Len(printed) + 1]
    <3>1. printed \in Seq(OutputUnits) /\ written[Len(printed) + 1] \in OutputUnits
      BY <2>1, ElementOfSeq DEF DInv, IInv, TypeOK
    <3>. QED
      BY <2>1, <3>1, AppendProperties
  <2>7. PrintedIsPrefix'
    <3>1. \A n \in 1 .. Len(printed') : n \in 1 .. Len(printed) \/ n = Len(printed) + 1
      BY <2>6, Lengths DEF DInv
    <3>. QED
      BY <1>1, <2>1, <2>6, <3>1, Lengths DEF Unmixed, PrintedIsPrefix, DInv
  <2>8. RestIsAhead'
    <3>1. ASSUME NEW q \in taken + 2 .. Len(wire), wire[q].kind = "unit"
          PROVE  wire[q].number > Len(printed) + 1
      <4>1. q \in 1 .. Len(wire) /\ taken + 1 < q
        BY <3>1, Lengths DEF DInv
      <4>2. wire[taken + 1].number < wire[q].number
        BY <2>1, <3>1, <4>1 DEF DInv, Numbering, Ordered
      <4>3. wire[q].number \in 1 .. Len(written)
        BY <3>1, <4>1 DEF DInv, Numbering, UnitsAreWritten
      <4>. QED
        BY <2>1, <4>2, <4>3, Lengths DEF DInv
    <3>2. ASSUME NEW n \in Len(printed) + 2 .. Len(written)
          PROVE  \E q \in taken + 2 .. Len(wire) : wire[q].kind = "unit" /\ wire[q].number = n
      <4>1. n \in Len(printed) + 1 .. Len(written) /\ n # Len(printed) + 1
        BY <3>2, Lengths DEF DInv
      <4>2. PICK q \in taken + 1 .. Len(wire) : wire[q].kind = "unit" /\ wire[q].number = n
        BY <4>1 DEF Unmixed, RestIsAhead
      <4>3. q # taken + 1
        BY <2>1, <4>1, <4>2
      <4>4. q \in taken + 2 .. Len(wire)
        BY <4>2, <4>3, Lengths DEF DInv
      <4>. QED
        BY <4>2, <4>4
    <3>3. taken' + 1 = taken + 2 /\ Len(printed') + 1 = Len(printed) + 2
      BY <2>2, <2>6, Lengths DEF DInv
    <3>. QED
      BY <1>1, <2>6, <3>1, <3>2, <3>3 DEF RestIsAhead
  <2>. QED
    BY <1>2, <2>3, <2>4, <2>5, <2>7, <2>8 DEF Unmixed
<1>7. CASE BodyEnds
  <2>1. /\ client = "body" /\ client' = "select" /\ body.size = 0
        /\ UNCHANGED <<taken, body, printed>>
    BY <1>7, NoEarlyEnd DEF BodyEnds
  <2>2. Start(taken)
    <3>1. taken + body.size = taken
      BY <2>1, Lengths DEF DInv
    <3>. QED
      BY <2>1, <3>1 DEF Unmixed, Aligned, Follows, Start
  <2>3. Aligned'
    BY <1>1, <2>1, <2>2 DEF Aligned, Start
  <2>4. LastHeader'
    BY <1>1, <2>1 DEF Unmixed, LastHeader
  <2>5. StatusAhead' /\ PrintedIsPrefix' /\ RestIsAhead'
    BY <1>1, <2>1 DEF Unmixed, StatusAhead, PrintedIsPrefix, RestIsAhead
  <2>. QED
    BY <1>2, <2>3, <2>4, <2>5 DEF Unmixed
<1>. QED
  BY <1>3, <1>4, <1>5, <1>6, <1>7 DEF ClientStep, ReadHeaders

\* What was ever mixed stays so; what is not goes on in step.
THEOREM DeliveryInductive == DInv /\ [Next]_vars => DInv'
<1> SUFFICES ASSUME DInv, [Next]_vars PROVE DInv'
  OBVIOUS
<1>1. IInv' /\ Numbering'
  BY Inductive, NumberingKept DEF DInv
<1>. SUFFICES ASSUME ~mixed' PROVE Unmixed'
  BY <1>1 DEF DInv
<1>2. ~mixed
  BY DEF Next, ScriptStep, BeginWrite, WriteHeader, WriteBody, WriteFails, SendExit, Close,
         ClientStep, ReadHeaders, ReadGarbage, ReadOutputAsHeaders,
         ReadEOF, ReceiveUnit, BodyEnds, AllOver,
         vars, serverVars
<1>3. Unmixed
  BY <1>2 DEF DInv
<1>4. ASSUME NEW t \in Threads, WriteFails(t) PROVE FALSE
  BY <1>3, <1>4 DEF WriteFails, Unmixed, OneWriter
<1>5. CASE Close
  BY <1>3, <1>5 DEF Close, clientVars, Unmixed, Framed, OneWriter, LastHeader, StatusAhead, Aligned,
                    PrintedIsPrefix, RestIsAhead, Follows, Pending, Start
<1>6. CASE UNCHANGED vars
  BY <1>3, <1>6 DEF vars, serverVars, clientVars, Unmixed, Framed, OneWriter, LastHeader, StatusAhead,
                    Aligned, PrintedIsPrefix, RestIsAhead, Follows, Pending, Start
<1>. QED
  BY <1>3, <1>4, <1>5, <1>6, BeginKeeps, HeaderUnmixed, BodyUnmixed, ExitUnmixed, ClientUnmixed
     DEF Next, ScriptStep, AllOver

\* Nothing is written, printed or mixed at first.
THEOREM DeliveryInitial == Init => DInv /\ D!Init
<1> SUFFICES ASSUME Init PROVE DInv /\ D!Init
  OBVIOUS
<1>1. \A S : <<>> \in Seq(S) /\ Len(<<>>) = 0
  BY EmptySeq
<1>2. Len(wire) = 0 /\ Len(written) = 0 /\ Len(printed) = 0
  BY <1>1 DEF Init
<1>3. Numbering
  BY <1>2 DEF Numbering, Numbered, UnitsAreWritten, Ordered, OverHasCode, Init
<1>4. Framed /\ OneWriter /\ LastHeader /\ StatusAhead
  BY <1>2 DEF Init, Framed, OneWriter, LastHeader, StatusAhead
<1>5. Aligned /\ PrintedIsPrefix /\ RestIsAhead
  BY <1>2 DEF Init, Aligned, Start, PrintedIsPrefix, RestIsAhead
<1>6. D!Init
  BY DEF Init, D!Init, Undecided, D!Undecided
<1>. QED
  BY Initial, <1>3, <1>4, <1>5, <1>6 DEF DInv, Unmixed

\* Every step that mixes nothing is one of Delivery's, or none.
LEMMA StepDelivers ==
    ASSUME DInv, [Next]_vars
    PROVE  [~mixed' => D!Next]_(D!vars)
<1>. SUFFICES ASSUME ~mixed', D!vars' # D!vars PROVE D!Next
  OBVIOUS
<1>1. ~mixed
  BY DEF Next, ScriptStep, BeginWrite, WriteHeader, WriteBody, WriteFails, SendExit, Close,
         ClientStep, ReadHeaders, ReadGarbage, ReadOutputAsHeaders,
         ReadEOF, ReceiveUnit, BodyEnds, AllOver,
         vars, serverVars
<1>2. Unmixed
  BY <1>1 DEF DInv
<1>3. ~(UNCHANGED <<written, printed, status, exitCode>>)
  BY DEF D!vars
<1>4. client # "over" => exitCode = Undecided
  BY DEF DInv, Numbering, OverHasCode
<1>5. ASSUME NEW t \in Threads, WriteBody(t) PROVE D!Write
  <2>1. /\ Len(written) \in Nat /\ Len(written') = Len(written) + chunk[t].size
        /\ chunk[t].size \in Nat
        /\ \A n \in 1 .. Len(written) : written'[n] = written[n]
        /\ written' \in Seq(OutputUnits)
    BY <1>5, BodyGrows DEF DInv
  <2>2. UNCHANGED <<printed, status, exitCode>> /\ writing[t] = "body"
    BY <1>5 DEF WriteBody, clientVars
  <2>3. status = Undecided
    BY <1>2, <2>2 DEF Unmixed, OneWriter
  <2>4. SubSeq(written', 1, Len(written)) = written
    <3>1. /\ SubSeq(written', 1, Len(written)) \in Seq(OutputUnits)
          /\ Len(SubSeq(written', 1, Len(written))) = Len(written)
          /\ \A n \in 1 .. Len(written) : SubSeq(written', 1, Len(written))[n] = written'[n]
      BY <2>1, SubSeqProperties
    <3>. QED
      BY <2>1, <3>1, SeqEqual DEF DInv, IInv, TypeOK
  <2>5. chunk[t].size # 0
    <3>. SUFFICES ASSUME chunk[t].size = 0 PROVE FALSE
      OBVIOUS
    <3>1. Len(written') = Len(written) /\ \A n \in 1 .. Len(written') : written'[n] = written[n]
      BY <2>1
    <3>2. written' = written
      BY <2>1, <3>1, SeqEqual DEF DInv, IInv, TypeOK
    <3>. QED
      BY <1>3, <2>2, <3>2
  <2>. QED
    BY <2>1, <2>2, <2>3, <2>4, <2>5 DEF D!Write, D!Undecided, Undecided
<1>6. CASE SendExit
  <2>1. PICK code \in Codes : status' = code
    BY <1>6 DEF SendExit
  <2>2. ExitCodeOf(code) \in 0 .. 255 /\ code # Undecided
    BY ExitCodes
  <2>. QED
    BY <1>6, <2>1, <2>2 DEF SendExit, clientVars, D!Next, D!Decide, D!Undecided, Undecided
<1>7. CASE ReadHeaders
  <2>1. Ahead.kind = "status"
    BY <1>3, <1>7 DEF ReadHeaders, serverVars
  <2>2. printed = written /\ status # Undecided /\ Ahead.code = status
    BY <1>2, <1>7, <2>1, StatusRead
  <2>3. exitCode = Undecided /\ exitCode' = ExitCodeOf(status) /\ UNCHANGED <<written, printed, status>>
    BY <1>4, <1>7, <2>1, <2>2 DEF ReadHeaders, Exit, serverVars
  <2>4. ExitCodeOf(status) # Undecided
    <3>1. status \in Codes
      BY <2>2 DEF DInv, IInv, TypeOK
    <3>2. ExitCodeOf(status) \in 0 .. 255
      BY <3>1, ExitCodes
    <3>. QED
      BY <3>2 DEF Undecided
  <2>. QED
    BY <2>2, <2>3, <2>4 DEF D!Next, D!ClientExits, D!Undecided, Undecided
<1>8. CASE ReceiveUnit
  <2>1. /\ Len(printed) + 1 \in 1 .. Len(written)
        /\ printed' = Append(printed, written[Len(printed) + 1])
    BY <1>2, <1>8, UnitRead
  <2>2. exitCode = Undecided /\ UNCHANGED <<written, status, exitCode>>
    BY <1>4, <1>8 DEF ReceiveUnit, serverVars
  <2>3. Len(printed) < Len(written)
    BY <2>1, Lengths DEF DInv
  <2>. QED
    BY <2>1, <2>2, <2>3 DEF D!Next, D!PrintNext, D!Undecided, Undecided
<1>9. CASE ReadGarbage \/ ReadOutputAsHeaders \/ ReadEOF
  BY <1>2, <1>9, NoGarbage, NoEarlyEnd DEF ReadEOF
<1>10. ASSUME NEW t \in Threads, BeginWrite(t) \/ WriteHeader(t) \/ WriteFails(t) PROVE FALSE
  BY <1>3, <1>10 DEF BeginWrite, WriteHeader, WriteFails, clientVars
<1>11. CASE Close \/ BodyEnds \/ AllOver \/ UNCHANGED vars
  BY <1>3, <1>11 DEF Close, BodyEnds, AllOver, vars, serverVars, clientVars
<1>. QED
  BY <1>5, <1>6, <1>7, <1>8, <1>9, <1>10, <1>11 DEF Next, ScriptStep, ClientStep, D!Next

\* As long as every chunk is alone on the wire, however many threads take turns,
\* and however their output is cut up: the client prints what was written, in
\* order and on its channel, and exits with the status once it has printed all.
THEOREM ImplementsDelivery == Spec => DeliverySpec
<1>1. Init => DInv /\ D!Init
  BY DeliveryInitial
<1>2. DInv /\ [Next]_vars => DInv'
  BY DeliveryInductive
<1>3. DInv /\ [Next]_vars => [~mixed' => D!Next]_(D!vars)
  BY StepDelivers
<1>. QED
  BY <1>1, <1>2, <1>3, PTL DEF Spec, DeliverySpec

\* Only a client that is out of step obeys output in place of a header.
LEMMA MisreadKept ==
    ASSUME DInv, misread => mixed, [Next]_vars
    PROVE  misread' => mixed'
<1>1. mixed => mixed'
  BY DEF Next, ScriptStep, BeginWrite, WriteHeader, WriteBody, WriteFails, SendExit, Close,
         ClientStep, ReadHeaders, ReadGarbage, ReadOutputAsHeaders, ReadEOF, ReceiveUnit, BodyEnds,
         AllOver, vars, serverVars
<1>2. CASE ReadOutputAsHeaders
  BY <1>1, <1>2, NoGarbage DEF DInv
<1>3. misread' = misread \/ ReadOutputAsHeaders
  BY DEF Next, ScriptStep, BeginWrite, WriteHeader, WriteBody, WriteFails, SendExit, Close,
         ClientStep, ReadHeaders, ReadGarbage, ReadEOF, ReceiveUnit, BodyEnds, AllOver,
         vars, clientVars
<1>. QED
  BY <1>1, <1>2, <1>3

\* However many threads write, and whenever the session ends: the client exits
\* with a code of its own or the one status that was sent, unless it obeyed
\* output in place of a header; and it does that only after chunks were mixed.
THEOREM NoPhantom == Spec => []NoPhantomStatus
<1>1. Init => DInv /\ (misread => mixed)
  BY DeliveryInitial DEF Init
<1>2. DInv /\ (misread => mixed) /\ [Next]_vars => DInv' /\ (misread' => mixed')
  BY DeliveryInductive, MisreadKept
<1>3. DInv /\ (misread => mixed) => NoPhantomStatus
  BY DEF DInv, IInv, ExitedWithStatus, NoPhantomStatus
<1>. QED
  BY <1>1, <1>2, <1>3, PTL DEF Spec
=============================================================================
