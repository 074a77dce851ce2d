--------------------------- MODULE ResponseStream ---------------------------
(***************************************************************************)
(* The way of a script's output: threads of the script write chunks to     *)
(* System.out and System.err, each a StreamResponseOutputStream behind a   *)
(* PrintStream; both frame them onto one socket, which also carries the    *)
(* exit status; the native client (session.c) takes the frames apart.      *)
(*                                                                         *)
(* The wire carries units. A header is two of them, a head and a tail, so  *)
(* that a client that is out of step can swallow one without the other;    *)
(* a unit of a body carries its channel and a serial number. What is       *)
(* written may be read at once: the buffering before flush only delays.    *)
(***************************************************************************)
EXTENDS Integers, Sequences

CONSTANTS Threads,    \* the script's writing threads
          MaxChunks,  \* bound: chunks written in all
          MaxSize,    \* bound: units in a chunk
          Codes,      \* the exit statuses of the script, modulo 2^32
          TextCodes,  \* the exit codes, and the sizes, that output may state
          TextSizes   \* when it is read as a header

Channels == {"out", "err"}

ASSUME BoundsAssumption == MaxChunks \in Nat /\ MaxSize \in Nat /\ Codes \subseteq Nat
ASSUME TextAssumption == TextCodes \subseteq 0 .. 255 /\ TextSizes \subseteq Nat

VARIABLES writing,   \* where each thread is in StreamResponseOutputStream.write
          chunk,     \* the chunk it writes: its channel and size
          chunks,    \* number of chunks begun
          written,   \* the units written so far
          wire,      \* everything written to the socket
          status,    \* the exit status sent, or Undecided
          closed,    \* the server has closed the socket
          mixed,     \* history: a chunk was not alone on the wire
          client,    \* the client: "select", "body", "over"
          taken,     \* how much of the wire it has read
          body,      \* channel and remaining size of the body it reads
          printed,   \* what it has written to stdout and stderr
          misread,   \* history: it obeyed a header that was output
          exitCode   \* its exit code, or Undecided

serverVars == <<writing, chunk, chunks, written, wire, status, closed, mixed>>
clientVars == <<client, taken, body, printed, misread, exitCode>>
vars == <<serverVars, clientVars>>

Undecided == -1
TailUnit == [kind |-> "tail"]
HeadUnit(ch, size) == [kind |-> "head", channel |-> ch, size |-> size]
StatusHead(code) == [kind |-> "status", code |-> code]

\* A process's exit status has eight bits.
ExitCodeOf(code) == code % 256

NoChunk == [channel |-> "out", size |-> 0]
Init ==
    /\ writing = [t \in Threads |-> "no"]
    /\ chunk = [t \in Threads |-> NoChunk]
    /\ chunks = 0
    /\ written = <<>>
    /\ wire = <<>>
    /\ status = Undecided
    /\ closed = FALSE
    /\ mixed = FALSE
    /\ client = "select"
    /\ taken = 0
    /\ body = NoChunk
    /\ printed = <<>>
    /\ misread = FALSE
    /\ exitCode = Undecided

-----------------------------------------------------------------------------
(* The server                                                              *)

Busy == \E t \in Threads : writing[t] # "no"

\* A thread enters the PrintStream of a channel, which is its lock.
BeginWrite(t) ==
    /\ writing[t] = "no"
    /\ chunks < MaxChunks
    /\ \E ch \in Channels, n \in 0 .. MaxSize :
         /\ \A u \in Threads : writing[u] # "no" => chunk[u].channel # ch
         /\ chunk' = [chunk EXCEPT ![t] = [channel |-> ch, size |-> n]]
    /\ writing' = [writing EXCEPT ![t] = "header"]
    /\ chunks' = chunks + 1
    /\ mixed' = (mixed \/ Busy \/ status # Undecided)
    /\ UNCHANGED <<written, wire, status, closed, clientVars>>

\* Mutant of WriteHeader: a chunk's size is announced one unit too small.
WriteHeaderShort(t) ==
    /\ writing[t] = "header" /\ ~closed
    /\ LET size == chunk[t].size IN
         wire' = wire \o <<HeadUnit(chunk[t].channel, IF size = 0 THEN 0 ELSE size - 1), TailUnit>>
    /\ writing' = [writing EXCEPT ![t] = "body"]
    /\ UNCHANGED <<chunk, chunks, written, status, closed, mixed, clientVars>>

WriteHeader(t) ==
    /\ writing[t] = "header"
    /\ ~closed
    /\ wire' = wire \o <<HeadUnit(chunk[t].channel, chunk[t].size), TailUnit>>
    /\ writing' = [writing EXCEPT ![t] = "body"]
    /\ UNCHANGED <<chunk, chunks, written, status, closed, mixed, clientVars>>

\* The bodies are numbered in the order they are written.
WriteBody(t) ==
    /\ writing[t] = "body"
    /\ ~closed
    /\ LET units == [i \in 1 .. chunk[t].size |->
                       [channel |-> chunk[t].channel, number |-> Len(written) + i]] IN
         /\ written' = written \o units
         /\ wire' = wire \o [i \in DOMAIN units |->
                               [kind |-> "unit", channel |-> chunk[t].channel,
                                number |-> units[i].number]]
    /\ writing' = [writing EXCEPT ![t] = "no"]
    /\ UNCHANGED <<chunk, chunks, status, closed, mixed, clientVars>>

\* The IOException of a closed socket is swallowed by PrintStream.
WriteFails(t) ==
    /\ writing[t] # "no"
    /\ closed
    /\ writing' = [writing EXCEPT ![t] = "no"]
    /\ UNCHANGED <<chunk, chunks, written, wire, status, closed, mixed, clientVars>>

\* Mutant of SendExit: a second closer sends its status too.
SendExitAgain ==
    /\ ~closed
    /\ \E code \in Codes : /\ status' = code
                           /\ wire' = wire \o <<StatusHead(code), TailUnit>>
    /\ mixed' = (mixed \/ Busy)
    /\ UNCHANGED <<writing, chunk, chunks, written, closed, clientVars>>

\* ClientConnection.sendExit, by whichever thread closes the session.
SendExit ==
    /\ status = Undecided
    /\ \E code \in Codes : /\ status' = code
                           /\ wire' = wire \o <<StatusHead(code), TailUnit>>
    /\ mixed' = (mixed \/ Busy)
    /\ UNCHANGED <<writing, chunk, chunks, written, closed, clientVars>>

\* ClientConnection.close flushes and closes the socket.
Close ==
    /\ status # Undecided
    /\ ~closed
    /\ closed' = TRUE
    /\ UNCHANGED <<writing, chunk, chunks, written, wire, status, mixed, clientVars>>

-----------------------------------------------------------------------------
(* The client: start_session                                               *)

Readable == taken < Len(wire)
Ahead == wire[taken + 1]
Exit(code) == client' = "over" /\ exitCode' = code

\* read_headers meets the beginning of a header: it is a status or a chunk.
ReadHeaders ==
    /\ client = "select" /\ Readable
    /\ \/ /\ Ahead.kind = "head"
          /\ body' = [channel |-> Ahead.channel, size |-> Ahead.size]
          /\ client' = "body"
          /\ UNCHANGED exitCode
       \/ Ahead.kind = "status" /\ Exit(ExitCodeOf(Ahead.code)) /\ UNCHANGED body
    /\ taken' = taken + 2
    /\ UNCHANGED <<serverVars, printed, misread>>

\* It meets something else: an invalid header (1), one that counts as none (0),
\* or lines that are ignored, up to the next header.
ReadGarbage ==
    /\ client = "select" /\ Readable
    /\ Ahead.kind \in {"unit", "tail"}
    /\ taken' = taken + 1
    /\ \/ \E code \in {0, 1} : Exit(code)
       \/ UNCHANGED <<client, exitCode>>
    /\ UNCHANGED <<serverVars, body, printed, misread>>

\* A script's output read as a header may look like one: of a status, or of a
\* chunk, whose header ends with the first empty line in what follows.
ReadOutputAsHeaders ==
    /\ client = "select" /\ Readable
    /\ Ahead.kind = "unit"
    /\ misread' = TRUE
    /\ \/ /\ \E code \in TextCodes : Exit(code)
          /\ taken' = taken + 1
          /\ UNCHANGED body
       \/ /\ \E ch \in Channels, n \in TextSizes : body' = [channel |-> ch, size |-> n]
          /\ \E i \in taken + 1 .. Len(wire) : taken' = i
          /\ client' = "body"
          /\ UNCHANGED exitCode
    /\ UNCHANGED <<serverVars, printed>>

\* Mutant of ReadEOF: the end of the stream is not noticed.
ReadEOFAgain ==
    /\ client = "select" /\ ~Readable /\ closed
    /\ UNCHANGED vars

\* No header at all: the end of the stream is a normal exit.
ReadEOF ==
    /\ client = "select" /\ ~Readable /\ closed
    /\ Exit(0)
    /\ UNCHANGED <<serverVars, taken, body, printed, misread>>

\* Mutant of ReceiveUnit: the size is not watched.
ReceiveUnitOver ==
    /\ client = "body" /\ Readable
    /\ printed' = Append(printed, [channel |-> body.channel, number |-> 0])
    /\ taken' = taken + 1
    /\ body' = [body EXCEPT !.size = @ - 1]
    /\ UNCHANGED <<serverVars, client, misread, exitCode>>

\* receive_from_server: the next unit of the body, whatever it is.
ReceiveUnit ==
    /\ client = "body" /\ body.size > 0 /\ Readable
    /\ printed' = Append(printed,
                    IF Ahead.kind = "unit" /\ Ahead.channel = body.channel
                      THEN [channel |-> Ahead.channel, number |-> Ahead.number]
                      ELSE [channel |-> body.channel, number |-> 0])
    /\ taken' = taken + 1
    /\ body' = [body EXCEPT !.size = @ - 1]
    /\ UNCHANGED <<serverVars, client, misread, exitCode>>

\* The body is complete, or ends with the stream.
BodyEnds ==
    /\ client = "body"
    /\ body.size = 0 \/ (~Readable /\ closed)
    /\ client' = "select"
    /\ UNCHANGED <<serverVars, taken, body, printed, misread, exitCode>>

ScriptStep == \E t \in Threads : BeginWrite(t) \/ WriteHeader(t) \/ WriteBody(t) \/ WriteFails(t)
ClientStep == \/ ReadHeaders \/ ReadGarbage \/ ReadOutputAsHeaders \/ ReadEOF
              \/ ReceiveUnit \/ BodyEnds
AllOver == /\ client = "over" /\ closed /\ ~Busy
           /\ UNCHANGED vars

Next == ScriptStep \/ SendExit \/ Close \/ ClientStep \/ AllOver
Spec == Init /\ [][Next]_vars

\* The client reads on, so that nothing blocks the flush of a close, and a
\* status that was sent is followed by one.
FairSpec == Spec /\ WF_vars(ClientStep) /\ WF_vars(Close)

-----------------------------------------------------------------------------
(* Properties                                                              *)

OutputUnits == [channel : Channels, number : Nat]

\* Every variable stays in its domain: the type invariant.
TypeOK ==
    /\ writing \in [Threads -> {"no", "header", "body"}]
    /\ chunk \in [Threads -> [channel : Channels, size : 0 .. MaxSize]]
    /\ chunks \in 0 .. MaxChunks
    /\ written \in Seq(OutputUnits) /\ printed \in Seq(OutputUnits)
    /\ status \in Codes \cup {Undecided} /\ closed \in BOOLEAN /\ mixed \in BOOLEAN
    /\ client \in {"select", "body", "over"}
    /\ taken \in 0 .. Len(wire)
    /\ misread \in BOOLEAN
    /\ body \in [channel : Channels, size : Nat]
    /\ ~misread => body.size <= MaxSize
    /\ exitCode \in {ExitCodeOf(code) : code \in Codes} \cup TextCodes \cup {0, 1, Undecided}

\* As long as every chunk is alone on the wire (no other thread writes, and the
\* session ends after it), the frames implement Delivery: order, channel,
\* completeness and status.
D == INSTANCE Delivery WITH Units <- OutputUnits, Statuses <- 0 .. 255,
                            status <- IF status = Undecided THEN Undecided ELSE ExitCodeOf(status)
DeliverySpec == D!Init /\ [][~mixed' => D!Next]_(D!vars)

\* However many threads write, and whenever the session ends, an exit code
\* other than the client's own 0 and 1 is the status the server sent, unless the
\* client obeyed output in place of a header; and it never does so as long as
\* every chunk is alone on the wire.
NoPhantomStatus ==
    /\ \/ exitCode \in {Undecided, 0, 1} \/ misread
       \/ status # Undecided /\ exitCode = ExitCodeOf(status)
    /\ misread => mixed

\* ... and the client does not wait for more once the server has closed.
ClosedLeadsToExit == closed ~> client = "over"
=============================================================================
