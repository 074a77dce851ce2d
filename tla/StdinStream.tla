----------------------------- MODULE StdinStream -----------------------------
(***************************************************************************)
(* The way of a script's input: the native client sends each chunk it      *)
(* reads from its stdin as a "Size" header and a body, in two writes, and  *)
(* on SIGINT an interrupt request; StreamRequestHandler reads the headers  *)
(* byte by byte, then the body with a single read, which returns what has  *)
(* arrived, and puts it in the pipe that the script reads as System.in.    *)
(*                                                                         *)
(* Of a header or an interrupt request the wire carries two units, so that *)
(* a read that is out of step can swallow half of it; a unit of a body is  *)
(* its number in the client's stdin.                                       *)
(***************************************************************************)
EXTENDS Naturals, Sequences, Functions

CONSTANTS MaxTyped,   \* bound: units in the client's stdin
          MaxSize,    \* units the client reads at once (BUFFER_SIZE)
          PipeSize    \* units in the PipedInputStream's buffer

ASSUME BoundsAssumption == MaxTyped \in Nat /\ MaxSize \in Nat /\ PipeSize \in Nat \ {0}

VARIABLES client,     \* "select", "body" (the header is sent), "eof", "gone"
          typed,      \* units read from the client's stdin so far
          chunk,      \* size of the chunk it is sending
          wire,       \* everything the client wrote to the socket
          arrived,    \* how much of it has reached the server
          taken,      \* how much of that has been read
          server,     \* the stream handler: "headers", "body", "write", "ended"
          size,       \* the Size header of the current request
          buff,       \* what it has read and not yet written to the pipe
          pipe,       \* the pipe
          delivered,  \* what the script has read
          torn        \* history: a read returned something else than the body

clientVars == <<client, typed, chunk, wire>>
serverVars == <<taken, server, size, buff, torn>>
vars == <<clientVars, arrived, serverVars, pipe, delivered>>

HeadUnit(n) == [kind |-> "head", size |-> n]
TailUnit == [kind |-> "tail"]
InterruptUnit == [kind |-> "interrupt"]
Unit(n) == [kind |-> "unit", number |-> n]
Foreign == 0   \* in a body, a unit that was never in the client's stdin

Init ==
    /\ client = "select" /\ typed = 0 /\ chunk = 0 /\ wire = <<>>
    /\ arrived = 0
    /\ taken = 0 /\ server = "headers" /\ size = 0 /\ buff = <<>> /\ torn = FALSE
    /\ pipe = <<>> /\ delivered = <<>>

-----------------------------------------------------------------------------
(* The client: send_to_server and signal_handler                           *)

\* What is written at once may arrive in pieces.
Send(units) == wire' = wire \o units /\ UNCHANGED arrived

\* read(stdin), and the first write.
SendSize ==
    /\ client = "select"
    /\ \E n \in 1 .. MaxSize :
         /\ typed + n <= MaxTyped
         /\ chunk' = n /\ typed' = typed + n
         /\ Send(<<HeadUnit(n), TailUnit>>)
    /\ client' = "body"
    /\ UNCHANGED <<serverVars, pipe, delivered>>

\* The second write.
SendBody ==
    /\ client = "body"
    /\ Send([i \in 1 .. chunk |-> Unit(typed - chunk + i)])
    /\ client' = "select"
    /\ UNCHANGED <<typed, chunk, serverVars, pipe, delivered>>

\* The end of stdin: a chunk of no units; stdin is not watched any more.
SendEOF ==
    /\ client = "select"
    /\ Send(<<HeadUnit(0), TailUnit>>)
    /\ client' = "eof"
    /\ UNCHANGED <<typed, chunk, serverVars, pipe, delivered>>

\* SIGINT, between any two system calls: the client is gone after it.
Interrupt ==
    /\ client # "gone"
    /\ Send(<<InterruptUnit, TailUnit>>)
    /\ client' = "gone"
    /\ UNCHANGED <<typed, chunk, serverVars, pipe, delivered>>

Arrive ==
    /\ arrived < Len(wire)
    /\ \E n \in arrived + 1 .. Len(wire) : arrived' = n
    /\ UNCHANGED <<clientVars, serverVars, pipe, delivered>>

-----------------------------------------------------------------------------
(* The server: StreamRequestHandler.run                                    *)

Available == arrived - taken
Ahead == wire[taken + 1]
EOF == client = "gone" /\ taken = Len(wire)

\* A complete header. Size 0 without a command is rejected by
\* StreamRequest.check; an interrupt request ends the handler as well.
ReadHeaders ==
    /\ server = "headers"
    /\ Available >= 2
    /\ Ahead.kind \in {"head", "interrupt"}
    /\ taken' = taken + 2
    /\ IF Ahead.kind = "head" /\ Ahead.size > 0
         THEN size' = Ahead.size /\ server' = "body"
         ELSE server' = "ended" /\ UNCHANGED size
    /\ UNCHANGED <<clientVars, arrived, buff, torn, pipe, delivered>>

\* Lines that are no header: an invalid request, or keys nobody looks at, up
\* to the next header.
ReadGarbage ==
    /\ server = "headers"
    /\ Available >= 1
    /\ Ahead.kind \in {"unit", "tail"}
    /\ taken' = taken + 1
    /\ server' \in {"headers", "ended"}
    /\ UNCHANGED <<clientVars, arrived, size, buff, torn, pipe, delivered>>

\* The end of the stream, in the headers or in the body.
ReadEOF ==
    /\ server \in {"headers", "body"}
    /\ EOF
    /\ server' = "ended"
    /\ UNCHANGED <<clientVars, arrived, taken, size, buff, torn, pipe, delivered>>

Contents(n) == [i \in 1 .. n |-> IF wire[taken + i].kind = "unit"
                                   THEN wire[taken + i].number ELSE Foreign]

\* Mutant of ReadBody: the buffer is larger than the announced size.
ReadBodyAll ==
    /\ server = "body"
    /\ Available >= 1
    /\ buff' = Contents(Available)
    /\ taken' = taken + Len(buff')
    /\ torn' = (torn \/ Len(buff') < size \/ Foreign \in Range(buff'))
    /\ server' = "write"
    /\ UNCHANGED <<clientVars, arrived, size, pipe, delivered>>

\* read(buff, 0, size) blocks for the first unit only.
ReadBody ==
    /\ server = "body"
    /\ Available >= 1
    /\ buff' = Contents(IF Available < size THEN Available ELSE size)
    /\ taken' = taken + Len(buff')
    /\ torn' = (torn \/ Len(buff') < size \/ Foreign \in Range(buff'))
    /\ server' = "write"
    /\ UNCHANGED <<clientVars, arrived, size, pipe, delivered>>

\* Mutants of TransferStreamRequest: only what fits is written; the buffer is
\* written again.
TransferWhatFits ==
    /\ server = "write"
    /\ LET n == PipeSize - Len(pipe) IN
         pipe' = IF Len(buff) <= n THEN pipe \o buff ELSE pipe \o SubSeq(buff, 1, n)
    /\ buff' = <<>>
    /\ server' = "headers"
    /\ UNCHANGED <<clientVars, arrived, taken, size, torn, delivered>>
TransferWithoutMoving ==
    /\ server = "write"
    /\ Len(pipe) < PipeSize
    /\ pipe' = Append(pipe, Head(buff))
    /\ \E more \in BOOLEAN : /\ buff' = IF more THEN buff ELSE <<>>
                             /\ server' = IF more THEN "write" ELSE "headers"
    /\ UNCHANGED <<clientVars, arrived, taken, size, torn, delivered>>

\* pipedOutputStream.write: waits whenever the pipe is full.
TransferStreamRequest ==
    /\ server = "write"
    /\ Len(pipe) < PipeSize
    /\ pipe' = Append(pipe, Head(buff))
    /\ buff' = Tail(buff)
    /\ server' = IF Len(buff) = 1 THEN "headers" ELSE "write"
    /\ UNCHANGED <<clientVars, arrived, taken, size, torn, delivered>>

\* The script reads System.in.
ReadStdin ==
    /\ pipe # <<>>
    /\ delivered' = Append(delivered, Head(pipe))
    /\ pipe' = Tail(pipe)
    /\ UNCHANGED <<clientVars, arrived, serverVars>>

ClientStep == SendSize \/ SendBody \/ SendEOF \/ Interrupt
ServerStep == ReadHeaders \/ ReadGarbage \/ ReadEOF \/ ReadBody \/ TransferStreamRequest
Waiting == /\ server = "ended" \/ client \in {"select", "eof"}
           /\ UNCHANGED vars

Next == ClientStep \/ Arrive \/ ServerStep \/ ReadStdin \/ Waiting
Spec == Init /\ [][Next]_vars

\* A chunk begun is sent and arrives, the handler runs, the script reads on.
FairSpec == Spec /\ WF_vars(SendBody) /\ WF_vars(Arrive) /\ WF_vars(ServerStep) /\ WF_vars(ReadStdin)

-----------------------------------------------------------------------------
(* Properties                                                              *)

Numbers == 0 .. MaxTyped

\* Every variable stays in its domain: the type invariant.
TypeOK ==
    /\ client \in {"select", "body", "eof", "gone"}
    /\ typed \in Numbers /\ chunk \in 0 .. MaxSize
    /\ arrived \in 0 .. Len(wire) /\ taken \in 0 .. arrived
    /\ server \in {"headers", "body", "write", "ended"}
    /\ size \in 0 .. MaxSize
    /\ buff \in Seq(Numbers) /\ Len(buff) <= size
    /\ pipe \in Seq(Numbers) /\ Len(pipe) <= PipeSize
    /\ delivered \in Seq(Numbers)
    /\ torn \in BOOLEAN

\* Whatever happens on the way, the script reads no unit of its client's stdin
\* twice, and none before an earlier one.
DeliveredInOrder ==
    \A i, j \in 1 .. Len(delivered) :
        i < j /\ delivered[i] # Foreign /\ delivered[j] # Foreign => delivered[i] < delivered[j]

\* As long as every read returns the whole body it was to return, the script
\* reads its client's stdin, from the beginning and without a gap, however the
\* headers arrive and however often the pipe is full.
IsPrefixOfStdin(units) ==
    /\ Len(units) <= typed
    /\ \A i \in 1 .. Len(units) : units[i] = i
StdinIsPrefix == ~torn => IsPrefixOfStdin(delivered)

\* What the client read from its stdin then reaches a script that reads on,
\* unless the session has ended.
TypedLeadsToDelivered ==
    \A n \in 1 .. MaxTyped :
        typed >= n ~> (Len(delivered) >= n \/ server = "ended" \/ torn)

-----------------------------------------------------------------------------
(* What a comment says and the code does not do                            *)

\* ClientProtocols: "<body from STDIN> is byte sequence from standard input",
\* so as long as the client is not interrupted the script reads its stdin.
BodyIsStdin == client # "gone" => IsPrefixOfStdin(delivered)
=============================================================================
