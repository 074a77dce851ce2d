------------------------------ MODULE Delivery ------------------------------
(***************************************************************************)
(* What the two standard channels of a remote script promise its user:     *)
(* everything the script wrote appears, once, on the channel it was        *)
(* written to and in the order it was written, and the client then exits   *)
(* with the script's status.                                               *)
(***************************************************************************)
EXTENDS Integers, Sequences

CONSTANTS Units,    \* what can be written: a unit of output and its channel
          Statuses  \* exit codes of the client

VARIABLES written,  \* the script's output so far
          printed,  \* what has appeared at the client
          status,   \* the exit status the server decided, or -1
          exitCode  \* of the client, or -1

vars == <<written, printed, status, exitCode>>

Undecided == -1

Init == /\ written = <<>> /\ printed = <<>>
        /\ status = Undecided /\ exitCode = Undecided

Write == /\ status = Undecided
         /\ written' \in Seq(Units)
         /\ Len(written') > Len(written)
         /\ SubSeq(written', 1, Len(written)) = written
         /\ UNCHANGED <<printed, status, exitCode>>

PrintNext == /\ exitCode = Undecided
             /\ Len(printed) < Len(written)
             /\ printed' = Append(printed, written[Len(printed) + 1])
             /\ UNCHANGED <<written, status, exitCode>>

Decide == /\ status = Undecided
          /\ status' \in Statuses
          /\ UNCHANGED <<written, printed, exitCode>>

ClientExits == /\ status # Undecided /\ exitCode = Undecided
               /\ printed = written
               /\ exitCode' = status
               /\ UNCHANGED <<written, printed, status>>

Next == Write \/ PrintNext \/ Decide \/ ClientExits
Spec == Init /\ [][Next]_vars
=============================================================================
