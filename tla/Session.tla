------------------------------- MODULE Session -------------------------------
(***************************************************************************)
(* What one connection promises its client, whatever threads serve it: the *)
(* request's fate is decided once, then at most one exit status is         *)
(* written, then the connection is closed and nothing follows.  A refused  *)
(* request is answered and decided at once.  RequestWorker implements it.  *)
(***************************************************************************)
EXTENDS Sequences

CONSTANT Status

VARIABLES phase,   \* "running", "decided" or "closed"
          reply    \* the exit statuses written: at most one

Init == phase = "running" /\ reply = <<>>

Decide == phase = "running" /\ phase' = "decided" /\ UNCHANGED reply

Refuse == /\ phase = "running" /\ phase' = "decided"
          /\ \/ UNCHANGED reply
             \/ \E s \in Status : reply' = <<s>>

Reply == /\ phase = "decided"
         /\ reply = <<>>
         /\ \E s \in Status : reply' = <<s>>
         /\ UNCHANGED phase

Close == phase = "decided" /\ phase' = "closed" /\ UNCHANGED reply

Next == Decide \/ Refuse \/ Reply \/ Close
Spec == Init /\ [][Next]_<<phase, reply>>
=============================================================================
