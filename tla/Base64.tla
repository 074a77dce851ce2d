------------------------------- MODULE Base64 -------------------------------
(***************************************************************************)
(* base64_encode (base64.c): a command line argument is encoded byte by    *)
(* byte through a working buffer, an int that is shifted and never         *)
(* cleared, into a buffer that send_header (session.c) has allocated for   *)
(* it by a rule of thumb.  The working buffer is signed in the code; of    *)
(* what overflows, sign included, no bit is ever used.                     *)
(***************************************************************************)
EXTENDS Integers, Sequences

CONSTANTS Bytes,      \* what an argument is made of
          MaxLength,  \* bound: length of an argument
          Word        \* values of the working buffer: 2^32 in the code

\* Of the working buffer the lower twelve bits are used.
ASSUME ConstantsAssumption ==
    /\ Bytes \subseteq 1 .. 255 /\ MaxLength \in Nat
    /\ Word \in Nat \ {0} /\ Word % 4096 = 0

VARIABLES original,             \* the argument, a C string
          read,                 \* how much of it has been read
          work_buff,            \* the working buffer...
          wb_available_length,  \* ... and how many of its bits are not yet encoded
          encoded,              \* the output: digits, padding and the final NUL
          pc                    \* "read", "digits", "pad", "done"

vars == <<original, read, work_buff, wb_available_length, encoded, pc>>

Digits == 0 .. 63
Padding == 64
Nul == 65

\* malloc(sizeof(char) * strlen(argv[i]) * 1.5 + 5)
Allocated == (3 * Len(original)) \div 2 + 5

Init ==
    /\ original \in UNION {[1 .. n -> Bytes] : n \in 0 .. MaxLength}
    /\ read = 0
    /\ work_buff = 0
    /\ wb_available_length = 0
    /\ encoded = <<>>
    /\ pc = "read"

\* The next byte enters the working buffer at its lower end.
AppendByte ==
    /\ pc = "read"
    /\ read < Len(original)
    /\ read' = read + 1
    /\ work_buff' = (256 * work_buff + original[read + 1]) % Word
    /\ wb_available_length' = wb_available_length + 8
    /\ pc' = "digits"
    /\ UNCHANGED <<original, encoded>>

\* Its upper six available bits are a digit.
EmitDigit ==
    /\ pc = "digits"
    /\ wb_available_length >= 6
    /\ encoded' = Append(encoded, (work_buff \div 2 ^ (wb_available_length - 6)) % 64)
    /\ wb_available_length' = wb_available_length - 6
    /\ UNCHANGED <<original, read, work_buff, pc>>

NextByte ==
    /\ pc = "digits"
    /\ wb_available_length < 6
    /\ pc' = "read"
    /\ UNCHANGED <<original, read, work_buff, wb_available_length, encoded>>

\* Mutant of EmitRest: the last bits stay at the lower end.
EmitRestUnshifted ==
    /\ pc = "read"
    /\ read = Len(original)
    /\ encoded' = IF wb_available_length > 0 THEN Append(encoded, work_buff % 64) ELSE encoded
    /\ pc' = "pad"
    /\ UNCHANGED <<original, read, work_buff, wb_available_length>>

\* The end of the string: what is left over is a digit's upper bits.
EmitRest ==
    /\ pc = "read"
    /\ read = Len(original)
    /\ IF wb_available_length > 0
         THEN /\ work_buff' = (work_buff * 2 ^ (6 - wb_available_length)) % Word
              /\ encoded' = Append(encoded, work_buff' % 64)
         ELSE UNCHANGED <<work_buff, encoded>>
    /\ pc' = "pad"
    /\ UNCHANGED <<original, read, wb_available_length>>

\* Mutant of Pad: padding to a multiple of eight.
PadToEight ==
    /\ pc = "pad"
    /\ Len(encoded) % 8 > 0
    /\ encoded' = Append(encoded, Padding)
    /\ UNCHANGED <<original, read, work_buff, wb_available_length, pc>>

Pad ==
    /\ pc = "pad"
    /\ Len(encoded) % 4 > 0
    /\ encoded' = Append(encoded, Padding)
    /\ UNCHANGED <<original, read, work_buff, wb_available_length, pc>>

Terminate ==
    /\ pc = "pad"
    /\ Len(encoded) % 4 = 0
    /\ encoded' = Append(encoded, Nul)
    /\ pc' = "done"
    /\ UNCHANGED <<original, read, work_buff, wb_available_length>>

Done == pc = "done" /\ UNCHANGED vars

Next == AppendByte \/ EmitDigit \/ NextByte \/ EmitRest \/ Pad \/ Terminate \/ Done
Spec == Init /\ [][Next]_vars

-----------------------------------------------------------------------------
(* Properties                                                              *)

\* Every variable stays in its domain: the type invariant. The bits that are
\* not yet encoded never fill more of the working buffer than a digit and a
\* byte.
TypeOK ==
    /\ original \in Seq(Bytes)
    /\ read \in 0 .. Len(original)
    /\ work_buff \in 0 .. Word - 1
    /\ wb_available_length \in {0, 2, 4, 6, 8, 10, 12}
    /\ encoded \in Seq(Digits \cup {Padding, Nul})
    /\ pc \in {"read", "digits", "pad", "done"}

\* The output, its padding and the NUL never exceed what send_header allocates:
\* "base64 encoded data is less (original size) * 1.5 + 5".
FitsAllocation == Len(encoded) <= Allocated

\* The reference: byte k of what is decoded from the digits. It begins in digit
\* q + 1, after r of its bits.
Decoded(digits, k) ==
    LET q == (8 * (k - 1)) \div 6
        r == (8 * (k - 1)) % 6 IN
    ((64 * digits[q + 1] + digits[q + 2]) \div 2 ^ (4 - r)) % 256

\* As many digits as the argument's bits fill.
DigitCount == (8 * Len(original) + 5) \div 6

\* What is sent decodes to the argument that was typed, although the working
\* buffer overflows with every argument of more than a few bytes.
RoundTrip ==
    pc = "done" =>
        /\ \A k \in 1 .. Len(original) : Decoded(encoded, k) = original[k]
        /\ \A i \in 1 .. Len(encoded) : encoded[i] \in Digits <=> i <= DigitCount
        /\ Len(encoded) % 4 = 1 /\ encoded[Len(encoded)] = Nul
=============================================================================
