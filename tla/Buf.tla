--------------------------------- MODULE Buf ---------------------------------
(***************************************************************************)
(* The growing character buffer of the native client (buf.c): buf_add and  *)
(* buf_printf append a C string behind the one the buffer holds.  Memory   *)
(* that was never written is Garbage, which may read as anything; a write  *)
(* behind the end of the allocated memory makes the buffer longer than it  *)
(* is allowed to be, so that the type invariant notices it.                *)
(*                                                                         *)
(* Sizes are taken not to overflow an int: a header of 2^30 characters     *)
(* does not fit a command line and an environment.                         *)
(***************************************************************************)
EXTENDS Integers, Sequences

CONSTANTS Chars,       \* the characters of strings
          NUL,         \* the end of a string
          Garbage,     \* what was never written
          BUFFER_SIZE  \* the size a buffer is made with: 512 in the code

ASSUME BufAssumption ==
    /\ NUL \notin Chars /\ Garbage \notin Chars \cup {NUL}
    /\ BUFFER_SIZE \in Nat \ {0}

VARIABLES buffer,       \* the memory
          buffer_size,  \* its size
          size,         \* the part in use, the final NUL included
          op,           \* the call in progress: "none", "copy", "printf"
          offs,         \* its offset...
          text,         \* ... and string
          content       \* history: the strings added so far, one behind the other

bufVars == <<buffer, buffer_size, size, op, offs, text, content>>

CString == Seq(Chars)

Fresh(n) == [k \in 1 .. n |-> Garbage]

BufInit == /\ buffer = Fresh(BUFFER_SIZE)
           /\ buffer_size = BUFFER_SIZE
           /\ size = 0
           /\ op = "none" /\ offs = 0 /\ text = <<>>
           /\ content = <<>>

\* Memory b after string s was written at offset o.
Written(b, o, s) ==
    [k \in 1 .. (IF o + Len(s) > Len(b) THEN o + Len(s) ELSE Len(b)) |->
        IF k \in o + 1 .. o + Len(s) THEN s[k - o] ELSE b[k]]

\* realloc keeps what there is; the rest is not initialized.
Realloc(b, n) == [k \in 1 .. n |-> IF k <= Len(b) THEN b[k] ELSE Garbage]

\* Mutant of buf_strnlen: the NUL is taken for a part of the string.
StrnlenOver(n) == {n}

\* What buf_strnlen(buffer, n) may return: where the first NUL is found, but n at
\* most. In a buffer just made it reads garbage.
buf_strnlen(n) ==
    {j \in 0 .. n : /\ \A k \in 1 .. j : buffer[k] # NUL
                    /\ j = n \/ buffer[j + 1] \in {NUL, Garbage}}

-----------------------------------------------------------------------------
(* The calls                                                               *)

Call(which, s) == /\ op = "none"
                  /\ op' = which
                  /\ offs' \in buf_strnlen(size)
                  /\ text' = s
                  /\ content' = content \o s
                  /\ UNCHANGED <<buffer, buffer_size, size>>

buf_add(s) == Call("copy", s)
buf_printf(s) == Call("printf", s)

\* Mutant of NeedsRoom: no room is made for the NUL.
NeedsRoomShort == offs + Len(text) > buffer_size

\* buf_offs_ncopy is called for the string and its NUL. It doubles the size as
\* often as it takes...
NeedsRoom == offs + Len(text) + 1 > buffer_size

CopyGrows ==
    /\ op = "copy"
    /\ NeedsRoom
    /\ buffer_size' = 2 * buffer_size
    /\ UNCHANGED <<buffer, size, op, offs, text, content>>

\* ... before it reallocates and copies.
Copy ==
    /\ op = "copy"
    /\ ~NeedsRoom
    /\ buffer' = Written(Realloc(buffer, buffer_size), offs, Append(text, NUL))
    /\ size' = offs + Len(text) + 1
    /\ op' = "none"
    /\ UNCHANGED <<buffer_size, offs, text, content>>

rest == buffer_size - offs

\* buf_offs_vprintf prints what fits, with a NUL in the last place, then doubles
\* the size and prints again.
PrintfGrows ==
    /\ op = "printf"
    /\ Len(text) >= rest
    /\ LET truncated == IF rest = 0 THEN buffer
                        ELSE Written(buffer, offs, Append(SubSeq(text, 1, rest - 1), NUL)) IN
       buffer' = Realloc(truncated, 2 * buffer_size)
    /\ buffer_size' = 2 * buffer_size
    /\ UNCHANGED <<size, op, offs, text, content>>

PrintfFits ==
    /\ op = "printf"
    /\ Len(text) < rest
    /\ buffer' = Written(buffer, offs, Append(text, NUL))
    /\ size' = offs + Len(text) + 1
    /\ op' = "none"
    /\ UNCHANGED <<buffer_size, offs, text, content>>

BufStep == CopyGrows \/ Copy \/ PrintfGrows \/ PrintfFits
BufNext == BufStep \/ \E s \in CString : buf_add(s) \/ buf_printf(s)
BufSpec == BufInit /\ [][BufNext]_bufVars

-----------------------------------------------------------------------------
(* Properties                                                              *)

\* Every variable stays in its domain, and the buffer in its memory: no call
\* writes, and no buf_strnlen looks, behind the end of what was allocated (while
\* a copy grows, buffer_size is ahead of it). The type invariant of the buffer.
BufTypeOK ==
    /\ buffer_size \in Nat \ {0}
    /\ buffer \in Seq(Chars \cup {NUL, Garbage})
    /\ Len(buffer) <= buffer_size
    /\ op # "copy" => Len(buffer) = buffer_size
    /\ size \in 0 .. Len(buffer) /\ offs \in 0 .. Len(buffer)
    /\ op \in {"none", "copy", "printf"}
    /\ text \in CString /\ content \in CString
=============================================================================
