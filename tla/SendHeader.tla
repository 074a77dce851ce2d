----------------------------- MODULE SendHeader -----------------------------
(***************************************************************************)
(* send_header (session.c): the header of an invocation request is put     *)
(* together in a Buf, the arguments encoded by Base64, and written in one  *)
(* piece.  What the lines say is the subject of Invocation; here each is a *)
(* string, and the question is whether the two algorithms hand the whole   *)
(* of it over.                                                             *)
(*                                                                         *)
(* Of Invocation's arguments those are sent that were not taken out.       *)
(***************************************************************************)
EXTENDS Base64, Buf

CONSTANTS Values,   \* strings: directories, tokens, variables, classpaths
          MaxLines  \* bound: arguments, and variables, of one request

\* The characters of the protocol; below them are those of base64.
LF == 66
Key(name) == <<CASE name = "Cwd" -> 67
                 [] name = "AuthToken" -> 68
                 [] name = "Arg" -> 69
                 [] name = "Env" -> 70
                 [] name = "Cp" -> 71>>

ASSUME HeaderAssumption ==
    /\ NUL = Nul
    /\ Digits \cup {Padding} \cup LF .. 71 \subseteq Chars
    /\ Values \subseteq CString
    /\ MaxLines \in Nat

VARIABLES at,     \* where send_header is
          lines,  \* arguments, then variables, so far
          sent    \* what was written to the socket

headerVars == <<at, lines, sent>>
allVars == <<vars, bufVars, headerVars>>

\* No argument has been encoded yet.
HeaderInit == Init /\ original = <<>> /\ BufInit /\ at = "Cwd" /\ lines = 0 /\ sent = <<>>

Line(name, value) == Key(name) \o value \o <<LF>>

Goto(label) == at' = label /\ lines' = 0 /\ UNCHANGED <<vars, sent>>

-----------------------------------------------------------------------------

\* The directory goes in by one buf_printf and two buf_add.
CwdKey == at = "Cwd" /\ buf_printf(Key("Cwd")) /\ Goto("getcwd")
CwdValue == at = "getcwd" /\ (\E cwd \in Values : buf_add(cwd)) /\ Goto("LF")
CwdEnd == at = "LF" /\ buf_add(<<LF>>) /\ Goto("AuthToken")

AuthToken == /\ at = "AuthToken"
             /\ \E authtoken \in Values : buf_printf(Line("AuthToken", authtoken))
             /\ Goto("next")

\* argv[i] is there and is not NULL: it is encoded.
NextArgument ==
    /\ at = "next" /\ op = "none" /\ lines < MaxLines
    /\ original' \in UNION {[1 .. n -> Bytes] : n \in 0 .. MaxLength}
    /\ read' = 0 /\ work_buff' = 0 /\ wb_available_length' = 0 /\ encoded' = <<>>
    /\ pc' = "read"
    /\ at' = "base64_encode"
    /\ UNCHANGED <<bufVars, lines, sent>>

Encode == /\ at = "base64_encode"
          /\ AppendByte \/ EmitDigit \/ NextByte \/ EmitRest \/ Pad \/ Terminate
          /\ UNCHANGED <<bufVars, headerVars>>

\* The digits, up to their NUL.
Argument == /\ at = "base64_encode" /\ pc = "done"
            /\ buf_printf(Line("Arg", SubSeq(encoded, 1, Len(encoded) - 1)))
            /\ at' = "next"
            /\ lines' = lines + 1
            /\ UNCHANGED <<vars, sent>>

NoMoreArguments == at = "next" /\ op = "none" /\ Goto("Env") /\ UNCHANGED bufVars

\* make_env_headers, for the variables that the masks let pass.
Variable == /\ at = "Env" /\ lines < MaxLines
            /\ \E variable \in Values : buf_printf(Line("Env", variable))
            /\ lines' = lines + 1
            /\ UNCHANGED <<vars, at, sent>>

NoMoreVariables == at = "Env" /\ op = "none" /\ Goto("Cp") /\ UNCHANGED bufVars

Classpath == at = "Cp" /\ (\E cp \in Values : buf_printf(Line("Cp", cp))) /\ Goto("end")
NoClasspath == at = "Cp" /\ op = "none" /\ Goto("end") /\ UNCHANGED bufVars

EmptyLine == at = "end" /\ buf_printf(<<LF>>) /\ Goto("write")

\* Without the NUL. The buffer is then deleted.
Write ==
    /\ at = "write" /\ op = "none"
    /\ sent' = SubSeq(buffer, 1, size - 1)
    /\ at' = "over"
    /\ UNCHANGED <<vars, bufVars, lines>>

Grow == BufStep /\ UNCHANGED <<vars, headerVars>>

HeaderNext == \/ CwdKey \/ CwdValue \/ CwdEnd \/ AuthToken
              \/ NextArgument \/ Encode \/ Argument \/ NoMoreArguments
              \/ Variable \/ NoMoreVariables \/ Classpath \/ NoClasspath
              \/ EmptyLine \/ Write \/ Grow

HeaderSpec == HeaderInit /\ [][HeaderNext]_allVars

-----------------------------------------------------------------------------
(* Properties                                                              *)

\* What is written is every string handed to the buffer, one behind the other:
\* nothing is cut off where the buffer had to grow, no NUL is left between two
\* of them and no memory that was never written is sent.
HeaderIsWhole == at = "over" => sent = content
=============================================================================
