----------------------------- MODULE MCInvocation -----------------------------
(***************************************************************************)
(* An instance of Invocation: command lines of options of every kind, two  *)
(* words and a token; classpaths that repeat an entry and name the current *)
(* directory; environments with a variable twice and with values of one    *)
(* and several lines, which are of every kind.                             *)
(***************************************************************************)
EXTENDS Invocation

\* Words stand for themselves as paths, but for one that lists two.
MCSplit(w) == IF w = "lib:." THEN <<"lib", ".">> ELSE <<w>>

\* The word lib is a part of the name LIBS, and of no other.
MCIncludes(name, w) == name = "LIBS" /\ w = "lib"

Line(text) == [text |-> text, padded |-> FALSE]
Var(name, text, rest) == [name |-> name, value |-> Line(text), rest |-> rest]
Has(key, value) == [key |-> key, value |-> value]

\* Lines of each kind, and some together. (TLC compares no word with a tuple: lists
\* with variables or classpaths have lengths of their own.)
Rests == {<<Has("other", "b")>>,
          <<Has("Arg", "lib")>>,
          <<Has("Cmd", "ping")>>,
          <<Has("", None), Has("other", "b")>>,
          <<Has("Arg", "-cp"), Has("Arg", "lib")>>,
          <<Has("Arg", Undecodable), Has("Auth", "x")>>,
          <<Has("Cmd", "interrupt"), Has("Cmd", "shutdown"), Has("Cp", <<>>)>>,
          <<Has("Env", <<"HOME", Line("c")>>), Has("Cp", <<"x">>), Has("", None), Has("Cp", <<>>)>>}

MCEnvirons ==
    {<<Var("HOME", "a", <<>>), [Var("LIBS", "b", <<>>) EXCEPT !.value.padded = TRUE]>>,
     <<Var("HOME", "a", <<>>), Var("HOME", "b", <<>>)>>}
    \cup {<<Var("LIBS", "a", rest), Var("HOME", "a", <<>>)>> : rest \in Rests}
MCClasspaths == {<<>>, <<"lib", "src", "lib">>}
=============================================================================
