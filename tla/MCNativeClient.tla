--------------------------- MODULE MCNativeClient ---------------------------
\* Instance of NativeClient for TLC: the option lines a user may type.
EXTENDS NativeClient

Line(control, host, given) == [control |-> control, host |-> host, given |-> given]

\* A script on the local server, with the token of the file or a given one, or
\* after a restart; on another host; and the end of a server.
MCTyped == {Line("none", "local", FALSE), Line("none", "local", TRUE),
            Line("restart", "local", FALSE), Line("none", "option", FALSE),
            Line("kill", "environment", FALSE)}
=============================================================================
