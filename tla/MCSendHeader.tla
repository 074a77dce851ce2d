----------------------------- MODULE MCSendHeader -----------------------------
\* Instance of SendHeader for TLC: strings of no, one and five equal characters,
\* and a buffer that the first key just fits and that has to grow three times.
EXTENDS SendHeader

MCChars == 0 .. 72 \ {Nul}
MCValues == {[k \in 1 .. n |-> 72] : n \in {0, 1, 5}}
=============================================================================
