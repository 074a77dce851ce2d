-------------------------- MODULE StdinStreamProof --------------------------
(***************************************************************************)
(* StdinStream for any size of the input, the chunks and the pipe.         *)
(*                                                                         *)
(* The argument: the units on the wire are numbered in its order, without  *)
(* a gap, and what the handler, the pipe and the script hold was taken     *)
(* from the wire in its order.  So whatever a read that is out of step     *)
(* takes for a body, nothing is repeated or reordered.  As long as no read *)
(* is torn the handler is at the beginning of a header whenever it looks   *)
(* for one, so it skips no unit, and what it reads goes on where what it   *)
(* has read ends.                                                          *)
(***************************************************************************)
EXTENDS StdinStream, SequenceTheorems, TLAPS

WireUnits == [kind : {"head"}, size : 0 .. MaxSize] \cup [kind : {"tail", "interrupt"}] \cup
             [kind : {"unit"}, number : 1 .. MaxTyped]

-----------------------------------------------------------------------------
(* What is on a wire w                                                     *)

UnitAt(w, i) == w[i].kind = "unit"
Begins(w, i) == w[i].kind \in {"head", "interrupt"}
Occurs(w, m) == \E i \in 1 .. Len(w) : UnitAt(w, i) /\ w[i].number = m

Increasing(w) == \A i, j \in 1 .. Len(w) :
    i < j /\ UnitAt(w, i) /\ UnitAt(w, j) => w[i].number < w[j].number
Dense(w) == \A i \in 1 .. Len(w) : UnitAt(w, i) => \A m \in 1 .. w[i].number : Occurs(w, m)
UpTo(w, n) == \A i \in 1 .. Len(w) : UnitAt(w, i) => w[i].number <= n

\* The body of size n of the header at p is all there, and nothing but a
\* header or an interrupt request follows.
Whole(w, p, n) ==
    /\ p + 1 + n <= Len(w)
    /\ \A k \in 1 .. n : UnitAt(w, p + 1 + k) /\ w[p + 1 + k].number = w[p + 2].number + k - 1
    /\ p + 1 + n = Len(w) \/ Begins(w, p + 2 + n)

\* Every header has its body, but the last one, of size n, while that is not
\* sent, and one that an interrupt request followed.
Framed(w, n) == \A p \in 1 .. Len(w) : w[p].kind = "head" /\ w[p].size > 0 =>
    /\ p + 1 <= Len(w) /\ w[p + 1].kind = "tail"
    /\ \/ Whole(w, p, w[p].size)
       \/ p + 1 = Len(w) /\ n = w[p].size
       \/ p + 2 <= Len(w) /\ w[p + 2].kind = "interrupt"

(* What was taken from a wire w up to t is s                               *)

Inc(s) == \A i, j \in 1 .. Len(s) : i < j /\ s[i] # Foreign /\ s[j] # Foreign => s[i] < s[j]
Behind(s, w, t) == \A i \in 1 .. Len(s), j \in t + 1 .. Len(w) :
    s[i] # Foreign /\ UnitAt(w, j) => s[i] < w[j].number
Bounded(s, n) == \A i \in 1 .. Len(s) : s[i] <= n
Identity(s) == \A i \in 1 .. Len(s) : s[i] = i

\* No unit was skipped.
Complete(s, w, t) == \A i \in 1 .. t : UnitAt(w, i) => w[i].number <= Len(s)

-----------------------------------------------------------------------------
(* The invariant                                                           *)

\* The units that have been sent, and the size of a body that has not.
Sent == IF client = "body" THEN typed - chunk ELSE typed
Open == IF client = "body" THEN chunk ELSE 0

WireOK ==
    /\ wire \in Seq(WireUnits)
    /\ Increasing(wire) /\ Dense(wire) /\ UpTo(wire, Sent) /\ Framed(wire, Open)
    /\ client # "gone" => \A m \in 1 .. Sent : Occurs(wire, m)
    /\ client = "body" => /\ chunk \in 1 .. typed
                          /\ Len(wire) >= 2 /\ wire[Len(wire)].kind = "tail"

\* What the handler holds where.
HandlerOK ==
    /\ server \in {"headers", "body"} => buff = <<>>
    /\ server = "write" => Len(buff) > 0
    /\ server = "body" => /\ size > 0 /\ taken >= 2
                          /\ wire[taken - 1].kind = "head" /\ wire[taken - 1].size = size

\* What was taken and is not lost.
Stream == (delivered \o pipe) \o buff
InOrder == /\ Stream \in Seq(Numbers)
           /\ Inc(Stream) /\ Bounded(Stream, Sent) /\ Behind(Stream, wire, taken)

\* Before a header, the next unit on the wire begins one.
Aligned == server \in {"headers", "write"} =>
    /\ taken = Len(wire) \/ Begins(wire, taken + 1)
    /\ client = "body" => taken + 2 <= Len(wire)

Straight == ~torn =>
    /\ Identity(Stream)
    /\ server # "ended" => Complete(Stream, wire, taken) /\ Aligned

IInv == TypeOK /\ WireOK /\ HandlerOK /\ InOrder /\ Straight

-----------------------------------------------------------------------------
(* Lemmas about wires and what is taken from them                          *)

LEMMA UnitTypes ==
    ASSUME NEW w \in Seq(WireUnits)
    PROVE  /\ Len(w) \in Nat
           /\ \A i \in 1 .. Len(w) : w[i] \in WireUnits
           /\ \A i \in 1 .. Len(w) : UnitAt(w, i) => w[i].number \in 1 .. MaxTyped
           /\ \A i \in 1 .. Len(w) : w[i].kind = "head" => w[i].size \in 0 .. MaxSize
<1>1. Len(w) \in Nat /\ \A i \in 1 .. Len(w) : w[i] \in WireUnits
  BY LenProperties, ElementOfSeq
<1>. QED
  BY <1>1 DEF UnitAt, WireUnits

\* What is written is added at the end.
LEMMA Written ==
    ASSUME NEW w \in Seq(WireUnits), NEW units \in Seq(WireUnits), NEW v, v = w \o units
    PROVE  /\ v \in Seq(WireUnits) /\ Len(w) \in Nat /\ Len(units) \in Nat /\ Len(v) \in Nat
           /\ Len(v) = Len(w) + Len(units)
           /\ \A i \in 1 .. Len(w) : v[i] = w[i]
           /\ \A i \in 1 .. Len(units) : v[Len(w) + i] = units[i]
           /\ \A i \in 1 .. Len(v) : i \in 1 .. Len(w) \/ i - Len(w) \in 1 .. Len(units)
<1>1. Len(w) \in Nat /\ Len(units) \in Nat
  BY LenProperties
<1>2. /\ v \in Seq(WireUnits)
      /\ Len(v) = Len(w) + Len(units)
      /\ \A i \in 1 .. Len(w) + Len(units) :
            v[i] = IF i <= Len(w) THEN w[i] ELSE units[i - Len(w)]
  BY ConcatProperties
<1>. QED
  BY <1>1, <1>2

\* What was complete stays so.
LEMMA WholeStays ==
    ASSUME NEW w \in Seq(WireUnits), NEW v \in Seq(WireUnits), Len(w) <= Len(v),
           \A i \in 1 .. Len(w) : v[i] = w[i],
           Len(v) = Len(w) \/ Begins(v, Len(w) + 1),
           NEW p \in 1 .. Len(w), NEW n \in Nat, n > 0, Whole(w, p, n)
    PROVE  Whole(v, p, n)
<1>1. Len(w) \in Nat /\ Len(v) \in Nat
  BY UnitTypes
<1>2. p + 1 + n <= Len(w)
  BY DEF Whole
<1>3. \A k \in 1 .. n : UnitAt(v, p + 1 + k) /\ v[p + 1 + k].number = v[p + 2].number + k - 1
  <2>. TAKE k \in 1 .. n
  <2>1. p + 1 + k \in 1 .. Len(w) /\ p + 2 \in 1 .. Len(w)
    BY <1>1, <1>2
  <2>. QED
    BY <2>1 DEF Whole, UnitAt
<1>4. p + 1 + n = Len(v) \/ Begins(v, p + 2 + n)
  <2>1. CASE p + 1 + n = Len(w)
    <3>1. p + 2 + n = Len(w) + 1
      BY <1>1, <2>1
    <3>. QED
      BY <2>1, <3>1
  <2>2. CASE p + 1 + n # Len(w)
    <3>1. p + 2 + n \in 1 .. Len(w) /\ Begins(w, p + 2 + n)
      BY <1>1, <1>2, <2>2 DEF Whole
    <3>. QED
      BY <3>1 DEF Begins
  <2>. QED
    BY <2>1, <2>2
<1>. QED
  BY <1>1, <1>2, <1>3, <1>4 DEF Whole

\* A header or an interrupt request is written behind w, where a body of size n
\* is missing; on v that is then there one of size m is.
HeaderWritten(w, n, head, v, m) ==
    /\ w \in Seq(WireUnits) /\ n \in Nat /\ Framed(w, n)
    /\ head \in WireUnits /\ head.kind \in {"head", "interrupt"}
    /\ n = 0 \/ head.kind = "interrupt"
    /\ v = w \o <<head, TailUnit>>
    /\ m \in Nat /\ (head.kind = "head" => m = head.size)
HeaderFollows(w, head, v, m) ==
    /\ v \in Seq(WireUnits) /\ Len(v) = Len(w) + 2
    /\ \A i \in 1 .. Len(w) : v[i] = w[i]
    /\ v[Len(w) + 1] = head /\ v[Len(w) + 2] = TailUnit
    /\ \A i \in 1 .. Len(v) : UnitAt(v, i) => i \in 1 .. Len(w) /\ UnitAt(w, i)
    /\ \A k : Occurs(w, k) => Occurs(v, k)
    /\ Increasing(w) => Increasing(v)
    /\ Dense(w) => Dense(v)
    /\ \A k : UpTo(w, k) => UpTo(v, k)
    /\ Framed(v, m)

LEMMA HeaderOnWire ==
    ASSUME NEW w, NEW n, NEW head, NEW v, NEW m, HeaderWritten(w, n, head, v, m)
    PROVE  HeaderFollows(w, head, v, m)
<1> USE DEF HeaderWritten
<1> DEFINE units == <<head, TailUnit>>
<1>1. units \in Seq(WireUnits) /\ Len(units) = 2 /\ units[1] = head /\ units[2] = TailUnit
  BY DEF WireUnits, TailUnit
<1>2. v = w \o units
  OBVIOUS
<1>. HIDE DEF units
<1>3. /\ v \in Seq(WireUnits) /\ Len(w) \in Nat /\ Len(v) = Len(w) + Len(units)
      /\ \A i \in 1 .. Len(w) : v[i] = w[i]
      /\ \A i \in 1 .. Len(units) : v[Len(w) + i] = units[i]
      /\ \A i \in 1 .. Len(v) : i \in 1 .. Len(w) \/ i - Len(w) \in 1 .. Len(units)
  BY <1>1, <1>2, Written
<1>4. Len(v) = Len(w) + 2 /\ v[Len(w) + 1] = head /\ v[Len(w) + 2] = TailUnit
  <2>1. 1 \in 1 .. Len(units) /\ 2 \in 1 .. Len(units)
    BY <1>1
  <2>2. v[Len(w) + 1] = units[1] /\ v[Len(w) + 2] = units[2]
    BY <1>3, <2>1
  <2>. QED
    BY <1>1, <1>3, <2>2
<1>5. \A i \in 1 .. Len(v) : i \in 1 .. Len(w) \/ i = Len(w) + 1 \/ i = Len(w) + 2
  BY <1>1, <1>3
<1>6. v[Len(w) + 2].kind = "tail" /\ v[Len(w) + 1].kind # "unit"
  BY <1>4 DEF TailUnit
<1>7. \A i \in 1 .. Len(v) : UnitAt(v, i) => i \in 1 .. Len(w) /\ UnitAt(w, i)
  BY <1>3, <1>5, <1>6 DEF UnitAt
<1>8. \A k : Occurs(w, k) => Occurs(v, k)
  <2>. SUFFICES ASSUME NEW k, NEW i \in 1 .. Len(w), UnitAt(w, i), w[i].number = k
                PROVE  Occurs(v, k)
    BY DEF Occurs
  <2>1. i \in 1 .. Len(v) /\ v[i] = w[i]
    BY <1>3, <1>4
  <2>. QED
    BY <2>1 DEF Occurs, UnitAt
<1>9. Increasing(w) => Increasing(v)
  BY <1>3, <1>7 DEF Increasing
<1>10. Dense(w) => Dense(v)
  BY <1>3, <1>7, <1>8 DEF Dense
<1>11. \A k : UpTo(w, k) => UpTo(v, k)
  BY <1>3, <1>7 DEF UpTo
<1>12. Framed(v, m)
  <2>. SUFFICES ASSUME NEW p \in 1 .. Len(v), v[p].kind = "head", v[p].size > 0
                PROVE  /\ p + 1 <= Len(v) /\ v[p + 1].kind = "tail"
                       /\ \/ Whole(v, p, v[p].size)
                          \/ p + 1 = Len(v) /\ m = v[p].size
                          \/ p + 2 <= Len(v) /\ v[p + 2].kind = "interrupt"
    BY DEF Framed
  <2>1. CASE p = Len(w) + 1
    <3>1. p + 1 = Len(w) + 2
      BY <1>3, <2>1
    <3>. QED
      BY <1>4, <1>6, <2>1, <3>1
  <2>2. CASE p \in 1 .. Len(w)
    <3>1. w[p].kind = "head" /\ w[p].size > 0 /\ v[p] = w[p] /\ w[p].size \in Nat
      BY <1>3, <2>2, UnitTypes
    <3>2. /\ p + 1 <= Len(w) /\ w[p + 1].kind = "tail"
          /\ \/ Whole(w, p, w[p].size)
             \/ p + 1 = Len(w) /\ n = w[p].size
             \/ p + 2 <= Len(w) /\ w[p + 2].kind = "interrupt"
      BY <2>2, <3>1 DEF Framed
    <3>3. p + 1 \in 1 .. Len(w) /\ p + 1 <= Len(v) /\ v[p + 1].kind = "tail"
      BY <1>3, <1>4, <3>2
    <3>4. CASE Whole(w, p, w[p].size)
      <4>1. Len(w) <= Len(v) /\ Begins(v, Len(w) + 1)
        BY <1>3, <1>4 DEF Begins
      <4>2. Whole(v, p, w[p].size)
        BY <1>3, <2>2, <3>1, <3>4, <4>1, WholeStays
      <4>. QED
        BY <3>1, <3>3, <4>2
    <3>5. CASE p + 1 = Len(w) /\ n = w[p].size
      <4>1. p + 2 = Len(w) + 1 /\ head.kind = "interrupt"
        BY <1>3, <3>1, <3>5
      <4>2. v[p + 2].kind = "interrupt"
        BY <1>4, <4>1
      <4>3. p + 2 <= Len(v)
        BY <1>3, <1>4, <4>1
      <4>. QED
        BY <3>3, <4>2, <4>3
    <3>6. CASE p + 2 <= Len(w) /\ w[p + 2].kind = "interrupt"
      <4>1. p + 2 \in 1 .. Len(w) /\ p + 2 <= Len(v)
        BY <1>3, <1>4, <3>6
      <4>. QED
        BY <1>3, <3>3, <3>6, <4>1
    <3>. QED
      BY <3>2, <3>4, <3>5, <3>6
  <2>3. p # Len(w) + 2
    BY <1>6
  <2>. QED
    BY <1>5, <2>1, <2>2, <2>3
<1>. QED
  BY <1>3, <1>4, <1>7, <1>8, <1>9, <1>10, <1>11, <1>12 DEF HeaderFollows

\* The n units of the missing body are written behind w, on which the units up
\* to s are.
BodyWritten(w, n, s, v) ==
    /\ w \in Seq(WireUnits) /\ Len(w) >= 2 /\ w[Len(w)].kind = "tail"
    /\ Framed(w, n) /\ Increasing(w) /\ Dense(w) /\ UpTo(w, s)
    /\ \A m \in 1 .. s : Occurs(w, m)
    /\ n \in Nat /\ n > 0 /\ s \in Nat /\ s + n <= MaxTyped
    /\ \E units \in Seq(WireUnits) :
          /\ Len(units) = n /\ \A i \in 1 .. n : units[i] = Unit(s + i)
          /\ v = w \o units
BodyFollows(w, n, s, v) ==
    /\ v \in Seq(WireUnits) /\ Len(v) = Len(w) + n
    /\ \A i \in 1 .. Len(w) : v[i] = w[i]
    /\ \A i \in 1 .. Len(v) : UnitAt(v, i) =>
          (i \in 1 .. Len(w) /\ UnitAt(w, i)) \/ (i > Len(w) /\ v[i].number > s)
    /\ Increasing(v) /\ Dense(v) /\ UpTo(v, s + n) /\ Framed(v, 0)
    /\ \A m \in 1 .. s + n : Occurs(v, m)

LEMMA BodyOnWire ==
    ASSUME NEW w, NEW n, NEW s, NEW v, BodyWritten(w, n, s, v)
    PROVE  BodyFollows(w, n, s, v)
<1>1. PICK units \in Seq(WireUnits) :
          /\ Len(units) = n /\ \A i \in 1 .. n : units[i] = Unit(s + i)
          /\ v = w \o units
  BY DEF BodyWritten
<1>. /\ w \in Seq(WireUnits) /\ n \in Nat /\ n > 0 /\ s \in Nat /\ s + n <= MaxTyped
  BY DEF BodyWritten
<1> USE DEF BodyWritten
<1>2. \A i \in 1 .. n : units[i].kind = "unit" /\ units[i].number = s + i
  BY <1>1 DEF Unit
<1>4. /\ v \in Seq(WireUnits) /\ Len(w) \in Nat /\ Len(v) = Len(w) + n
      /\ \A i \in 1 .. Len(w) : v[i] = w[i]
      /\ \A i \in 1 .. n : v[Len(w) + i] = units[i]
      /\ \A i \in 1 .. Len(v) : i \in 1 .. Len(w) \/ i - Len(w) \in 1 .. n
  <2>1. /\ v \in Seq(WireUnits) /\ Len(w) \in Nat /\ Len(v) = Len(w) + Len(units)
        /\ \A i \in 1 .. Len(w) : v[i] = w[i]
        /\ \A i \in 1 .. Len(units) : v[Len(w) + i] = units[i]
        /\ \A i \in 1 .. Len(v) : i \in 1 .. Len(w) \/ i - Len(w) \in 1 .. Len(units)
    <3>1. Len(w) \in Nat
      BY <1>1, LenProperties
    <3>2. v \in Seq(WireUnits)
      BY <1>1, Written
    <3>3. Len(v) = Len(w) + Len(units)
      BY <1>1, Written
    <3>4. \A i \in 1 .. Len(w) : v[i] = w[i]
      BY <1>1, Written
    <3>5. \A i \in 1 .. Len(units) : v[Len(w) + i] = units[i]
      BY <1>1, Written
    <3>6. \A i \in 1 .. Len(v) : i \in 1 .. Len(w) \/ i - Len(w) \in 1 .. Len(units)
      BY <1>1, Written
    <3>. QED
      BY <3>1, <3>2, <3>3, <3>4, <3>5, <3>6
  <2>. QED
    BY <1>1, <2>1
<1>5. \A i \in 1 .. n : UnitAt(v, Len(w) + i) /\ v[Len(w) + i].number = s + i
  BY <1>2, <1>4 DEF UnitAt
<1>6. \A i \in 1 .. Len(v) :
         \/ i \in 1 .. Len(w) /\ v[i] = w[i]
         \/ /\ i > Len(w) /\ UnitAt(v, i) /\ v[i].number = s + (i - Len(w))
            /\ i - Len(w) \in 1 .. n
  <2>. TAKE i \in 1 .. Len(v)
  <2>1. CASE i - Len(w) \in 1 .. n
    <3>1. i = Len(w) + (i - Len(w)) /\ i > Len(w)
      <4>1. Len(w) \in Nat /\ i \in Nat
        BY <1>4
      <4>. QED
        BY <2>1, <4>1
    <3>. QED
      BY <1>5, <2>1, <3>1
  <2>. QED
    BY <1>4, <2>1
<1>7. \A i \in 1 .. Len(w) : UnitAt(w, i) => w[i].number \in Nat /\ w[i].number <= s
  BY UnitTypes DEF UpTo
<1>8. \A i \in 1 .. Len(v) : UnitAt(v, i) => v[i].number \in Nat /\ v[i].number <= s + n
  BY <1>4, <1>6, <1>7 DEF UnitAt
<1>9. Increasing(v)
  <2>. SUFFICES ASSUME NEW i \in 1 .. Len(v), NEW j \in 1 .. Len(v), i < j,
                       UnitAt(v, i), UnitAt(v, j)
                PROVE  v[i].number < v[j].number
    BY DEF Increasing
  <2>1. CASE j \in 1 .. Len(w)
    <3>1. i \in 1 .. Len(w) /\ v[i] = w[i] /\ v[j] = w[j]
      BY <1>4, <2>1
    <3>. QED
      BY <2>1, <3>1 DEF Increasing, UnitAt
  <2>2. CASE i \in 1 .. Len(w) /\ j - Len(w) \in 1 .. n
    <3>1. v[j].number = s + (j - Len(w))
      BY <1>4, <1>6, <2>2
    <3>2. v[i].number \in Nat /\ v[i].number <= s
      BY <1>4, <1>7, <2>2 DEF UnitAt
    <3>. QED
      BY <1>4, <2>2, <3>1, <3>2
  <2>3. CASE i - Len(w) \in 1 .. n /\ j - Len(w) \in 1 .. n
    <3>1. v[i].number = s + (i - Len(w)) /\ v[j].number = s + (j - Len(w))
      BY <1>4, <1>6, <2>3
    <3>. QED
      BY <1>4, <2>3, <3>1
  <2>. QED
    BY <1>4, <2>1, <2>2, <2>3
<1>10. \A m \in 1 .. s + n : Occurs(v, m)
  <2>. TAKE m \in 1 .. s + n
  <2>1. CASE m <= s
    <3>. m \in 1 .. s
      BY <2>1
    <3>1. PICK i \in 1 .. Len(w) : UnitAt(w, i) /\ w[i].number = m
      BY DEF Occurs
    <3>2. i \in 1 .. Len(v) /\ v[i] = w[i]
      BY <1>4
    <3>. QED
      BY <3>1, <3>2 DEF Occurs, UnitAt
  <2>2. CASE m > s
    <3>1. m - s \in 1 .. n /\ s + (m - s) = m /\ Len(w) + (m - s) \in 1 .. Len(v)
      BY <1>4, <2>2
    <3>. QED
      BY <1>5, <3>1 DEF Occurs
  <2>. QED
    BY <2>1, <2>2
<1>11. Dense(v)
  <2>. SUFFICES ASSUME NEW i \in 1 .. Len(v), UnitAt(v, i), NEW m \in 1 .. v[i].number
                PROVE  Occurs(v, m)
    BY DEF Dense
  <2>1. m \in 1 .. s + n
    BY <1>8
  <2>. QED
    BY <1>10, <2>1
<1>12. UpTo(v, s + n)
  BY <1>8 DEF UpTo
<1>13. Framed(v, 0)
  <2>. SUFFICES ASSUME NEW p \in 1 .. Len(v), v[p].kind = "head", v[p].size > 0
                PROVE  /\ p + 1 <= Len(v) /\ v[p + 1].kind = "tail"
                       /\ \/ Whole(v, p, v[p].size)
                          \/ p + 2 <= Len(v) /\ v[p + 2].kind = "interrupt"
    BY DEF Framed
  <2>1. p \in 1 .. Len(w) /\ v[p] = w[p] /\ w[p].size \in Nat
    <3>1. p \in 1 .. Len(w) /\ v[p] = w[p]
      BY <1>6 DEF UnitAt
    <3>. QED
      BY <3>1, UnitTypes
  <2>2. /\ p + 1 <= Len(w) /\ w[p + 1].kind = "tail"
        /\ \/ Whole(w, p, w[p].size)
           \/ p + 1 = Len(w) /\ n = w[p].size
           \/ p + 2 <= Len(w) /\ w[p + 2].kind = "interrupt"
    BY <2>1 DEF Framed
  <2>3. p + 1 \in 1 .. Len(w) /\ p + 1 <= Len(v) /\ v[p + 1].kind = "tail"
    BY <1>4, <2>1, <2>2
  <2>4. CASE Whole(w, p, w[p].size)
    <3>1. p + 1 + w[p].size <= Len(w) /\ UnitAt(w, p + 1 + w[p].size)
      BY <2>1, <2>4 DEF Whole
    <3>2. p + 1 + w[p].size # Len(w)
      BY <3>1 DEF UnitAt
    <3>3. p + 2 + w[p].size \in 1 .. Len(w) /\ Begins(w, p + 2 + w[p].size)
      <4>1. p + 2 + w[p].size \in 1 .. Len(w)
        BY <1>4, <2>1, <3>1, <3>2, SMTT(60)
      <4>. QED
        BY <2>4, <3>2, <4>1 DEF Whole
    <3>4. Begins(v, p + 2 + w[p].size)
      BY <1>4, <3>3 DEF Begins
    <3>5. \A k \in 1 .. w[p].size :
             UnitAt(v, p + 1 + k) /\ v[p + 1 + k].number = v[p + 2].number + k - 1
      <4>. TAKE k \in 1 .. w[p].size
      <4>1. k \in Nat /\ k >= 1 /\ k <= w[p].size
        BY <2>1
      <4>2. p + 1 + k \in 1 .. Len(w) /\ p + 2 \in 1 .. Len(w)
        BY <1>4, <2>1, <3>1, <4>1
      <4>. QED
        BY <1>4, <2>4, <4>2 DEF Whole, UnitAt
    <3>6. p + 1 + w[p].size <= Len(v)
      BY <1>4, <2>1, <3>1
    <3>. QED
      BY <2>1, <2>3, <3>4, <3>5, <3>6 DEF Whole
  <2>5. CASE p + 1 = Len(w) /\ n = w[p].size
    <3>1. p + 2 = Len(w) + 1 /\ 1 \in 1 .. n
      BY <1>4, <2>1, <2>5
    <3>2. v[p + 2].number = s + 1
      BY <1>5, <3>1
    <3>3. \A k \in 1 .. n : UnitAt(v, p + 1 + k) /\ v[p + 1 + k].number = s + k
      BY <1>5, <2>5
    <3>4. \A k \in 1 .. n : v[p + 1 + k].number = v[p + 2].number + k - 1
      <4>. TAKE k \in 1 .. n
      <4>1. v[p + 1 + k].number = s + k
        BY <3>3
      <4>. QED
        BY <3>2, <4>1
    <3>5. p + 1 + n = Len(v)
      BY <1>4, <2>5
    <3>6. Whole(v, p, n)
      <4>1. p + 1 + n <= Len(v)
        BY <1>4, <3>5
      <4>. QED
        BY <3>3, <3>4, <3>5, <4>1 DEF Whole
    <3>. QED
      BY <2>1, <2>3, <2>5, <3>6
  <2>6. CASE p + 2 <= Len(w) /\ w[p + 2].kind = "interrupt"
    <3>1. p + 2 \in 1 .. Len(w) /\ p + 2 <= Len(v)
      BY <1>4, <2>1, <2>6
    <3>. QED
      BY <1>4, <2>3, <2>6, <3>1
  <2>. QED
    BY <2>2, <2>4, <2>5, <2>6
<1>14. \A i \in 1 .. Len(v) : UnitAt(v, i) =>
          (i \in 1 .. Len(w) /\ UnitAt(w, i)) \/ (i > Len(w) /\ v[i].number > s)
  BY <1>4, <1>6 DEF UnitAt
<1>. QED
  BY <1>4, <1>9, <1>10, <1>11, <1>12, <1>13, <1>14 DEF BodyFollows

\* What leaves the front of b goes to the end of a.
LEMMA Moved ==
    ASSUME NEW S, NEW a \in Seq(S), NEW b \in Seq(S), b # <<>>
    PROVE  /\ Append(a, Head(b)) \in Seq(S) /\ Tail(b) \in Seq(S)
           /\ Len(Append(a, Head(b))) = Len(a) + 1 /\ Len(Tail(b)) = Len(b) - 1
           /\ Append(a, Head(b)) \o Tail(b) = a \o b
<1>1. /\ Head(b) \in S /\ Tail(b) \in Seq(S) /\ Len(Tail(b)) = Len(b) - 1
      /\ \A i \in 1 .. Len(Tail(b)) : Tail(b)[i] = b[i + 1]
      /\ Head(b) = b[1]
  BY HeadTailProperties
<1>2. Len(a) \in Nat /\ Len(b) \in Nat \ {0}
  BY LenProperties, EmptySeq
<1>3. /\ Append(a, Head(b)) \in Seq(S) /\ Len(Append(a, Head(b))) = Len(a) + 1
      /\ \A i \in 1 .. Len(a) : Append(a, Head(b))[i] = a[i]
      /\ Append(a, Head(b))[Len(a) + 1] = Head(b)
  BY <1>1, AppendProperties
<1> DEFINE s == Append(a, Head(b))
           t == Tail(b)
<1>4. s \in Seq(S) /\ t \in Seq(S) /\ Len(s) = Len(a) + 1 /\ Len(t) = Len(b) - 1
  BY <1>1, <1>3
<1>5. /\ \A i \in 1 .. Len(a) : s[i] = a[i]
      /\ s[Len(a) + 1] = b[1]
      /\ \A i \in 1 .. Len(t) : t[i] = b[i + 1]
  BY <1>1, <1>3
<1>. HIDE DEF s, t
<1>6. /\ s \o t \in Seq(S) /\ Len(s \o t) = Len(s) + Len(t)
      /\ \A i \in 1 .. Len(s) + Len(t) : (s \o t)[i] = IF i <= Len(s) THEN s[i] ELSE t[i - Len(s)]
  BY <1>4, ConcatProperties
<1>7. /\ a \o b \in Seq(S) /\ Len(a \o b) = Len(a) + Len(b)
      /\ \A i \in 1 .. Len(a) + Len(b) : (a \o b)[i] = IF i <= Len(a) THEN a[i] ELSE b[i - Len(a)]
  BY ConcatProperties
<1>8. ASSUME NEW i \in 1 .. Len(s \o t) PROVE (s \o t)[i] = (a \o b)[i]
  <2>1. CASE i <= Len(a)
    BY <1>2, <1>4, <1>5, <1>6, <1>7, <2>1
  <2>2. CASE i = Len(a) + 1
    <3>1. (s \o t)[i] = b[1]
      BY <1>2, <1>4, <1>5, <1>6, <2>2
    <3>2. (a \o b)[i] = b[i - Len(a)] /\ i - Len(a) = 1
      BY <1>2, <1>7, <2>2
    <3>. QED
      BY <3>1, <3>2
  <2>3. CASE i > Len(a) + 1
    <3>1. (s \o t)[i] = t[i - Len(s)] /\ i - Len(s) \in 1 .. Len(t)
      BY <1>2, <1>4, <1>6, <2>3
    <3>2. t[i - Len(s)] = b[(i - Len(s)) + 1] /\ (i - Len(s)) + 1 = i - Len(a)
      BY <1>2, <1>4, <1>5, <3>1
    <3>3. (a \o b)[i] = b[i - Len(a)]
      BY <1>2, <1>4, <1>6, <1>7, <2>3
    <3>. QED
      BY <3>1, <3>2, <3>3
  <2>. QED
    BY <1>2, <1>4, <1>6, <2>1, <2>2, <2>3
<1>9. s \o t = a \o b
  <2>1. Len(s \o t) = Len(a \o b)
    BY <1>2, <1>4, <1>6, <1>7
  <2>2. s \o t \in Seq(S) /\ a \o b \in Seq(S)
    BY <1>6, <1>7
  <2>. QED
    BY <1>8, <2>1, <2>2, SeqEqual
<1>. QED
  BY <1>1, <1>3, <1>9 DEF s, t

\* The next n units of the wire w are taken.
LEMMA TakenInOrder ==
    ASSUME NEW w \in Seq(WireUnits), Increasing(w), NEW k \in Nat, UpTo(w, k),
           NEW t \in Nat, NEW n \in Nat, t + n <= Len(w),
           NEW s \in Seq(Numbers), Inc(s), Bounded(s, k), Behind(s, w, t),
           NEW c \in Seq(Numbers), Len(c) = n,
           \A i \in 1 .. n : c[i] = IF UnitAt(w, t + i) THEN w[t + i].number ELSE Foreign
    PROVE  /\ s \o c \in Seq(Numbers) /\ Inc(s \o c) /\ Bounded(s \o c, k)
           /\ Behind(s \o c, w, t + n)
<1>1. /\ Len(w) \in Nat
      /\ \A i \in 1 .. Len(w) : UnitAt(w, i) => w[i].number \in Nat /\ w[i].number <= k
  BY UnitTypes, BoundsAssumption DEF UpTo
<1>2. /\ Len(s) \in Nat
      /\ \A i \in 1 .. Len(s) : s[i] \in Nat
  BY LenProperties, ElementOfSeq, BoundsAssumption DEF Numbers
<1> DEFINE v == s \o c
<1>3. /\ v \in Seq(Numbers) /\ Len(v) = Len(s) + n
      /\ \A i \in 1 .. Len(s) + n : v[i] = IF i <= Len(s) THEN s[i] ELSE c[i - Len(s)]
  BY ConcatProperties
<1>. HIDE DEF v
<1>4. ASSUME NEW i \in 1 .. Len(v)
      PROVE  \/ i \in 1 .. Len(s) /\ v[i] = s[i]
             \/ i > Len(s) /\ v[i] = Foreign
             \/ /\ i > Len(s) /\ i - Len(s) \in 1 .. n
                /\ t + (i - Len(s)) \in t + 1 .. Len(w) /\ UnitAt(w, t + (i - Len(s)))
                /\ v[i] = w[t + (i - Len(s))].number
  <2>1. CASE i <= Len(s)
    BY <1>2, <1>3, <2>1
  <2>2. CASE i > Len(s)
    <3>1. i - Len(s) \in 1 .. n /\ v[i] = c[i - Len(s)]
      BY <1>2, <1>3, <2>2
    <3>2. c[i - Len(s)] = IF UnitAt(w, t + (i - Len(s)))
                            THEN w[t + (i - Len(s))].number ELSE Foreign
      BY <3>1
    <3>3. t + (i - Len(s)) \in t + 1 .. Len(w)
      BY <1>1, <3>1
    <3>. QED
      BY <2>2, <3>1, <3>2, <3>3
  <2>. QED
    BY <1>2, <1>3, <2>1, <2>2
<1>5. \A i \in t + 1 .. Len(w) : i \in 1 .. Len(w)
  BY <1>1
<1>6. Inc(v)
  <2>. SUFFICES ASSUME NEW i \in 1 .. Len(v), NEW j \in 1 .. Len(v), i < j,
                       v[i] # Foreign, v[j] # Foreign
                PROVE  v[i] < v[j]
    BY DEF Inc
  <2>1. CASE i \in 1 .. Len(s) /\ v[i] = s[i] /\ j \in 1 .. Len(s) /\ v[j] = s[j]
    BY <2>1 DEF Inc
  <2>2. CASE i \in 1 .. Len(s) /\ v[i] = s[i] /\ j > Len(s)
    <3>1. /\ t + (j - Len(s)) \in t + 1 .. Len(w) /\ UnitAt(w, t + (j - Len(s)))
          /\ v[j] = w[t + (j - Len(s))].number
      BY <1>2, <1>4, <2>2
    <3>. QED
      BY <2>2, <3>1 DEF Behind
  <2>3. CASE i > Len(s) /\ j > Len(s)
    <3>1. /\ t + (i - Len(s)) \in 1 .. Len(w) /\ UnitAt(w, t + (i - Len(s)))
          /\ v[i] = w[t + (i - Len(s))].number
      BY <1>2, <1>4, <1>5, <2>3
    <3>2. /\ t + (j - Len(s)) \in 1 .. Len(w) /\ UnitAt(w, t + (j - Len(s)))
          /\ v[j] = w[t + (j - Len(s))].number
      BY <1>2, <1>4, <1>5, <2>3
    <3>3. t + (i - Len(s)) < t + (j - Len(s))
      BY <1>2, <1>3
    <3>. QED
      BY <3>1, <3>2, <3>3 DEF Increasing
  <2>4. i \in Nat /\ j \in Nat
    OBVIOUS
  <2>5. i \in 1 .. Len(s) => v[i] = s[i]
    BY <1>2, <1>3
  <2>6. j \in 1 .. Len(s) => v[j] = s[j]
    BY <1>2, <1>3
  <2>. QED
    BY <1>2, <2>1, <2>2, <2>3, <2>4, <2>5, <2>6
<1>7. Bounded(v, k)
  <2>. SUFFICES ASSUME NEW i \in 1 .. Len(v) PROVE v[i] <= k
    BY DEF Bounded
  <2>1. CASE i \in 1 .. Len(s) /\ v[i] = s[i]
    BY <2>1 DEF Bounded
  <2>2. CASE v[i] = Foreign
    BY <2>2 DEF Foreign
  <2>3. CASE /\ t + (i - Len(s)) \in t + 1 .. Len(w) /\ UnitAt(w, t + (i - Len(s)))
             /\ v[i] = w[t + (i - Len(s))].number
    BY <1>1, <1>5, <2>3
  <2>. QED
    BY <1>4, <2>1, <2>2, <2>3
<1>8. Behind(v, w, t + n)
  <2>. SUFFICES ASSUME NEW i \in 1 .. Len(v), NEW j \in t + n + 1 .. Len(w),
                       v[i] # Foreign, UnitAt(w, j)
                PROVE  v[i] < w[j].number
    BY DEF Behind
  <2>1. j \in t + 1 .. Len(w) /\ j \in 1 .. Len(w)
    BY <1>1
  <2>2. CASE i \in 1 .. Len(s) /\ v[i] = s[i]
    BY <2>1, <2>2 DEF Behind
  <2>3. CASE /\ i > Len(s) /\ i - Len(s) \in 1 .. n
             /\ t + (i - Len(s)) \in t + 1 .. Len(w) /\ UnitAt(w, t + (i - Len(s)))
             /\ v[i] = w[t + (i - Len(s))].number
    <3>1. t + (i - Len(s)) < j /\ t + (i - Len(s)) \in 1 .. Len(w)
      BY <1>1, <1>2, <1>5, <2>3
    <3>. QED
      BY <2>1, <2>3, <3>1 DEF Increasing
  <2>. QED
    BY <1>4, <2>2, <2>3
<1>. QED
  BY <1>3, <1>6, <1>7, <1>8 DEF v

\* A whole body of n units is taken, and none was skipped before.
LEMMA TakenWithoutGap ==
    ASSUME NEW w \in Seq(WireUnits), Increasing(w), Dense(w),
           NEW t \in Nat, NEW n \in Nat, n > 0, t >= 2, Whole(w, t - 1, n),
           NEW s \in Seq(Numbers), Identity(s), Behind(s, w, t), Complete(s, w, t),
           NEW c \in Seq(Numbers), Len(c) = n,
           \A i \in 1 .. n : c[i] = IF UnitAt(w, t + i) THEN w[t + i].number ELSE Foreign
    PROVE  Identity(s \o c) /\ Complete(s \o c, w, t + n)
<1>1. /\ Len(w) \in Nat /\ Len(s) \in Nat
      /\ \A i \in 1 .. Len(w) : UnitAt(w, i) => w[i].number \in Nat /\ w[i].number >= 1
  BY UnitTypes, LenProperties, BoundsAssumption
<1>2. t + n <= Len(w)
  BY DEF Whole
<1>3. \A k \in 1 .. n : UnitAt(w, t + k) /\ w[t + k].number = w[t + 1].number + k - 1
  <2>. TAKE k \in 1 .. n
  <2>1. t - 1 + 1 + k = t + k /\ t - 1 + 2 = t + 1
    OBVIOUS
  <2>. QED
    BY <2>1 DEF Whole
<1> DEFINE first == w[t + 1].number
<1>4. t + 1 \in 1 .. Len(w) /\ UnitAt(w, t + 1) /\ first \in Nat /\ first >= 1
  BY <1>1, <1>2, <1>3
<1>5. first = Len(s) + 1
  <2>1. first > Len(s)
    <3>1. CASE Len(s) = 0
      BY <1>4, <3>1
    <3>2. CASE Len(s) > 0
      <4>1. Len(s) \in 1 .. Len(s) /\ t + 1 \in t + 1 .. Len(w) /\ Len(s) # Foreign
        BY <1>1, <1>4, <3>2 DEF Foreign
      <4>2. s[Len(s)] = Len(s)
        BY <4>1 DEF Identity
      <4>3. s[Len(s)] < first
        BY <1>4, <4>1, <4>2 DEF Behind
      <4>. QED
        BY <1>1, <1>4, <4>2, <4>3
    <3>. QED
      BY <1>1, <3>1, <3>2
  <2>2. ASSUME first > Len(s) + 1 PROVE FALSE
    <3>1. Len(s) + 1 \in 1 .. first
      BY <1>1, <1>4, <2>2
    <3>2. PICK i \in 1 .. Len(w) : UnitAt(w, i) /\ w[i].number = Len(s) + 1
      BY <1>4, <3>1 DEF Dense, Occurs
    <3>3. i < t + 1
      <4>1. CASE i = t + 1
        BY <1>1, <2>2, <3>2, <4>1
      <4>2. CASE t + 1 < i
        <5>1. first < w[i].number
          BY <1>4, <3>2, <4>2 DEF Increasing
        <5>. QED
          BY <1>1, <1>4, <2>2, <3>2, <5>1
      <4>. QED
        BY <1>4, <4>1, <4>2
    <3>4. w[i].number <= Len(s)
      BY <3>2, <3>3 DEF Complete
    <3>. QED
      BY <1>1, <3>2, <3>4
  <2>. QED
    BY <1>1, <1>4, <2>1, <2>2
<1>6. \A k \in 1 .. n : UnitAt(w, t + k) /\ w[t + k].number = Len(s) + k /\ c[k] = Len(s) + k
  <2>. TAKE k \in 1 .. n
  <2>1. UnitAt(w, t + k) /\ w[t + k].number = first + k - 1 /\ c[k] = w[t + k].number
    BY <1>3
  <2>. QED
    BY <1>1, <1>5, <2>1
<1>. HIDE DEF first
<1>7. /\ Len(s \o c) = Len(s) + n
      /\ \A i \in 1 .. Len(s) + n : (s \o c)[i] = IF i <= Len(s) THEN s[i] ELSE c[i - Len(s)]
  BY ConcatProperties
<1>8. Identity(s \o c)
  <2>. SUFFICES ASSUME NEW i \in 1 .. Len(s) + n PROVE (s \o c)[i] = i
    BY <1>7 DEF Identity
  <2>1. CASE i <= Len(s)
    <3>1. i \in 1 .. Len(s) /\ (s \o c)[i] = s[i]
      BY <1>1, <1>7, <2>1
    <3>. QED
      BY <3>1 DEF Identity
  <2>2. CASE i > Len(s)
    <3>1. i - Len(s) \in 1 .. n /\ (s \o c)[i] = c[i - Len(s)]
      BY <1>1, <1>7, <2>2
    <3>2. c[i - Len(s)] = Len(s) + (i - Len(s))
      BY <1>6, <3>1
    <3>. QED
      BY <1>1, <3>1, <3>2
  <2>. QED
    BY <1>1, <2>1, <2>2
<1>9. Complete(s \o c, w, t + n)
  <2>. SUFFICES ASSUME NEW i \in 1 .. t + n, UnitAt(w, i) PROVE w[i].number <= Len(s) + n
    BY <1>7 DEF Complete
  <2>1. CASE i <= t
    <3>1. i \in 1 .. t /\ w[i].number \in Nat
      BY <1>1, <1>2, <2>1
    <3>2. w[i].number <= Len(s)
      BY <3>1 DEF Complete
    <3>. QED
      BY <1>1, <3>1, <3>2
  <2>2. CASE i > t
    <3>1. i - t \in 1 .. n /\ t + (i - t) = i
      BY <2>2
    <3>2. w[i].number = Len(s) + (i - t)
      BY <1>6, <3>1
    <3>. QED
      BY <1>1, <3>1, <3>2
  <2>. QED
    BY <2>1, <2>2
<1>. QED
  BY <1>8, <1>9

-----------------------------------------------------------------------------
(* The invariant                                                           *)

LEMMA Facts ==
    ASSUME IInv
    PROVE  /\ Len(wire) \in Nat /\ Len(delivered) \in Nat /\ Len(pipe) \in Nat /\ Len(buff) \in Nat
           /\ typed \in Nat /\ chunk \in Nat /\ size \in Nat /\ arrived \in Nat /\ taken \in Nat
           /\ taken <= arrived /\ arrived <= Len(wire)
           /\ Sent \in Nat /\ Sent <= typed /\ typed <= MaxTyped
           /\ Len(Stream) = Len(delivered) + Len(pipe) + Len(buff)
           /\ \A i \in 1 .. Len(delivered) : Stream[i] = delivered[i]
<1>1. Len(wire) \in Nat /\ Len(delivered) \in Nat /\ Len(pipe) \in Nat /\ Len(buff) \in Nat
  BY LenProperties DEF IInv, TypeOK, WireOK
<1>2. /\ typed \in Nat /\ chunk \in Nat /\ size \in Nat /\ arrived \in Nat /\ taken \in Nat
      /\ taken <= arrived /\ arrived <= Len(wire) /\ typed <= MaxTyped
  BY <1>1, BoundsAssumption DEF IInv, TypeOK, Numbers
<1>3. Sent \in Nat /\ Sent <= typed
  BY <1>1, <1>2 DEF Sent, IInv, WireOK
<1>4. /\ delivered \o pipe \in Seq(Numbers)
      /\ Len(delivered \o pipe) = Len(delivered) + Len(pipe)
      /\ \A i \in 1 .. Len(delivered) : (delivered \o pipe)[i] = delivered[i]
  BY <1>1, ConcatProperties DEF IInv, TypeOK
<1>5. /\ Len(Stream) = Len(delivered \o pipe) + Len(buff)
      /\ \A i \in 1 .. Len(delivered \o pipe) : Stream[i] = (delivered \o pipe)[i]
  BY <1>1, <1>4, ConcatProperties DEF Stream, IInv, TypeOK
<1>6. \A i \in 1 .. Len(delivered) : Stream[i] = delivered[i]
  <2>. TAKE i \in 1 .. Len(delivered)
  <2>1. i \in 1 .. Len(delivered \o pipe)
    BY <1>1, <1>4
  <2>. QED
    BY <1>4, <1>5, <2>1
<1>. QED
  BY <1>1, <1>2, <1>3, <1>4, <1>5, <1>6

\* Before the client has read anything.
LEMMA Initial == Init => IInv
<1> SUFFICES ASSUME Init PROVE IInv
  OBVIOUS
<1>1. /\ client = "select" /\ typed = 0 /\ chunk = 0 /\ wire = <<>> /\ arrived = 0 /\ taken = 0
      /\ server = "headers" /\ size = 0 /\ buff = <<>> /\ torn = FALSE /\ pipe = <<>>
      /\ delivered = <<>>
  BY DEF Init
<1>2. <<>> \in Seq(WireUnits) /\ <<>> \in Seq(Numbers) /\ Len(<<>>) = 0
  BY EmptySeq
<1>3. Stream = <<>> /\ Len(Stream) = 0
  <2>1. <<>> \o <<>> = <<>>
    BY <1>2, ConcatEmptySeq
  <2>. QED
    BY <1>1, <1>2, <2>1 DEF Stream
<1>4. TypeOK
  <2>1. Len(wire) = 0 /\ Len(pipe) = 0 /\ Len(buff) = 0
    BY <1>1, <1>2
  <2>2. 0 \in Numbers /\ 0 \in 0 .. MaxSize /\ 0 <= PipeSize
    BY BoundsAssumption DEF Numbers
  <2>3. arrived \in 0 .. Len(wire) /\ taken \in 0 .. arrived
    BY <1>1, <2>1
  <2>4. buff \in Seq(Numbers) /\ Len(buff) <= size
    BY <1>1, <1>2
  <2>5. pipe \in Seq(Numbers) /\ Len(pipe) <= PipeSize
    BY <1>1, <1>2, <2>2
  <2>. QED
    BY <1>1, <1>2, <2>2, <2>3, <2>4, <2>5 DEF TypeOK
<1>5. WireOK
  BY <1>1, <1>2 DEF WireOK, Increasing, Dense, UpTo, Framed, Sent
<1>6. HandlerOK
  BY <1>1 DEF HandlerOK
<1>7. InOrder
  BY <1>1, <1>2, <1>3 DEF InOrder, Inc, Bounded, Behind
<1>8. Straight
  BY <1>1, <1>2, <1>3 DEF Straight, Identity, Complete, Aligned
<1>. QED
  BY <1>4, <1>5, <1>6, <1>7, <1>8 DEF IInv

-----------------------------------------------------------------------------
(* The client                                                              *)

\* A header, or an interrupt request, and its tail.
LEMMA HeaderSent ==
    ASSUME IInv, NEW head \in WireUnits, Send(<<head, TailUnit>>),
           client # "gone",
           \/ head.kind = "interrupt" /\ client' = "gone" /\ UNCHANGED <<typed, chunk>>
           \/ /\ head.kind = "head" /\ head.size = 0
              /\ client = "select" /\ client' = "eof" /\ UNCHANGED <<typed, chunk>>
           \/ /\ head.kind = "head" /\ head.size > 0
              /\ client = "select" /\ client' = "body" /\ chunk' = head.size
              /\ typed' = typed + chunk' /\ typed' <= MaxTyped,
           UNCHANGED <<serverVars, pipe, delivered>>
    PROVE  IInv'
<1>1. /\ Len(wire) \in Nat /\ typed \in Nat /\ chunk \in Nat /\ size \in Nat
      /\ arrived \in Nat /\ taken \in Nat /\ taken <= arrived /\ arrived <= Len(wire)
      /\ Sent \in Nat /\ Sent <= typed /\ typed <= MaxTyped
  BY Facts
<1>2. /\ wire' = wire \o <<head, TailUnit>> /\ arrived' = arrived
      /\ taken' = taken /\ server' = server /\ size' = size /\ buff' = buff /\ torn' = torn
      /\ pipe' = pipe /\ delivered' = delivered
  BY DEF Send, serverVars
<1>3. head.kind = "head" => head.size \in Nat /\ head.size <= MaxSize
  BY BoundsAssumption DEF WireUnits
<1>4. /\ wire \in Seq(WireUnits) /\ Increasing(wire) /\ Dense(wire) /\ UpTo(wire, Sent)
      /\ Framed(wire, Open)
      /\ \A m \in 1 .. Sent : Occurs(wire, m)
  BY DEF IInv, WireOK
<1>5. /\ Open \in Nat /\ (Open = 0 \/ head.kind = "interrupt")
      /\ head.kind \in {"head", "interrupt"}
  BY <1>1 DEF Open
<1>6. Open' \in Nat /\ (head.kind = "head" => Open' = head.size)
  BY <1>1, <1>3 DEF Open
<1>7. /\ wire' \in Seq(WireUnits) /\ Len(wire') = Len(wire) + 2
      /\ \A i \in 1 .. Len(wire) : wire'[i] = wire[i]
      /\ wire'[Len(wire) + 1] = head /\ wire'[Len(wire) + 2] = TailUnit
      /\ \A i \in 1 .. Len(wire') : UnitAt(wire', i) => i \in 1 .. Len(wire) /\ UnitAt(wire, i)
      /\ \A k : Occurs(wire, k) => Occurs(wire', k)
      /\ Increasing(wire') /\ Dense(wire') /\ UpTo(wire', Sent) /\ Framed(wire', Open')
  <2>1. HeaderWritten(wire, Open, head, wire', Open')
    BY <1>2, <1>4, <1>5, <1>6 DEF HeaderWritten
  <2>2. HeaderFollows(wire, head, wire', Open')
    BY <2>1, HeaderOnWire
  <2>. QED
    BY <1>4, <2>2 DEF HeaderFollows
<1>8. Sent' \in Nat /\ Sent <= Sent' /\ (client' # "gone" => Sent' = Sent)
  <2>1. CASE client = "select"
    BY <1>1, <1>3, <2>1 DEF Sent
  <2>2. CASE client # "select"
    BY <1>1, <2>2 DEF Sent
  <2>. QED
    BY <2>1, <2>2
<1>9. TypeOK'
  <2>1. client' \in {"select", "body", "eof", "gone"}
    OBVIOUS
  <2>2. typed' \in Numbers /\ chunk' \in 0 .. MaxSize
    BY <1>1, <1>3, BoundsAssumption DEF IInv, TypeOK, Numbers
  <2>3. arrived' \in 0 .. Len(wire') /\ taken' \in 0 .. arrived'
    BY <1>1, <1>2, <1>7
  <2>. QED
    BY <1>2, <2>1, <2>2, <2>3 DEF IInv, TypeOK
<1>10. WireOK'
  <2>1. UpTo(wire', Sent')
    <3>. SUFFICES ASSUME NEW i \in 1 .. Len(wire'), UnitAt(wire', i) PROVE wire'[i].number <= Sent'
      BY DEF UpTo
    <3>1. wire'[i].number \in Nat /\ wire'[i].number <= Sent
      BY <1>7, UnitTypes, BoundsAssumption DEF UpTo
    <3>. QED
      BY <1>1, <1>8, <3>1
  <2>2. client' # "gone" => \A m \in 1 .. Sent' : Occurs(wire', m)
    BY <1>4, <1>7, <1>8
  <2>3. client' = "body" => chunk' \in 1 .. typed'
    BY <1>1, <1>3
  <2>4. Len(wire') >= 2 /\ wire'[Len(wire')].kind = "tail"
    BY <1>1, <1>7 DEF TailUnit
  <2>. QED
    BY <1>7, <2>1, <2>2, <2>3, <2>4 DEF WireOK
<1>11. HandlerOK'
  <2>1. server = "body" => taken - 1 \in 1 .. Len(wire)
    BY <1>1 DEF IInv, HandlerOK
  <2>. QED
    BY <1>2, <1>7, <2>1 DEF IInv, HandlerOK
<1>12. Stream' = Stream
  BY <1>2 DEF Stream
<1>13. InOrder'
  <2>1. \A i \in 1 .. Len(Stream) : Stream[i] \in Nat
    BY ElementOfSeq, BoundsAssumption DEF IInv, InOrder, Numbers
  <2>2. Bounded(Stream, Sent')
    BY <1>1, <1>8, <2>1 DEF IInv, InOrder, Bounded
  <2>3. Behind(Stream, wire', taken)
    <3>. SUFFICES ASSUME NEW i \in 1 .. Len(Stream), NEW j \in taken + 1 .. Len(wire'),
                         Stream[i] # Foreign, UnitAt(wire', j)
                  PROVE  Stream[i] < wire'[j].number
      BY DEF Behind
    <3>1. j \in taken + 1 .. Len(wire) /\ UnitAt(wire, j) /\ wire'[j] = wire[j]
      BY <1>1, <1>7
    <3>. QED
      BY <3>1 DEF IInv, InOrder, Behind
  <2>. QED
    BY <1>2, <1>12, <2>2, <2>3 DEF IInv, InOrder
<1>14. Straight'
  <2>. SUFFICES ASSUME ~torn, server # "ended"
                PROVE  Complete(Stream, wire', taken) /\ Aligned'
    BY <1>2, <1>12 DEF IInv, Straight
  <2>1. Complete(Stream, wire', taken)
    <3>. SUFFICES ASSUME NEW i \in 1 .. taken, UnitAt(wire', i) PROVE wire'[i].number <= Len(Stream)
      BY DEF Complete
    <3>1. UnitAt(wire, i) /\ wire'[i] = wire[i]
      BY <1>1, <1>7
    <3>. QED
      BY <3>1 DEF IInv, Straight, Complete
  <2>2. ASSUME server \in {"headers", "write"}
        PROVE  (taken = Len(wire') \/ Begins(wire', taken + 1)) /\ taken + 2 <= Len(wire')
    <3>1. CASE taken = Len(wire)
      BY <1>1, <1>5, <1>7, <3>1 DEF Begins
    <3>2. CASE taken # Len(wire)
      <4>1. Begins(wire, taken + 1) /\ taken + 1 \in 1 .. Len(wire)
        BY <1>1, <2>2, <3>2 DEF IInv, Straight, Aligned
      <4>. QED
        BY <1>1, <1>7, <4>1 DEF Begins
    <3>. QED
      BY <3>1, <3>2
  <2>. QED
    BY <1>2, <2>1, <2>2 DEF Aligned
<1>. QED
  BY <1>9, <1>10, <1>11, <1>13, <1>14 DEF IInv

\* The body, behind its header.
LEMMA BodySent ==
    ASSUME IInv, SendBody
    PROVE  IInv'
<1> DEFINE units == [i \in 1 .. chunk |-> Unit(typed - chunk + i)]
<1>1. /\ Len(wire) \in Nat /\ typed \in Nat /\ chunk \in Nat /\ size \in Nat
      /\ arrived \in Nat /\ taken \in Nat /\ taken <= arrived /\ arrived <= Len(wire)
      /\ Sent \in Nat /\ Sent <= typed /\ typed <= MaxTyped
  BY Facts
<1>2. /\ client = "body" /\ client' = "select" /\ typed' = typed /\ chunk' = chunk
      /\ wire' = wire \o units /\ arrived' = arrived
      /\ taken' = taken /\ server' = server /\ size' = size /\ buff' = buff /\ torn' = torn
      /\ pipe' = pipe /\ delivered' = delivered
  BY DEF SendBody, Send, serverVars
<1>3. /\ wire \in Seq(WireUnits) /\ Increasing(wire) /\ Dense(wire) /\ UpTo(wire, Sent)
      /\ Framed(wire, chunk) /\ \A m \in 1 .. Sent : Occurs(wire, m)
      /\ chunk \in 1 .. typed /\ Len(wire) >= 2 /\ wire[Len(wire)].kind = "tail"
  BY <1>2 DEF IInv, WireOK, Open
<1>4. Sent = typed - chunk /\ Sent' = typed /\ Open' = 0 /\ Sent + chunk = typed
  BY <1>1, <1>2 DEF Sent, Open
<1>5. /\ units \in Seq(WireUnits) /\ Len(units) = chunk
      /\ \A i \in 1 .. chunk : units[i] = Unit(Sent + i)
  <2>1. \A i \in 1 .. chunk : Unit(typed - chunk + i) \in WireUnits
    BY <1>1, <1>3, BoundsAssumption DEF Unit, WireUnits
  <2>. QED
    BY <1>1, <1>4, <2>1, SeqDef
<1>. HIDE DEF units
<1>6. /\ wire' \in Seq(WireUnits) /\ Len(wire') = Len(wire) + chunk
      /\ \A i \in 1 .. Len(wire) : wire'[i] = wire[i]
      /\ \A i \in 1 .. Len(wire') : UnitAt(wire', i) =>
            (i \in 1 .. Len(wire) /\ UnitAt(wire, i)) \/ (i > Len(wire) /\ wire'[i].number > Sent)
      /\ Increasing(wire') /\ Dense(wire') /\ UpTo(wire', Sent + chunk) /\ Framed(wire', 0)
      /\ \A m \in 1 .. Sent + chunk : Occurs(wire', m)
  <2>1. chunk > 0 /\ Sent + chunk <= MaxTyped
    BY <1>1, <1>3, <1>4
  <2>2. BodyWritten(wire, chunk, Sent, wire')
    BY <1>1, <1>2, <1>3, <1>5, <2>1 DEF BodyWritten
  <2>3. BodyFollows(wire, chunk, Sent, wire')
    BY <2>2, BodyOnWire
  <2>. QED
    BY <2>3 DEF BodyFollows
<1>7. TypeOK'
  BY <1>1, <1>2, <1>3, <1>6 DEF IInv, TypeOK
<1>8. WireOK'
  BY <1>2, <1>4, <1>6 DEF WireOK
<1>9. HandlerOK'
  <2>1. server = "body" => taken - 1 \in 1 .. Len(wire)
    BY <1>1 DEF IInv, HandlerOK
  <2>. QED
    BY <1>2, <1>6, <2>1 DEF IInv, HandlerOK
<1>10. Stream' = Stream
  BY <1>2 DEF Stream
<1>11. InOrder'
  <2>1. \A i \in 1 .. Len(Stream) : Stream[i] \in Nat /\ Stream[i] <= Sent
    BY ElementOfSeq, BoundsAssumption DEF IInv, InOrder, Numbers, Bounded
  <2>2. Bounded(Stream, typed)
    BY <1>1, <2>1 DEF Bounded
  <2>3. Behind(Stream, wire', taken)
    <3>. SUFFICES ASSUME NEW i \in 1 .. Len(Stream), NEW j \in taken + 1 .. Len(wire'),
                         Stream[i] # Foreign, UnitAt(wire', j)
                  PROVE  Stream[i] < wire'[j].number
      BY DEF Behind
    <3>1. j \in 1 .. Len(wire')
      BY <1>1, <1>6
    <3>2. CASE j \in 1 .. Len(wire) /\ UnitAt(wire, j)
      <4>1. j \in taken + 1 .. Len(wire) /\ wire'[j] = wire[j]
        BY <1>1, <1>6, <3>2
      <4>. QED
        BY <3>2, <4>1 DEF IInv, InOrder, Behind
    <3>3. CASE wire'[j].number > Sent
      <4>1. wire'[j].number \in Nat
        BY <1>6, <3>1, UnitTypes, BoundsAssumption
      <4>. QED
        BY <1>1, <2>1, <3>3, <4>1
    <3>. QED
      BY <1>6, <3>1, <3>2, <3>3
  <2>. QED
    BY <1>2, <1>4, <1>10, <2>2, <2>3 DEF IInv, InOrder
<1>12. Straight'
  <2>. SUFFICES ASSUME ~torn, server # "ended"
                PROVE  Complete(Stream, wire', taken) /\ Aligned'
    BY <1>2, <1>10 DEF IInv, Straight
  <2>1. Complete(Stream, wire', taken)
    <3>. SUFFICES ASSUME NEW i \in 1 .. taken, UnitAt(wire', i) PROVE wire'[i].number <= Len(Stream)
      BY DEF Complete
    <3>1. UnitAt(wire, i) /\ wire'[i] = wire[i]
      BY <1>1, <1>6 DEF UnitAt
    <3>. QED
      BY <3>1 DEF IInv, Straight, Complete
  <2>2. ASSUME server \in {"headers", "write"} PROVE Begins(wire', taken + 1)
    <3>1. Begins(wire, taken + 1) /\ taken + 1 \in 1 .. Len(wire)
      BY <1>1, <1>2, <2>2 DEF IInv, Straight, Aligned
    <3>. QED
      BY <1>6, <3>1 DEF Begins
  <2>. QED
    BY <1>2, <2>1, <2>2 DEF Aligned
<1>. QED
  BY <1>7, <1>8, <1>9, <1>11, <1>12 DEF IInv

\* The client, and what it wrote.
LEMMA ClientSteps ==
    ASSUME IInv, ClientStep \/ Arrive
    PROVE  IInv'
<1>1. CASE SendSize
  <2>1. PICK n \in 1 .. MaxSize :
            /\ typed + n <= MaxTyped /\ chunk' = n /\ typed' = typed + n
            /\ Send(<<HeadUnit(n), TailUnit>>)
    BY <1>1 DEF SendSize
  <2>2. client = "select" /\ client' = "body" /\ UNCHANGED <<serverVars, pipe, delivered>>
    BY <1>1 DEF SendSize
  <2>3. HeadUnit(n) \in WireUnits /\ HeadUnit(n).kind = "head" /\ HeadUnit(n).size = n /\ n > 0
    BY <2>1, BoundsAssumption DEF HeadUnit, WireUnits
  <2>. QED
    BY <2>1, <2>2, <2>3, HeaderSent
<1>2. CASE SendBody
  BY <1>2, BodySent
<1>3. CASE SendEOF
  <2>1. HeadUnit(0) \in WireUnits /\ HeadUnit(0).kind = "head" /\ HeadUnit(0).size = 0
    BY BoundsAssumption DEF HeadUnit, WireUnits
  <2>2. /\ Send(<<HeadUnit(0), TailUnit>>) /\ client = "select" /\ client' = "eof"
        /\ UNCHANGED <<typed, chunk>> /\ UNCHANGED <<serverVars, pipe, delivered>>
    BY <1>3 DEF SendEOF
  <2>. QED
    BY <2>1, <2>2, HeaderSent
<1>4. CASE Interrupt
  <2>1. InterruptUnit \in WireUnits /\ InterruptUnit.kind = "interrupt"
    BY DEF InterruptUnit, WireUnits
  <2>2. /\ Send(<<InterruptUnit, TailUnit>>) /\ client # "gone" /\ client' = "gone"
        /\ UNCHANGED <<typed, chunk>> /\ UNCHANGED <<serverVars, pipe, delivered>>
    BY <1>4 DEF Interrupt
  <2>. QED
    BY <2>1, <2>2, HeaderSent
<1>5. CASE Arrive
  <2>1. /\ UNCHANGED <<client, typed, chunk, wire>>
        /\ UNCHANGED <<taken, server, size, buff, torn, pipe, delivered>>
        /\ arrived' \in arrived + 1 .. Len(wire)
    BY <1>5 DEF Arrive, clientVars, serverVars
  <2>2. arrived' \in 0 .. Len(wire') /\ taken' \in 0 .. arrived'
    BY <2>1, Facts
  <2>3. TypeOK'
    BY <2>1, <2>2 DEF IInv, TypeOK
  <2>4. Stream' = Stream /\ Sent' = Sent /\ Open' = Open
    BY <2>1 DEF Stream, Sent, Open
  <2>. QED
    BY <2>1, <2>3, <2>4 DEF IInv, WireOK, HandlerOK, InOrder, Straight, Aligned
<1>. QED
  BY <1>1, <1>2, <1>3, <1>4, <1>5 DEF ClientStep

-----------------------------------------------------------------------------
(* The handler                                                             *)

\* What the client and the wire are stays, whatever the server does.
LEMMA WireStays ==
    ASSUME IInv, UNCHANGED <<client, typed, chunk, wire>>
    PROVE  WireOK' /\ Sent' = Sent
<1>1. Sent' = Sent /\ Open' = Open
  BY DEF Sent, Open
<1>. QED
  BY <1>1 DEF IInv, WireOK

\* Units of the wire that are skipped take nothing with them.
LEMMA Skipped ==
    ASSUME IInv, NEW n \in Nat, taken' = taken + n,
           UNCHANGED <<client, typed, chunk, wire, buff, pipe, delivered>>
    PROVE  Stream' = Stream /\ InOrder'
<1>1. Stream' = Stream /\ Sent' = Sent
  BY DEF Stream, Sent
<1>2. Behind(Stream, wire, taken + n)
  <2>1. \A j \in taken + n + 1 .. Len(wire) : j \in taken + 1 .. Len(wire)
    <3>1. taken \in Nat /\ Len(wire) \in Nat
      BY Facts
    <3>. TAKE j \in taken + n + 1 .. Len(wire)
    <3>. QED
      BY <3>1
  <2>. QED
    BY <2>1 DEF IInv, InOrder, Behind
<1>. QED
  BY <1>1, <1>2 DEF IInv, InOrder

\* A complete header.
LEMMA HeadersRead ==
    ASSUME IInv, ReadHeaders
    PROVE  IInv'
<1>1. /\ Len(wire) \in Nat /\ size \in Nat
      /\ arrived \in Nat /\ taken \in Nat /\ taken <= arrived /\ arrived <= Len(wire)
      /\ Len(Stream) \in Nat
  <2>1. Len(Stream) \in Nat
    BY LenProperties DEF IInv, InOrder
  <2>. QED
    BY <2>1, Facts
<1>2. /\ server = "headers" /\ taken' = taken + 2 /\ arrived - taken >= 2
      /\ UNCHANGED <<client, typed, chunk, wire, arrived, buff, torn, pipe, delivered>>
      /\ \/ /\ wire[taken + 1].kind = "head" /\ wire[taken + 1].size > 0
            /\ size' = wire[taken + 1].size /\ server' = "body"
         \/ server' = "ended" /\ size' = size
  BY DEF ReadHeaders, Available, Ahead, clientVars
<1>3. taken + 1 \in 1 .. Len(wire) /\ taken + 2 \in 1 .. Len(wire) /\ taken' \in 0 .. arrived
  BY <1>1, <1>2
<1>4. wire \in Seq(WireUnits) /\ buff = <<>>
  BY <1>2 DEF IInv, WireOK, HandlerOK
<1>5. TypeOK'
  <2>1. server' = "body" => size' \in 0 .. MaxSize
    BY <1>2, <1>3, <1>4, UnitTypes
  <2>2. Len(buff) = 0
    BY <1>4, EmptySeq
  <2>3. size' \in 0 .. MaxSize /\ Len(buff) <= size'
    BY <1>2, <2>1, <2>2, BoundsAssumption DEF IInv, TypeOK
  <2>. QED
    BY <1>2, <1>3, <2>3 DEF IInv, TypeOK
<1>6. WireOK'
  BY <1>2, WireStays
<1>7. HandlerOK'
  <2>1. (taken + 2) - 1 = taken + 1 /\ taken + 2 >= 2
    BY <1>1
  <2>. QED
    BY <1>2, <1>4, <2>1 DEF HandlerOK
<1>8. Stream' = Stream /\ InOrder'
  BY <1>1, <1>2, Skipped
<1>9. Straight'
  <2>. SUFFICES ASSUME ~torn, server' = "body" PROVE Complete(Stream, wire, taken + 2)
    BY <1>2, <1>8 DEF IInv, Straight, Aligned
  <2>. SUFFICES ASSUME NEW i \in 1 .. taken + 2, UnitAt(wire, i) PROVE wire[i].number <= Len(Stream)
    BY DEF Complete
  <2>1. wire[taken + 2].kind = "tail"
    <3>1. wire[taken + 1].kind = "head" /\ wire[taken + 1].size > 0 /\ taken + 1 + 1 = taken + 2
      BY <1>1, <1>2
    <3>. QED
      BY <1>3, <3>1 DEF IInv, WireOK, Framed
  <2>2. i \in 1 .. taken
    BY <1>1, <1>2, <2>1 DEF UnitAt
  <2>. QED
    BY <1>2, <2>2 DEF IInv, Straight, Complete
<1>. QED
  BY <1>5, <1>6, <1>7, <1>8, <1>9 DEF IInv

\* Lines that are no header, which are there only after a torn read.
LEMMA GarbageRead ==
    ASSUME IInv, ReadGarbage
    PROVE  IInv'
<1>1. /\ Len(wire) \in Nat
      /\ arrived \in Nat /\ taken \in Nat /\ taken <= arrived /\ arrived <= Len(wire)
  BY Facts
<1>2. /\ server = "headers" /\ server' \in {"headers", "ended"}
      /\ taken' = taken + 1 /\ arrived - taken >= 1
      /\ wire[taken + 1].kind \in {"unit", "tail"}
      /\ UNCHANGED <<client, typed, chunk, wire, arrived, size, buff, torn, pipe, delivered>>
  BY DEF ReadGarbage, Available, Ahead, clientVars
<1>3. taken' \in 0 .. arrived
  BY <1>1, <1>2
<1>4. TypeOK'
  BY <1>2, <1>3 DEF IInv, TypeOK
<1>5. WireOK'
  BY <1>2, WireStays
<1>6. HandlerOK'
  BY <1>2 DEF IInv, HandlerOK
<1>7. Stream' = Stream /\ InOrder'
  BY <1>1, <1>2, Skipped
<1>8. torn
  <2>. SUFFICES ASSUME ~torn PROVE FALSE
    BY DEF IInv, TypeOK
  <2>1. taken # Len(wire)
    BY <1>1, <1>2
  <2>2. Begins(wire, taken + 1)
    BY <1>2, <2>1 DEF IInv, Straight, Aligned
  <2>. QED
    BY <1>2, <2>2 DEF Begins
<1>9. Straight'
  BY <1>2, <1>8 DEF Straight
<1>. QED
  BY <1>4, <1>5, <1>6, <1>7, <1>9 DEF IInv

\* The end of the stream.
LEMMA EOFRead ==
    ASSUME IInv, ReadEOF
    PROVE  IInv'
<1>1. /\ server \in {"headers", "body"} /\ server' = "ended"
      /\ UNCHANGED <<client, typed, chunk, wire, arrived, taken, size, buff, torn, pipe, delivered>>
  BY DEF ReadEOF, clientVars
<1>2. WireOK' /\ Sent' = Sent
  BY <1>1, WireStays
<1>3. Stream' = Stream
  BY <1>1 DEF Stream
<1>. QED
  BY <1>1, <1>2, <1>3 DEF IInv, TypeOK, HandlerOK, InOrder, Straight

\* A single read for a body.
LEMMA BodyRead ==
    ASSUME IInv, ReadBody
    PROVE  IInv'
<1> DEFINE n == IF arrived - taken < size THEN arrived - taken ELSE size
           c == Contents(n)
<1>1. /\ Len(wire) \in Nat /\ size \in Nat /\ Sent \in Nat
      /\ arrived \in Nat /\ taken \in Nat /\ taken <= arrived /\ arrived <= Len(wire)
  BY Facts
<1>2. /\ server = "body" /\ server' = "write" /\ arrived - taken >= 1
      /\ buff' = c /\ taken' = taken + Len(c)
      /\ torn' = (torn \/ Len(c) < size \/ Foreign \in Range(c))
      /\ UNCHANGED <<client, typed, chunk, wire, arrived, size, pipe, delivered>>
  BY DEF ReadBody, Available, clientVars
<1>3. /\ wire \in Seq(WireUnits) /\ Increasing(wire) /\ Dense(wire)
      /\ UpTo(wire, Sent) /\ Framed(wire, Open)
  BY DEF IInv, WireOK
<1>4. /\ buff = <<>> /\ size > 0 /\ taken >= 2
      /\ wire[taken - 1].kind = "head" /\ wire[taken - 1].size = size
  BY <1>2 DEF IInv, HandlerOK
<1>5. n \in Nat /\ n > 0 /\ n <= size /\ taken + n <= arrived
  BY <1>1, <1>2, <1>4
<1>. HIDE DEF n
<1>6. /\ c \in Seq(Numbers) /\ Len(c) = n /\ DOMAIN c = 1 .. n
      /\ \A i \in 1 .. n :
            c[i] = IF UnitAt(wire, taken + i) THEN wire[taken + i].number ELSE Foreign
  <2>1. \A i \in 1 .. n : taken + i \in 1 .. Len(wire)
    BY <1>1, <1>5
  <2>2. \A i \in 1 .. n : (IF wire[taken + i].kind = "unit"
                             THEN wire[taken + i].number ELSE Foreign) \in Numbers
    BY <1>3, <2>1, UnitTypes, BoundsAssumption DEF UnitAt, Foreign, Numbers
  <2>. QED
    BY <1>5, <2>2, SeqDef DEF Contents, UnitAt
<1>. HIDE DEF c
<1>7. Stream' = Stream \o c
  <2>1. delivered \o pipe \in Seq(Numbers)
    BY ConcatProperties DEF IInv, TypeOK
  <2>2. Stream = delivered \o pipe
    BY <1>4, <2>1, ConcatEmptySeq DEF Stream
  <2>. QED
    BY <1>2, <2>2 DEF Stream
<1>8. TypeOK'
  BY <1>1, <1>2, <1>5, <1>6 DEF IInv, TypeOK
<1>9. WireOK' /\ Sent' = Sent
  BY <1>2, WireStays
<1>10. HandlerOK'
  BY <1>2, <1>5, <1>6 DEF HandlerOK
<1>11. InOrder'
  <2>1. taken + n <= Len(wire)
    BY <1>1, <1>5
  <2>2. /\ Stream \in Seq(Numbers) /\ Inc(Stream)
        /\ Bounded(Stream, Sent) /\ Behind(Stream, wire, taken)
    BY DEF IInv, InOrder
  <2>3. Stream \o c \in Seq(Numbers) /\ Inc(Stream \o c) /\ Bounded(Stream \o c, Sent)
    BY <1>1, <1>3, <1>5, <1>6, <2>1, <2>2, TakenInOrder
  <2>4. Behind(Stream \o c, wire, taken + n)
    BY <1>1, <1>3, <1>5, <1>6, <2>1, <2>2, TakenInOrder
  <2>. QED
    BY <1>2, <1>6, <1>7, <1>9, <2>3, <2>4 DEF InOrder
<1>12. Straight'
  <2>. SUFFICES ASSUME ~torn'
                PROVE  Identity(Stream \o c) /\ Complete(Stream \o c, wire, taken + n) /\ Aligned'
    BY <1>2, <1>6, <1>7 DEF Straight
  <2>1. ~torn /\ n = size /\ \A i \in 1 .. n : UnitAt(wire, taken + i)
    <3>1. ~torn /\ ~(n < size) /\ Foreign \notin Range(c)
      BY <1>2, <1>6
    <3>2. \A i \in 1 .. n : c[i] # Foreign
      BY <1>6, <3>1 DEF Range
    <3>3. \A i \in 1 .. n : UnitAt(wire, taken + i)
      BY <1>6, <3>2
    <3>4. n = size
      BY <1>1, <1>5, <3>1
    <3>. QED
      BY <3>1, <3>3, <3>4
  <2>2. taken - 1 \in 1 .. Len(wire) /\ taken - 1 + 1 = taken /\ taken - 1 + 2 = taken + 1
    BY <1>1, <1>4
  <2>3. taken + 1 \in 1 .. Len(wire) /\ UnitAt(wire, taken + 1)
    BY <1>1, <1>5, <2>1
  <2>4. Whole(wire, taken - 1, n)
    <3>1. \/ Whole(wire, taken - 1, size)
          \/ taken = Len(wire)
          \/ wire[taken + 1].kind = "interrupt"
      BY <1>3, <1>4, <2>2 DEF Framed
    <3>. QED
      BY <1>1, <2>1, <2>3, <3>1 DEF UnitAt
  <2>5. /\ Stream \in Seq(Numbers) /\ Identity(Stream)
        /\ Behind(Stream, wire, taken) /\ Complete(Stream, wire, taken)
    BY <1>2, <2>1 DEF IInv, InOrder, Straight
  <2>6. Identity(Stream \o c) /\ Complete(Stream \o c, wire, taken + n)
    BY <1>1, <1>3, <1>4, <1>5, <1>6, <2>4, <2>5, TakenWithoutGap
  <2>7. taken + n = Len(wire) \/ Begins(wire, taken + n + 1)
    <3>1. taken - 1 + 1 + n = taken + n /\ taken - 1 + 2 + n = taken + n + 1
      BY <1>1, <1>5
    <3>. QED
      BY <2>4, <3>1 DEF Whole
  <2>8. client = "body" => taken + n + 2 <= Len(wire)
    <3>. SUFFICES ASSUME client = "body" PROVE taken + n + 2 <= Len(wire)
      OBVIOUS
    <3>1. wire[Len(wire)].kind = "tail"
      BY DEF IInv, WireOK
    <3>2. UnitAt(wire, taken + n)
      BY <1>5, <2>1
    <3>3. taken + n # Len(wire)
      BY <3>1, <3>2 DEF UnitAt
    <3>4. taken + n + 1 # Len(wire)
      BY <2>7, <3>1, <3>3 DEF Begins
    <3>. QED
      BY <1>1, <1>5, <3>3, <3>4
  <2>9. Aligned'
    BY <1>2, <1>6, <2>7, <2>8 DEF Aligned
  <2>. QED
    BY <2>6, <2>9
<1>. QED
  BY <1>8, <1>9, <1>10, <1>11, <1>12 DEF IInv

\* What moves on, from the handler to the pipe or from the pipe to the script,
\* stays what it is.
LEMMA MovesOn ==
    ASSUME IInv, Stream' = Stream, server' = server \/ (server = "write" /\ server' = "headers"),
           UNCHANGED <<client, typed, chunk, wire, taken, size, torn>>
    PROVE  InOrder' /\ Straight'
<1>1. Sent' = Sent
  BY WireStays
<1>2. InOrder'
  BY <1>1 DEF IInv, InOrder
<1>3. Straight'
  BY DEF IInv, Straight, Aligned
<1>. QED
  BY <1>2, <1>3

\* To the pipe.
LEMMA Transferred ==
    ASSUME IInv, TransferStreamRequest
    PROVE  IInv'
<1>1. /\ server = "write" /\ Len(pipe) < PipeSize
      /\ pipe' = Append(pipe, Head(buff)) /\ buff' = Tail(buff)
      /\ server' = IF Len(buff) = 1 THEN "headers" ELSE "write"
      /\ UNCHANGED <<client, typed, chunk, wire, arrived, taken, size, torn, delivered>>
  BY DEF TransferStreamRequest, clientVars
<1>2. /\ delivered \in Seq(Numbers) /\ pipe \in Seq(Numbers) /\ buff \in Seq(Numbers)
      /\ Len(buff) > 0 /\ Len(buff) <= size
  BY <1>1 DEF IInv, TypeOK, HandlerOK
<1>3. Len(pipe) \in Nat /\ Len(buff) \in Nat /\ size \in Nat /\ buff # <<>>
  BY <1>2, Facts, EmptySeq
<1>4. /\ pipe' \in Seq(Numbers) /\ buff' \in Seq(Numbers)
      /\ Len(pipe') = Len(pipe) + 1 /\ Len(buff') = Len(buff) - 1
      /\ pipe' \o buff' = pipe \o buff
  <2>1. /\ Append(pipe, Head(buff)) \in Seq(Numbers) /\ Tail(buff) \in Seq(Numbers)
        /\ Len(Append(pipe, Head(buff))) = Len(pipe) + 1 /\ Len(Tail(buff)) = Len(buff) - 1
        /\ Append(pipe, Head(buff)) \o Tail(buff) = pipe \o buff
    BY <1>2, <1>3, Moved
  <2>. QED
    BY <1>1, <2>1
<1>5. Stream' = Stream
  <2>1. Stream = delivered \o (pipe \o buff)
    BY <1>2, ConcatAssociative DEF Stream
  <2>2. (delivered \o pipe') \o buff' = delivered \o (pipe' \o buff')
    <3>1. delivered \in Seq(Numbers) /\ pipe' \in Seq(Numbers) /\ buff' \in Seq(Numbers)
      BY <1>2, <1>4
    <3>. QED
      BY <3>1, ConcatAssociative
  <2>. QED
    BY <1>1, <1>4, <2>1, <2>2 DEF Stream
<1>6. Len(pipe') <= PipeSize /\ Len(buff') <= size
  BY <1>1, <1>2, <1>3, <1>4, BoundsAssumption
<1>7. TypeOK'
  BY <1>1, <1>4, <1>6 DEF IInv, TypeOK
<1>8. WireOK'
  BY <1>1, WireStays
<1>9. HandlerOK'
  <2>1. Len(buff) = 1 => buff' = <<>>
    BY <1>3, <1>4, EmptySeq
  <2>2. Len(buff) # 1 => Len(buff') > 0
    BY <1>2, <1>3, <1>4
  <2>. QED
    BY <1>1, <2>1, <2>2 DEF HandlerOK
<1>10. InOrder' /\ Straight'
  BY <1>1, <1>5, MovesOn
<1>. QED
  BY <1>7, <1>8, <1>9, <1>10 DEF IInv

\* To the script.
LEMMA StdinRead ==
    ASSUME IInv, ReadStdin
    PROVE  IInv'
<1>1. /\ pipe # <<>> /\ delivered' = Append(delivered, Head(pipe)) /\ pipe' = Tail(pipe)
      /\ UNCHANGED <<client, typed, chunk, wire, arrived, taken, server, size, buff, torn>>
  BY DEF ReadStdin, clientVars, serverVars
<1>2. /\ delivered \in Seq(Numbers) /\ pipe \in Seq(Numbers)
      /\ Len(pipe) <= PipeSize /\ Len(pipe) \in Nat
  BY Facts DEF IInv, TypeOK
<1>3. /\ delivered' \in Seq(Numbers) /\ pipe' \in Seq(Numbers) /\ Len(pipe') = Len(pipe) - 1
      /\ delivered' \o pipe' = delivered \o pipe
  BY <1>1, <1>2, Moved
<1>4. Stream' = Stream
  BY <1>1, <1>3 DEF Stream
<1>5. TypeOK'
  BY <1>1, <1>2, <1>3, BoundsAssumption DEF IInv, TypeOK
<1>6. WireOK'
  BY <1>1, WireStays
<1>7. HandlerOK'
  BY <1>1 DEF IInv, HandlerOK
<1>8. InOrder' /\ Straight'
  BY <1>1, <1>4, MovesOn
<1>. QED
  BY <1>5, <1>6, <1>7, <1>8 DEF IInv

LEMMA Inductive == IInv /\ [Next]_vars => IInv'
<1> SUFFICES ASSUME IInv, [Next]_vars PROVE IInv'
  OBVIOUS
<1>1. CASE ClientStep \/ Arrive
  BY <1>1, ClientSteps
<1>2. CASE ReadHeaders
  BY <1>2, HeadersRead
<1>3. CASE ReadGarbage
  BY <1>3, GarbageRead
<1>4. CASE ReadEOF
  BY <1>4, EOFRead
<1>5. CASE ReadBody
  BY <1>5, BodyRead
<1>6. CASE TransferStreamRequest
  BY <1>6, Transferred
<1>7. CASE ReadStdin
  BY <1>7, StdinRead
<1>8. CASE UNCHANGED vars
  <2>1. /\ UNCHANGED <<client, typed, chunk, wire, arrived, taken>>
        /\ UNCHANGED <<server, size, buff, torn, pipe, delivered>>
    BY <1>8 DEF vars, clientVars, serverVars
  <2>2. Stream' = Stream
    BY <2>1 DEF Stream
  <2>3. TypeOK' /\ HandlerOK'
    BY <2>1 DEF IInv, TypeOK, HandlerOK
  <2>. QED
    BY <2>1, <2>2, <2>3, WireStays, MovesOn DEF IInv
<1>. QED
  BY <1>1, <1>2, <1>3, <1>4, <1>5, <1>6, <1>7, <1>8 DEF Next, ServerStep, Waiting

LEMMA Invariance == Spec => []IInv
BY Initial, Inductive, PTL DEF Spec

-----------------------------------------------------------------------------
\* Every variable keeps its type, whatever is read in the place of a header.
THEOREM TypeCorrect == Spec => []TypeOK
<1>1. IInv => TypeOK
  BY DEF IInv
<1>. QED
  BY <1>1, Invariance, PTL

\* A script never reads a unit of its stdin twice, or before an earlier one,
\* even when bodies and headers are taken for each other.
THEOREM StdinInOrder == Spec => []DeliveredInOrder
<1>1. IInv => DeliveredInOrder
  <2>. SUFFICES ASSUME IInv, NEW i \in 1 .. Len(delivered), NEW j \in 1 .. Len(delivered),
                       i < j, delivered[i] # Foreign, delivered[j] # Foreign
                PROVE  delivered[i] < delivered[j]
    BY DEF DeliveredInOrder
  <2>1. i \in 1 .. Len(Stream) /\ j \in 1 .. Len(Stream)
    BY Facts
  <2>2. Stream[i] = delivered[i] /\ Stream[j] = delivered[j]
    BY Facts
  <2>. QED
    BY <2>1, <2>2 DEF IInv, InOrder, Inc
<1>. QED
  BY <1>1, Invariance, PTL

\* While every read returns the body it was to return, what the script reads is
\* the beginning of its client's stdin.
THEOREM PrefixOfStdin == Spec => []StdinIsPrefix
<1>1. IInv => StdinIsPrefix
  <2>. SUFFICES ASSUME IInv, ~torn PROVE IsPrefixOfStdin(delivered)
    BY DEF StdinIsPrefix
  <2>1. \A i \in 1 .. Len(delivered) : i \in 1 .. Len(Stream) /\ Stream[i] = delivered[i]
    BY Facts
  <2>2. \A i \in 1 .. Len(delivered) : delivered[i] = i /\ delivered[i] <= Sent
    BY <2>1 DEF IInv, Straight, Identity, InOrder, Bounded
  <2>3. Len(delivered) <= typed
    <3>1. CASE Len(delivered) = 0
      BY <3>1, Facts
    <3>2. CASE Len(delivered) > 0
      <4>1. Len(delivered) \in 1 .. Len(delivered)
        BY <3>2, Facts
      <4>. QED
        BY <2>2, <4>1, Facts
    <3>. QED
      BY <3>1, <3>2, Facts
  <2>. QED
    BY <2>2, <2>3 DEF IsPrefixOfStdin
<1>. QED
  BY <1>1, Invariance, PTL
=============================================================================
