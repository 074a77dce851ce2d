--------------------------- MODULE InvocationProof ---------------------------
(***************************************************************************)
(* Invocation for any words, environments and classpaths: what the script  *)
(* gets is what the command line asks for.                                 *)
(*                                                                         *)
(* The argument: the client's loop has marked its own words among those    *)
(* before i and collected the masks there; so the header that it composes  *)
(* is that of Groovy's words and of the variables that are selected; its   *)
(* lines have known keys at known positions, those of the values excepted, *)
(* so that the server reads the words before whatever else it takes for an *)
(* argument, and just the variables and the classpath unless the value of  *)
(* one has lines of these keys or an empty one; and the handler's loop has *)
(* kept and gathered what stands before i in the request.                  *)
(*                                                                         *)
(* The model's recursive functions are about sequences of any length. What *)
(* they compute is shown by induction over sets of numbers, and Picked is  *)
(* then used by the list of its positions in order (Enumerates).           *)
(***************************************************************************)
EXTENDS Invocation, SequenceTheorems, WellFoundedInduction, TLAPS

-----------------------------------------------------------------------------
(* Induction, for sets instead of predicates                               *)

\* Every non-empty set of numbers has a least one.
LEMMA LeastNatural ==
    ASSUME NEW T \in SUBSET Nat, T # {}
    PROVE  \E n \in T : \A m \in T : n <= m
<1> DEFINE less == {p \in Nat \X Nat : p[1] < p[2]}
<1>1. IsWellFoundedOn(less, Nat)
  BY NatLessThanWellFounded DEF OpToRel
<1>. HIDE DEF less
<1>2. PICK n \in T : \A m \in T : ~(<<m, n>> \in less)
  BY <1>1, WFMin
<1>3. \A m \in T : n <= m
  <2>. SUFFICES ASSUME NEW m \in T PROVE n <= m
    OBVIOUS
  <2>1. ~(m < n)
    BY <1>2 DEF less
  <2>. QED
    BY <2>1
<1>. QED
  BY <1>3

\* What zero has and every number passes on, all numbers have.
LEMMA Induction ==
    ASSUME NEW T, 0 \in T, \A n \in Nat : n \in T => n + 1 \in T
    PROVE  \A n \in Nat : n \in T
<1>. SUFFICES ASSUME NEW x \in Nat, x \notin T PROVE FALSE
  OBVIOUS
<1> DEFINE missing == {n \in Nat : n \notin T}
<1>1. PICK n \in missing : \A m \in missing : n <= m
  BY LeastNatural
<1>2. n # 0 /\ n - 1 \in Nat /\ n - 1 \notin missing
  BY <1>1
<1>3. n - 1 \in T /\ (n - 1) + 1 = n
  BY <1>1, <1>2
<1>. QED
  BY <1>1, <1>2, <1>3

-----------------------------------------------------------------------------
(* The entries at some positions                                           *)

\* The recursion that defines Picked has a solution, on every prefix.
PicksUpTo(f, n, seq, positions) ==
    \A k \in 0 .. n : f[k] = IF k = 0 THEN <<>>
                             ELSE IF k \in positions THEN Append(f[k - 1], seq[k]) ELSE f[k - 1]

LEMMA PickedIsDefined ==
    ASSUME NEW S, NEW seq \in Seq(S), NEW positions
    PROVE  \E f \in [0 .. Len(seq) -> Seq(S)] :
               PicksUpTo(f, Len(seq), seq, positions) /\ Picked(seq, positions) = f[Len(seq)]
<1> DEFINE L == Len(seq)
           F(n) == {f \in [0 .. n -> Seq(S)] : PicksUpTo(f, n, seq, positions)}
           T == {n \in Nat : n <= L => F(n) # {}}
<1>1. L \in Nat
  BY LenProperties
<1>2. 0 \in T
  <2> DEFINE f == [k \in 0 .. 0 |-> <<>>]
  <2>1. f \in [0 .. 0 -> Seq(S)] /\ PicksUpTo(f, 0, seq, positions)
    BY EmptySeq DEF PicksUpTo
  <2>2. f \in F(0)
    BY <2>1
  <2>. QED
    BY <2>2
<1>3. ASSUME NEW n \in Nat, n \in T PROVE n + 1 \in T
  <2>. SUFFICES ASSUME n + 1 <= L PROVE F(n + 1) # {}
    OBVIOUS
  <2>1. PICK f \in [0 .. n -> Seq(S)] : PicksUpTo(f, n, seq, positions)
    BY <1>1, <1>3
  <2> DEFINE last == IF n + 1 \in positions THEN Append(f[n], seq[n + 1]) ELSE f[n]
             g == [k \in 0 .. n + 1 |-> IF k = n + 1 THEN last ELSE f[k]]
  <2>2. f[n] \in Seq(S) /\ seq[n + 1] \in S
    BY <1>1, ElementOfSeq
  <2>3. last \in Seq(S)
    BY <2>2, AppendProperties
  <2>4. g \in [0 .. n + 1 -> Seq(S)]
    BY <2>3
  <2>5. PicksUpTo(g, n + 1, seq, positions)
    <3>. SUFFICES ASSUME NEW k \in 0 .. n + 1
                  PROVE  g[k] = IF k = 0 THEN <<>> ELSE IF k \in positions
                                THEN Append(g[k - 1], seq[k]) ELSE g[k - 1]
      BY DEF PicksUpTo
    <3>1. CASE k = n + 1
      BY <3>1
    <3>2. CASE k # n + 1
      <4>1. k \in 0 .. n /\ g[k] = f[k] /\ (k # 0 => k - 1 \in 0 .. n /\ g[k - 1] = f[k - 1])
        BY <3>2
      <4>. HIDE DEF g
      <4>. QED
        BY <2>1, <4>1 DEF PicksUpTo
    <3>. QED
      BY <3>1, <3>2
  <2>6. g \in F(n + 1)
    BY <2>4, <2>5
  <2>. QED
    BY <2>6
<1>4. L \in T
  <2>. HIDE DEF T
  <2>. QED
    BY <1>1, <1>2, <1>3, Induction
<1>5. PICK f \in [0 .. L -> Seq(S)] : PicksUpTo(f, L, seq, positions)
  BY <1>1, <1>4
<1> DEFINE Body(g) == [n \in 0 .. L |-> IF n = 0 THEN <<>>
                         ELSE IF n \in positions THEN Append(g[n - 1], seq[n]) ELSE g[n - 1]]
           upTo == CHOOSE g : g = Body(g)
<1>6. f = Body(f)
  BY <1>5 DEF PicksUpTo
<1>7. \A n \in 0 .. L : upTo[n] = IF n = 0 THEN <<>>
                         ELSE IF n \in positions THEN Append(upTo[n - 1], seq[n]) ELSE upTo[n - 1]
  <2>1. upTo = Body(upTo)
    BY <1>6
  <2>. HIDE DEF upTo
  <2>. QED
    BY <2>1
<1>8. Picked(seq, positions) = upTo[L]
  BY DEF Picked
<1>. HIDE DEF upTo
<1>9. \A n \in Nat : n <= L => upTo[n] = f[n]
  <2> DEFINE U == {n \in Nat : n <= L => upTo[n] = f[n]}
  <2>1. 0 \in U
    BY <1>1, <1>5, <1>7 DEF PicksUpTo
  <2>2. ASSUME NEW n \in Nat, n \in U PROVE n + 1 \in U
    <3>. SUFFICES ASSUME n + 1 <= L PROVE upTo[n + 1] = f[n + 1]
      OBVIOUS
    <3>1. upTo[n] = f[n] /\ n + 1 \in 0 .. L /\ (n + 1) - 1 = n /\ n + 1 # 0
      BY <1>1, <2>2
    <3>2. upTo[n + 1] = IF n + 1 \in positions THEN Append(upTo[n], seq[n + 1]) ELSE upTo[n]
      BY <1>7, <3>1
    <3>3. f[n + 1] = IF n + 1 \in positions THEN Append(f[n], seq[n + 1]) ELSE f[n]
      BY <1>5, <3>1 DEF PicksUpTo
    <3>. QED
      BY <3>1, <3>2, <3>3
  <2>. HIDE DEF U
  <2>3. \A n \in Nat : n \in U
    BY <2>1, <2>2, Induction
  <2>. QED
    BY <2>3 DEF U
<1>10. Picked(seq, positions) = f[L]
  BY <1>1, <1>8, <1>9
<1>. QED
  BY <1>5, <1>10

\* g lists the positions in order.
Enumerates(g, n, positions) ==
    /\ n \in Nat /\ g \in [1 .. n -> positions]
    /\ \A j, k \in 1 .. n : j < k => g[j] < g[k]
    /\ \A p \in positions : \E k \in 1 .. n : g[k] = p

\* What Picked returns are the entries at its positions, in their order.
LEMMA PickedEnumerates ==
    ASSUME NEW S, NEW seq \in Seq(S), NEW positions \in SUBSET (1 .. Len(seq))
    PROVE  \E n, g : /\ Enumerates(g, n, positions)
                     /\ Picked(seq, positions) = [k \in 1 .. n |-> seq[g[k]]]
<1> DEFINE L == Len(seq)
<1>1. L \in Nat
  BY LenProperties
<1>2. PICK f \in [0 .. L -> Seq(S)] :
          PicksUpTo(f, L, seq, positions) /\ Picked(seq, positions) = f[L]
  BY PickedIsDefined
<1> DEFINE Below(m) == {p \in positions : p <= m}
           Listed(m) == \E n, g : /\ Enumerates(g, n, Below(m))
                                  /\ f[m] = [k \in 1 .. n |-> seq[g[k]]]
           T == {m \in Nat : m <= L => Listed(m)}
<1>. HIDE DEF Listed
<1>3. 0 \in T
  <2>1. Below(0) = {}
    BY <1>1
  <2>2. f[0] = <<>>
    BY <1>1, <1>2 DEF PicksUpTo
  <2> DEFINE g == [k \in 1 .. 0 |-> 0]
  <2>3. Enumerates(g, 0, Below(0))
    BY <2>1 DEF Enumerates
  <2>4. [k \in 1 .. 0 |-> seq[g[k]]] = <<>>
    OBVIOUS
  <2>5. Listed(0)
    <3>. HIDE DEF Below, g
    <3>. QED
      BY <2>2, <2>3, <2>4 DEF Listed
  <2>. QED
    BY <2>5
<1>4. ASSUME NEW m \in Nat, m \in T PROVE m + 1 \in T
  <2>. SUFFICES ASSUME m + 1 <= L PROVE Listed(m + 1)
    OBVIOUS
  <2>1. PICK n, g : Enumerates(g, n, Below(m)) /\ f[m] = [k \in 1 .. n |-> seq[g[k]]]
    <3>1. Listed(m)
      BY <1>1, <1>4
    <3>. HIDE DEF Below
    <3>. QED
      BY <3>1 DEF Listed
  <2>2. f[m + 1] = IF m + 1 \in positions THEN Append(f[m], seq[m + 1]) ELSE f[m]
    <3>1. m + 1 \in 0 .. L /\ m + 1 # 0 /\ (m + 1) - 1 = m
      BY <1>1
    <3>. QED
      BY <1>2, <3>1 DEF PicksUpTo
  <2>3. CASE m + 1 \notin positions
    <3>1. Below(m + 1) = Below(m)
      BY <2>3
    <3>. HIDE DEF Below
    <3>. QED
      BY <2>1, <2>2, <2>3, <3>1 DEF Listed
  <2>4. CASE m + 1 \in positions
    <3> DEFINE h == [k \in 1 .. n + 1 |-> IF k = n + 1 THEN m + 1 ELSE g[k]]
    <3>1. /\ n \in Nat /\ g \in [1 .. n -> Below(m)]
          /\ \A j, k \in 1 .. n : j < k => g[j] < g[k]
          /\ \A p \in Below(m) : \E k \in 1 .. n : g[k] = p
      BY <2>1 DEF Enumerates
    <3>2. Below(m + 1) = Below(m) \cup {m + 1}
      BY <2>4
    <3>3. \A p \in Below(m) : p \in 1 .. m /\ p < m + 1
      BY <1>1
    <3>. HIDE DEF Below
    <3>4. h \in [1 .. n + 1 -> Below(m + 1)]
      BY <3>1, <3>2
    <3>5. \A j, k \in 1 .. n + 1 : j < k => h[j] < h[k]
      BY <3>1, <3>3
    <3>6. \A p \in Below(m + 1) : \E k \in 1 .. n + 1 : h[k] = p
      <4>. SUFFICES ASSUME NEW p \in Below(m + 1) PROVE \E k \in 1 .. n + 1 : h[k] = p
        OBVIOUS
      <4>1. CASE p = m + 1
        <5>1. n + 1 \in 1 .. n + 1 /\ h[n + 1] = p
          BY <4>1
        <5>. QED
          BY <5>1
      <4>2. CASE p # m + 1
        <5>1. PICK k \in 1 .. n : g[k] = p
          BY <3>1, <3>2, <4>2
        <5>2. k \in 1 .. n + 1 /\ h[k] = p
          BY <3>1, <5>1
        <5>. QED
          BY <5>2
      <4>. QED
        BY <4>1, <4>2
    <3>7. Enumerates(h, n + 1, Below(m + 1))
      <4>. HIDE DEF h
      <4>. QED
        BY <3>1, <3>4, <3>5, <3>6 DEF Enumerates
    <3>8. f[m + 1] = [k \in 1 .. n + 1 |-> seq[h[k]]]
      <4>1. f[m + 1] = Append(f[m], seq[m + 1]) /\ f[m] = [k \in 1 .. n |-> seq[g[k]]]
        BY <2>1, <2>2, <2>4
      <4>2. Append([k \in 1 .. n |-> seq[g[k]]], seq[m + 1]) = [k \in 1 .. n + 1 |-> seq[h[k]]]
        <5> DEFINE a == [k \in 1 .. n |-> seq[g[k]]]
        <5>1. a \in Seq(S) /\ Len(a) = n
          <6>1. \A k \in 1 .. n : g[k] \in 1 .. L
            BY <1>1, <3>1 DEF Below
          <6>2. \A k \in 1 .. n : seq[g[k]] \in S
            BY <6>1, ElementOfSeq
          <6>3. a \in [1 .. n -> S]
            BY <6>2
          <6>. QED
            BY <3>1, <6>3
        <5>2. seq[m + 1] \in S
          BY <1>1, ElementOfSeq
        <5>3. Append(a, seq[m + 1]) = [k \in 1 .. n + 1 |-> IF k = n + 1 THEN seq[m + 1] ELSE a[k]]
          <6>. HIDE DEF a
          <6>. QED
            BY <3>1, <5>1, <5>2
        <5>4. \A k \in 1 .. n + 1 : (IF k = n + 1 THEN seq[m + 1] ELSE a[k]) = seq[h[k]]
          BY <3>1
        <5>. QED
          BY <5>3, <5>4
      <4>. QED
        BY <4>1, <4>2
    <3>. HIDE DEF h
    <3>. QED
      BY <3>7, <3>8 DEF Listed
  <2>. QED
    BY <2>3, <2>4
<1>5. L \in T
  <2>. HIDE DEF T
  <2>. QED
    BY <1>1, <1>3, <1>4, Induction
<1>6. Below(L) = positions
  BY <1>1
<1>7. Listed(L)
  BY <1>1, <1>5
<1>. HIDE DEF Below
<1>. QED
  BY <1>2, <1>6, <1>7 DEF Listed

\* Positions can be listed in order in one way only.
LEMMA OneEnumeration ==
    ASSUME NEW positions \in SUBSET Nat, NEW m, NEW n, NEW g, NEW h,
           Enumerates(g, m, positions), Enumerates(h, n, positions)
    PROVE  m = n /\ g = h
<1>1. /\ m \in Nat /\ n \in Nat /\ g \in [1 .. m -> positions] /\ h \in [1 .. n -> positions]
      /\ \A j, k \in 1 .. m : j < k => g[j] < g[k]
      /\ \A j, k \in 1 .. n : j < k => h[j] < h[k]
      /\ \A p \in positions : (\E k \in 1 .. m : g[k] = p) /\ (\E k \in 1 .. n : h[k] = p)
  BY DEF Enumerates
<1>2. (\A k \in 1 .. m : g[k] \in Nat) /\ (\A k \in 1 .. n : h[k] \in Nat)
  BY <1>1
<1> DEFINE differ == {k \in (1 .. m) \cap (1 .. n) : g[k] # h[k]}
<1>3. differ = {}
  <2>. SUFFICES ASSUME differ # {} PROVE FALSE
    OBVIOUS
  <2>1. PICK k \in differ : \A j \in differ : k <= j
    <3>1. differ \in SUBSET Nat
      BY <1>1
    <3>. HIDE DEF differ
    <3>. QED
      BY <3>1, LeastNatural
  <2>2. \A j \in 1 .. k - 1 : g[j] = h[j]
    <3>. SUFFICES ASSUME NEW j \in 1 .. k - 1 PROVE j \in differ => FALSE
      BY <1>1, <2>1
    <3>. QED
      BY <1>1, <2>1
  <2>3. k \in Nat /\ k \in 1 .. m /\ k \in 1 .. n /\ g[k] # h[k]
    BY <1>1, <2>1
  <2>. HIDE DEF differ
  <2>4. PICK j \in 1 .. n : h[j] = g[k]
    BY <1>1, <2>3
  <2>5. PICK l \in 1 .. m : g[l] = h[k]
    BY <1>1, <2>3
  <2>6. j > k
    <3>1. j # k
      BY <2>3, <2>4
    <3>2. ASSUME j < k PROVE FALSE
      <4>1. j \in 1 .. k - 1 /\ j \in 1 .. m /\ k \in 1 .. m
        BY <1>1, <2>3, <3>2
      <4>2. g[j] = g[k] /\ g[j] < g[k]
        BY <1>1, <2>2, <2>4, <3>2, <4>1
      <4>. QED
        BY <1>2, <4>1, <4>2
    <3>. QED
      BY <1>1, <2>3, <3>1, <3>2
  <2>7. l > k
    <3>1. l # k
      BY <2>3, <2>5
    <3>2. ASSUME l < k PROVE FALSE
      <4>1. l \in 1 .. k - 1 /\ l \in 1 .. n /\ k \in 1 .. n
        BY <1>1, <2>3, <3>2
      <4>2. h[l] = h[k] /\ h[l] < h[k]
        BY <1>1, <2>2, <2>5, <3>2, <4>1
      <4>. QED
        BY <1>2, <4>1, <4>2
    <3>. QED
      BY <1>1, <2>3, <3>1, <3>2
  <2>. QED
    BY <1>1, <1>2, <2>3, <2>4, <2>5, <2>6, <2>7
<1>4. \A k \in (1 .. m) \cap (1 .. n) : g[k] = h[k]
  BY <1>3
<1>5. ~(m < n)
  <2>. SUFFICES ASSUME m < n PROVE FALSE
    OBVIOUS
  <2>1. m + 1 \in 1 .. n
    BY <1>1
  <2>2. PICK k \in 1 .. m : g[k] = h[m + 1]
    BY <1>1, <2>1
  <2>. QED
    BY <1>1, <1>2, <1>4, <2>1, <2>2
<1>6. ~(n < m)
  <2>. SUFFICES ASSUME n < m PROVE FALSE
    OBVIOUS
  <2>1. n + 1 \in 1 .. m
    BY <1>1
  <2>2. PICK k \in 1 .. n : h[k] = g[n + 1]
    BY <1>1, <2>1
  <2>. QED
    BY <1>1, <1>2, <1>4, <2>1, <2>2
<1>. QED
  BY <1>1, <1>4, <1>5, <1>6

\* So what is picked is known once the positions are listed.
LEMMA PickedIs ==
    ASSUME NEW S, NEW seq \in Seq(S), NEW positions \in SUBSET (1 .. Len(seq)),
           NEW n, NEW g, Enumerates(g, n, positions)
    PROVE  Picked(seq, positions) = [k \in 1 .. n |-> seq[g[k]]]
<1>1. PICK m, h : /\ Enumerates(h, m, positions)
                  /\ Picked(seq, positions) = [k \in 1 .. m |-> seq[h[k]]]
  BY PickedEnumerates
<1>2. m = n /\ h = g
  <2>1. positions \in SUBSET Nat
    BY LenProperties
  <2>. QED
    BY <1>1, <2>1, OneEnumeration
<1>. QED
  BY <1>1, <1>2

\* Every position is picked, and nothing else.
LEMMA PickedType ==
    ASSUME NEW S, NEW seq \in Seq(S), NEW positions \in SUBSET (1 .. Len(seq))
    PROVE  /\ Picked(seq, positions) \in Seq(S)
           /\ Len(Picked(seq, positions)) <= Len(seq)
           /\ \A p \in positions : \E k \in 1 .. Len(Picked(seq, positions)) :
                  Picked(seq, positions)[k] = seq[p]
           /\ \A k \in 1 .. Len(Picked(seq, positions)) : \E p \in positions :
                  Picked(seq, positions)[k] = seq[p]
<1>1. PICK n, g : /\ Enumerates(g, n, positions)
                  /\ Picked(seq, positions) = [k \in 1 .. n |-> seq[g[k]]]
  BY PickedEnumerates
<1>2. /\ n \in Nat /\ g \in [1 .. n -> 1 .. Len(seq)] /\ \A k \in 1 .. n : g[k] \in positions
      /\ \A j, k \in 1 .. n : j < k => g[j] < g[k]
      /\ \A p \in positions : \E k \in 1 .. n : g[k] = p
  BY <1>1 DEF Enumerates
<1>3. \A k \in 1 .. n : seq[g[k]] \in S
  BY <1>2, ElementOfSeq
<1>4. Picked(seq, positions) \in [1 .. n -> S]
  BY <1>1, <1>3
<1>5. Picked(seq, positions) \in Seq(S) /\ Len(Picked(seq, positions)) = n
  BY <1>2, <1>4
<1>6. Len(seq) \in Nat
  BY LenProperties
<1>7. \A k \in Nat : k \in 1 .. n => k <= g[k]
  <2> DEFINE T == {k \in Nat : k \in 1 .. n => k <= g[k]}
  <2>1. 0 \in T
    BY <1>2
  <2>2. ASSUME NEW k \in Nat, k \in T PROVE k + 1 \in T
    <3>. SUFFICES ASSUME k + 1 \in 1 .. n PROVE k + 1 <= g[k + 1]
      OBVIOUS
    <3>1. g[k + 1] \in 1 .. Len(seq)
      BY <1>2
    <3>2. CASE k = 0
      BY <1>6, <3>1, <3>2
    <3>3. CASE k # 0
      <4>1. k \in 1 .. n /\ k < k + 1
        BY <1>2, <3>3
      <4>2. k <= g[k] /\ g[k] < g[k + 1] /\ g[k] \in 1 .. Len(seq)
        BY <1>2, <2>2, <4>1
      <4>. QED
        BY <1>6, <3>1, <4>2
    <3>. QED
      BY <3>2, <3>3
  <2>. HIDE DEF T
  <2>3. \A k \in Nat : k \in T
    BY <2>1, <2>2, Induction
  <2>. QED
    BY <2>3 DEF T
<1>8. n <= Len(seq)
  <2>1. CASE n = 0
    BY <1>6, <2>1
  <2>2. CASE n # 0
    <3>1. n \in 1 .. n /\ n <= g[n] /\ g[n] \in 1 .. Len(seq)
      BY <1>2, <1>7, <2>2
    <3>. QED
      BY <1>2, <1>6, <3>1
  <2>. QED
    BY <2>1, <2>2
<1>9. \A p \in positions : \E k \in 1 .. n : Picked(seq, positions)[k] = seq[p]
  BY <1>1, <1>2
<1>10. \A k \in 1 .. n : \E p \in positions : Picked(seq, positions)[k] = seq[p]
  BY <1>1, <1>2
<1>. QED
  BY <1>5, <1>8, <1>9, <1>10

\* Without positions nothing is picked.
LEMMA PickedNone ==
    ASSUME NEW S, NEW seq \in Seq(S)
    PROVE  Picked(seq, {}) = <<>>
<1> DEFINE g == [k \in 1 .. 0 |-> 0]
<1>1. Enumerates(g, 0, {})
  BY DEF Enumerates
<1>2. Picked(seq, {}) = [k \in 1 .. 0 |-> seq[g[k]]]
  <2>. HIDE DEF g
  <2>. QED
    BY <1>1, PickedIs
<1>. QED
  BY <1>2

\* A later position is a last entry.
LEMMA PickedAppend ==
    ASSUME NEW S, NEW seq \in Seq(S), NEW positions \in SUBSET (1 .. Len(seq)),
           NEW p \in 1 .. Len(seq), \A q \in positions : q < p
    PROVE  Picked(seq, positions \cup {p}) = Append(Picked(seq, positions), seq[p])
<1>1. PICK n, g : /\ Enumerates(g, n, positions)
                  /\ Picked(seq, positions) = [k \in 1 .. n |-> seq[g[k]]]
  BY PickedEnumerates
<1>2. /\ n \in Nat /\ g \in [1 .. n -> positions]
      /\ \A j, k \in 1 .. n : j < k => g[j] < g[k]
      /\ \A q \in positions : \E k \in 1 .. n : g[k] = q
  BY <1>1 DEF Enumerates
<1> DEFINE h == [k \in 1 .. n + 1 |-> IF k = n + 1 THEN p ELSE g[k]]
<1>3. h \in [1 .. n + 1 -> positions \cup {p}] /\ n + 1 \in Nat
  BY <1>2
<1>4. \A j, k \in 1 .. n + 1 : j < k => h[j] < h[k]
  <2>1. Len(seq) \in Nat /\ \A k \in 1 .. n : g[k] \in 1 .. Len(seq) /\ g[k] < p
    BY <1>2, LenProperties
  <2>. QED
    BY <1>2, <2>1
<1>5. \A q \in positions \cup {p} : \E k \in 1 .. n + 1 : h[k] = q
  <2>. SUFFICES ASSUME NEW q \in positions \cup {p} PROVE \E k \in 1 .. n + 1 : h[k] = q
    OBVIOUS
  <2>1. CASE q = p
    <3>1. n + 1 \in 1 .. n + 1 /\ h[n + 1] = q
      BY <1>2, <2>1
    <3>. QED
      BY <3>1
  <2>2. CASE q # p
    <3>1. PICK k \in 1 .. n : g[k] = q
      BY <1>2, <2>2
    <3>2. k \in 1 .. n + 1 /\ h[k] = q
      BY <1>2, <3>1
    <3>. QED
      BY <3>2
  <2>. QED
    BY <2>1, <2>2
<1>6. Picked(seq, positions \cup {p}) = [k \in 1 .. n + 1 |-> seq[h[k]]]
  <2>1. Enumerates(h, n + 1, positions \cup {p})
    <3>. HIDE DEF h
    <3>. QED
      BY <1>3, <1>4, <1>5 DEF Enumerates
  <2>2. positions \cup {p} \in SUBSET (1 .. Len(seq))
    OBVIOUS
  <2>. HIDE DEF h
  <2>. QED
    BY <2>1, <2>2, PickedIs
<1> DEFINE a == Picked(seq, positions)
<1>7. a \in Seq(S) /\ Len(a) = n
  <2>1. a \in Seq(S)
    BY PickedType
  <2>. QED
    BY <1>1, <1>2, <2>1, LenProperties
<1>8. Append(a, seq[p]) = [k \in 1 .. n + 1 |-> IF k = n + 1 THEN seq[p] ELSE a[k]]
  <2>1. seq[p] \in S
    BY ElementOfSeq
  <2>. HIDE DEF a
  <2>. QED
    BY <1>2, <1>7, <2>1
<1>9. \A k \in 1 .. n + 1 : (IF k = n + 1 THEN seq[p] ELSE a[k]) = seq[h[k]]
  BY <1>1, <1>2
<1>. QED
  BY <1>6, <1>8, <1>9

\* The positions before one.
Before(positions, end) == {p \in positions : p < end}

\* Only the entries at the positions matter.
LEMMA PickedAlike ==
    ASSUME NEW S, NEW seq \in Seq(S), NEW other \in Seq(S),
           NEW positions \in SUBSET (1 .. Len(seq)), positions \subseteq 1 .. Len(other),
           \A p \in positions : seq[p] = other[p]
    PROVE  Picked(seq, positions) = Picked(other, positions)
<1>1. PICK n, g : /\ Enumerates(g, n, positions)
                  /\ Picked(seq, positions) = [k \in 1 .. n |-> seq[g[k]]]
  BY PickedEnumerates
<1>2. Picked(other, positions) = [k \in 1 .. n |-> other[g[k]]]
  BY <1>1, PickedIs
<1>3. \A k \in 1 .. n : g[k] \in positions
  BY <1>1 DEF Enumerates
<1>. QED
  BY <1>1, <1>2, <1>3

-----------------------------------------------------------------------------
(* The other recursive definitions                                         *)

\* The recursion that defines IsValue has a solution too.
LEMMA IsValueIs ==
    ASSUME NEW S, NEW line \in Seq(S), NEW options
    PROVE  /\ IsValue(line, options) \in [0 .. Len(line) -> BOOLEAN]
           /\ \A n \in 0 .. Len(line) : IsValue(line, options)[n] <=>
                  n > 1 /\ ~IsValue(line, options)[n - 1] /\ line[n - 1] \in options
<1> DEFINE L == Len(line)
           Right(f, n) == \A k \in 0 .. n : f[k] <=> k > 1 /\ ~f[k - 1] /\ line[k - 1] \in options
           F(n) == {f \in [0 .. n -> BOOLEAN] : Right(f, n)}
           T == {n \in Nat : F(n) # {}}
<1>1. L \in Nat
  BY LenProperties
<1>2. 0 \in T
  <2> DEFINE f == [k \in 0 .. 0 |-> FALSE]
  <2>1. f \in [0 .. 0 -> BOOLEAN] /\ Right(f, 0)
    OBVIOUS
  <2>. HIDE DEF f
  <2>2. f \in F(0)
    BY <2>1
  <2>. QED
    BY <2>2
<1>3. ASSUME NEW n \in Nat, n \in T PROVE n + 1 \in T
  <2>1. PICK f \in [0 .. n -> BOOLEAN] : Right(f, n)
    BY <1>3
  <2> DEFINE last == n > 0 /\ ~f[n] /\ line[n] \in options
             g == [k \in 0 .. n + 1 |-> IF k = n + 1 THEN last ELSE f[k]]
  <2>2. g \in [0 .. n + 1 -> BOOLEAN]
    <3>1. last \in BOOLEAN
      OBVIOUS
    <3>. HIDE DEF last
    <3>. QED
      BY <2>1, <3>1
  <2>3. Right(g, n + 1)
    <3>. SUFFICES ASSUME NEW k \in 0 .. n + 1
                  PROVE  g[k] <=> k > 1 /\ ~g[k - 1] /\ line[k - 1] \in options
      OBVIOUS
    <3>1. CASE k = n + 1
      <4>1. g[k] = last /\ k - 1 = n /\ g[k - 1] = f[n] /\ (k > 1 <=> n > 0)
        BY <3>1
      <4>. HIDE DEF g
      <4>. QED
        BY <4>1
    <3>2. CASE k # n + 1
      <4>1. k \in 0 .. n /\ g[k] = f[k] /\ (k > 1 => g[k - 1] = f[k - 1])
        BY <3>2
      <4>2. f[k] <=> k > 1 /\ ~f[k - 1] /\ line[k - 1] \in options
        BY <2>1, <4>1
      <4>. QED
        BY <4>1, <4>2
    <3>. QED
      BY <3>1, <3>2
  <2>. HIDE DEF g
  <2>4. g \in F(n + 1)
    BY <2>2, <2>3
  <2>. QED
    BY <2>4
<1>4. L \in T
  <2>. HIDE DEF T
  <2>. QED
    BY <1>1, <1>2, <1>3, Induction
<1>5. PICK f \in [0 .. L -> BOOLEAN] : Right(f, L)
  BY <1>4
<1> DEFINE Body(g) == [n \in 0 .. L |-> n > 1 /\ ~g[n - 1] /\ line[n - 1] \in options]
           value == CHOOSE g : g = Body(g)
<1>6. f = Body(f)
  BY <1>5
<1>7. value = Body(value)
  BY <1>6
<1>8. IsValue(line, options) = value
  BY DEF IsValue
<1>. HIDE DEF value
<1>. QED
  BY <1>7, <1>8

\* So has the one that defines FlattenSeq.
FlattensUpTo(f, n, seqs) ==
    \A k \in 1 .. n : f[k] = IF k = 1 THEN seqs[1] ELSE f[k - 1] \o seqs[k]

LEMMA FlattenIsDefined ==
    ASSUME NEW S, NEW seqs \in Seq(Seq(S)), Len(seqs) > 0
    PROVE  \E f \in [1 .. Len(seqs) -> Seq(S)] :
               FlattensUpTo(f, Len(seqs), seqs) /\ FlattenSeq(seqs) = f[Len(seqs)]
<1> DEFINE L == Len(seqs)
           F(n) == {f \in [1 .. n -> Seq(S)] : FlattensUpTo(f, n, seqs)}
           T == {n \in Nat : n <= L => F(n) # {}}
<1>1. L \in Nat /\ L > 0 /\ \A k \in 1 .. L : seqs[k] \in Seq(S)
  BY LenProperties, ElementOfSeq
<1>2. 0 \in T
  <2> DEFINE f == [k \in 1 .. 0 |-> <<>>]
  <2>1. f \in [1 .. 0 -> Seq(S)] /\ FlattensUpTo(f, 0, seqs)
    BY DEF FlattensUpTo
  <2>. HIDE DEF f
  <2>2. f \in F(0)
    BY <2>1
  <2>. QED
    BY <2>2
<1>3. ASSUME NEW n \in Nat, n \in T PROVE n + 1 \in T
  <2>. SUFFICES ASSUME n + 1 <= L PROVE F(n + 1) # {}
    OBVIOUS
  <2>1. PICK f \in [1 .. n -> Seq(S)] : FlattensUpTo(f, n, seqs)
    BY <1>1, <1>3
  <2> DEFINE last == IF n = 0 THEN seqs[1] ELSE f[n] \o seqs[n + 1]
             g == [k \in 1 .. n + 1 |-> IF k = n + 1 THEN last ELSE f[k]]
  <2>2. last \in Seq(S)
    <3>1. n # 0 => f[n] \in Seq(S)
      OBVIOUS
    <3>2. seqs[n + 1] \in Seq(S) /\ seqs[1] \in Seq(S)
      BY <1>1
    <3>. QED
      BY <3>1, <3>2, ConcatProperties
  <2>3. g \in [1 .. n + 1 -> Seq(S)]
    BY <2>2
  <2>4. FlattensUpTo(g, n + 1, seqs)
    <3>. SUFFICES ASSUME NEW k \in 1 .. n + 1
                  PROVE  g[k] = IF k = 1 THEN seqs[1] ELSE g[k - 1] \o seqs[k]
      BY DEF FlattensUpTo
    <3>1. CASE k = n + 1
      <4>1. g[k] = last /\ (n # 0 => g[k - 1] = f[n])
        BY <3>1
      <4>. QED
        BY <3>1, <4>1
    <3>2. CASE k # n + 1
      <4>1. k \in 1 .. n /\ g[k] = f[k] /\ (k # 1 => k - 1 \in 1 .. n /\ g[k - 1] = f[k - 1])
        BY <3>2
      <4>. HIDE DEF g
      <4>. QED
        BY <2>1, <4>1 DEF FlattensUpTo
    <3>. QED
      BY <3>1, <3>2
  <2>. HIDE DEF g
  <2>5. g \in F(n + 1)
    BY <2>3, <2>4
  <2>. QED
    BY <2>5
<1>4. L \in T
  <2>. HIDE DEF T
  <2>. QED
    BY <1>1, <1>2, <1>3, Induction
<1>5. PICK f \in [1 .. L -> Seq(S)] : FlattensUpTo(f, L, seqs)
  BY <1>1, <1>4
<1> DEFINE Body(g) == [k \in 1 .. L |-> IF k = 1 THEN seqs[k] ELSE g[k - 1] \o seqs[k]]
           flatten == CHOOSE g : g = Body(g)
<1>6. f = Body(f)
  BY <1>5 DEF FlattensUpTo
<1>7. \A k \in 1 .. L : flatten[k] = IF k = 1 THEN seqs[k] ELSE flatten[k - 1] \o seqs[k]
  <2>1. flatten = Body(flatten)
    BY <1>6
  <2>. HIDE DEF flatten
  <2>. QED
    BY <2>1
<1>8. FlattenSeq(seqs) = flatten[L]
  BY <1>1 DEF FlattenSeq
<1>. HIDE DEF flatten
<1>9. \A n \in Nat : n \in 1 .. L => flatten[n] = f[n]
  <2> DEFINE U == {n \in Nat : n \in 1 .. L => flatten[n] = f[n]}
  <2>1. 0 \in U
    OBVIOUS
  <2>2. ASSUME NEW n \in Nat, n \in U PROVE n + 1 \in U
    <3>. SUFFICES ASSUME n + 1 \in 1 .. L PROVE flatten[n + 1] = f[n + 1]
      OBVIOUS
    <3>1. n # 0 => flatten[n] = f[n]
      BY <1>1, <2>2
    <3>2. flatten[n + 1] = IF n = 0 THEN seqs[1] ELSE flatten[n] \o seqs[n + 1]
      BY <1>7
    <3>3. f[n + 1] = IF n = 0 THEN seqs[1] ELSE f[n] \o seqs[n + 1]
      <4>1. n + 1 \in 1 .. L /\ (n + 1) - 1 = n /\ (n + 1 = 1 <=> n = 0)
        OBVIOUS
      <4>. QED
        BY <1>5, <4>1 DEF FlattensUpTo
    <3>. QED
      BY <3>1, <3>2, <3>3
  <2>. HIDE DEF U
  <2>3. \A n \in Nat : n \in U
    BY <2>1, <2>2, Induction
  <2>. QED
    BY <2>3 DEF U
<1>10. FlattenSeq(seqs) = f[L]
  BY <1>1, <1>8, <1>9
<1>. QED
  BY <1>5, <1>10

\* Nothing is flattened to nothing.
LEMMA FlattenNone == FlattenSeq(<<>>) = <<>>
BY EmptySeq DEF FlattenSeq

\* One sequence more is flattened behind the others.
LEMMA FlattenAppend ==
    ASSUME NEW S, NEW seqs \in Seq(Seq(S)), NEW s \in Seq(S)
    PROVE  /\ FlattenSeq(seqs) \in Seq(S)
           /\ FlattenSeq(Append(seqs, s)) = FlattenSeq(seqs) \o s
<1> DEFINE longer == Append(seqs, s)
           L == Len(seqs)
<1>1. /\ longer \in Seq(Seq(S)) /\ Len(longer) = L + 1 /\ L \in Nat
      /\ longer[L + 1] = s /\ \A k \in 1 .. L : longer[k] = seqs[k]
  BY AppendProperties, LenProperties
<1>. HIDE DEF longer
<1>2. PICK g \in [1 .. L + 1 -> Seq(S)] :
          FlattensUpTo(g, L + 1, longer) /\ FlattenSeq(longer) = g[L + 1]
  BY <1>1, FlattenIsDefined
<1>3. CASE L = 0
  <2>1. seqs = <<>> /\ FlattenSeq(seqs) = <<>>
    BY <1>3, EmptySeq, FlattenNone
  <2>2. FlattenSeq(longer) = s
    BY <1>1, <1>2, <1>3 DEF FlattensUpTo
  <2>. QED
    BY <2>1, <2>2, EmptySeq, ConcatEmptySeq DEF longer
<1>4. CASE L # 0
  <2>1. PICK f \in [1 .. L -> Seq(S)] : FlattensUpTo(f, L, seqs) /\ FlattenSeq(seqs) = f[L]
    BY <1>1, <1>4, FlattenIsDefined
  <2>2. \A n \in Nat : n \in 1 .. L => g[n] = f[n]
    <3> DEFINE U == {n \in Nat : n \in 1 .. L => g[n] = f[n]}
    <3>1. 0 \in U
      OBVIOUS
    <3>2. ASSUME NEW n \in Nat, n \in U PROVE n + 1 \in U
      <4>. SUFFICES ASSUME n + 1 \in 1 .. L PROVE g[n + 1] = f[n + 1]
        OBVIOUS
      <4>1. n # 0 => g[n] = f[n]
        BY <1>1, <3>2
      <4>2. /\ n + 1 \in 1 .. L /\ n + 1 \in 1 .. L + 1
            /\ (n + 1) - 1 = n /\ (n + 1 = 1 <=> n = 0)
        BY <1>1
      <4>3. g[n + 1] = IF n = 0 THEN longer[1] ELSE g[n] \o longer[n + 1]
        BY <1>2, <4>2 DEF FlattensUpTo
      <4>4. f[n + 1] = IF n = 0 THEN seqs[1] ELSE f[n] \o seqs[n + 1]
        BY <2>1, <4>2 DEF FlattensUpTo
      <4>5. longer[n + 1] = seqs[n + 1] /\ longer[1] = seqs[1]
        BY <1>1, <1>4
      <4>. QED
        BY <4>1, <4>3, <4>4, <4>5
    <3>. HIDE DEF U
    <3>3. \A n \in Nat : n \in U
      BY <3>1, <3>2, Induction
    <3>. QED
      BY <3>3 DEF U
  <2>3. g[L + 1] = g[L] \o s
    <3>1. L + 1 \in 1 .. L + 1 /\ (L + 1) - 1 = L /\ L + 1 # 1
      BY <1>1, <1>4
    <3>. QED
      BY <1>1, <1>2, <3>1 DEF FlattensUpTo
  <2>4. g[L] = f[L] /\ f[L] \in Seq(S)
    BY <1>1, <1>4, <2>1, <2>2
  <2>. QED
    BY <1>2, <2>1, <2>3, <2>4 DEF longer
<1>. QED
  BY <1>3, <1>4

-----------------------------------------------------------------------------
(* The invariant                                                           *)

Value == IsValue(typed, WithValue)

\* The positions of the client's own options and their values.
Own == {n \in DOMAIN typed : Value[n] \/ typed[n] \in ClientOptions}

\* The words behind an option, of those before a position.
Behind(o, end) ==
    {typed[n] : n \in {m \in 2 .. Len(typed) : m < end /\ Value[m] /\ typed[m - 1] = o}}

\* What the client has made of the words before a position.
Scanned(end) ==
    /\ \A n \in DOMAIN typed : argv[n] = IF n < end /\ n \in Own THEN NULL ELSE typed[n]
    /\ Range(option.env_include_mask) = Behind("-Cenv", end)
    /\ Range(option.env_exclude_mask) = Behind("-Cenv-exclude", end)
    /\ option.env_all <=> \E n \in DOMAIN typed : n < end /\ typed[n] = "-Cenv-all" /\ ~Value[n]

ClientInv ==
    /\ Len(typed) <= MaxArgs
    /\ pc = "scan" => /\ i <= Len(typed) + 1 /\ (i <= Len(typed) => ~Value[i])
                      /\ Scanned(i)
    /\ pc \notin {"scan", "error", "printed"} => Scanned(Len(typed) + 1)

Sent == {"parse", "check", "run", "setup", "classpath",
         "invalidToken", "invalidHeader", "command", "script"}
Parsed == Sent \ {"parse", "invalidHeader"}

\* The entries of an environment that are asked for, and the lines that name them.
AskedIn(environment) == {n \in DOMAIN environment : Selected(environment[n].name)}
Section(entries) == FlattenSeq([k \in 1 .. Len(entries) |-> EnvLines(entries[k])])
Asked == AskedIn(environ)
Entries == Picked(environ, Asked)

HeaderOf(token, words, section, classpath) ==
    <<[key |-> "Cwd", value |-> None], [key |-> "Auth", value |-> token]>>
    \o [k \in 1 .. Len(words) |-> [key |-> "Arg", value |-> words[k]]]
    \o section
    \o (IF classpath # <<>> THEN <<[key |-> "Cp", value |-> classpath]>> ELSE <<>>)
    \o <<[key |-> "", value |-> None]>>

\* What the values of some variables have behind their first lines.
HasLine(entries, n, key) ==
    \E k \in 1 .. n : \E m \in 1 .. Len(entries[k].rest) : entries[k].rest[m].key = key
NoLine(entries, key) == ~HasLine(entries, Len(entries), key)
SingleLines(entries, n) == \A k \in 1 .. n : entries[k].rest = <<>>

\* The empty string has a name of its own, which the proofs below expand where they must.
Blank == ""

\* What the script sees of a variable.
Variable(entry) == <<entry.name, Trim(entry.value)>>

RequestInv ==
    /\ pc \in Sent => environ \in Environs /\ cp \in Classpaths
    /\ pc = "parse" =>
         \E token \in Words \cup {ServerToken} :
            wire = HeaderOf(token, Groovys, Section(Entries), cp)
    /\ pc \in Parsed =>
         /\ \E more \in Seq(Words) : /\ request.args = Groovys \o more
                                     /\ NoLine(Entries, "Arg") => more = <<>>
         /\ SingleLines(Entries, Len(Entries)) =>
               request.envVars = [k \in 1 .. Len(Entries) |-> Variable(Entries[k])]
         /\ NoLine(Entries, Blank) /\ NoLine(Entries, "Cp") => request.classpath = cp

\* Of the variables that are asked for the last of each name.
LastAsked(environment, asked) ==
    {Variable(environment[n]) :
       n \in {n \in asked : \A m \in asked : m > n => environment[m].name # environment[n].name}}

EnvInv ==
    pc \in {"classpath", "script"} /\ SingleLines(Entries, Len(Entries)) =>
        env = LastAsked(environ, Asked)

Taken == IsValue(request.args, CLASSPATH_OPTIONS)

\* What is kept and what is taken of the arguments before a position.
KeptAt == {n \in DOMAIN request.args : ~Taken[n] /\ request.args[n] \notin CLASSPATH_OPTIONS}
GivenAt == {n \in DOMAIN request.args : Taken[n] /\ request.args[n - 1] \in CLASSPATH_OPTIONS}
Kept(end) == Picked(request.args, Before(KeptAt, end))
Given(end) == Picked(request.args, Before(GivenAt, end))

PathsOf(words) == FlattenSeq([k \in 1 .. Len(words) |-> Split(words[k])])

\* "." is a string, but not one that the provers know of.
Path == STRING \cup {"."}

\* Each path of a list once, in the order of their first mention.
Gathered(list, all) ==
    /\ list \in Seq(Path) /\ Range(list) = Range(all)
    /\ \A k \in 1 .. Len(list) : \A m \in 1 .. k - 1 :
          /\ list[m] # list[k]
          /\ \E n \in 1 .. Len(all) : all[n] = list[m] /\ \A o \in 1 .. n : all[o] # list[k]

FilterInv ==
    /\ pc \notin {"classpath", "invalidHeader", "script"} => args = <<>> /\ paths = <<>>
    /\ pc = "classpath" => /\ i <= Len(request.args) + 1
                           /\ i <= Len(request.args) => ~Taken[i]
                           /\ args = Kept(i) /\ Gathered(paths, PathsOf(Given(i)))

IInv == /\ TypeOK /\ ClientInv /\ RequestInv /\ EnvInv /\ FilterInv
        /\ ArgumentsArrive /\ ClasspathArrives

-----------------------------------------------------------------------------
(* The client                                                              *)

\* The bounded lists of the model are sequences.
LEMMA Lists ==
    ASSUME NEW S, NEW bound \in Nat
    PROVE  UNION {[1 .. n -> S] : n \in 0 .. bound} = {s \in Seq(S) : Len(s) <= bound}
<1>1. ASSUME NEW s \in UNION {[1 .. n -> S] : n \in 0 .. bound}
      PROVE  s \in Seq(S) /\ Len(s) <= bound
  <2>1. PICK n \in 0 .. bound : s \in [1 .. n -> S]
    BY <1>1
  <2>. QED
    BY <2>1
<1>2. ASSUME NEW s \in Seq(S), Len(s) <= bound
      PROVE  s \in UNION {[1 .. n -> S] : n \in 0 .. bound}
  <2>1. Len(s) \in 0 .. bound /\ s \in [1 .. Len(s) -> S]
    BY <1>2, LenProperties
  <2>. QED
    BY <2>1
<1>. QED
  BY <1>1, <1>2

\* What the client knows of its line.
LEMMA TypedLine ==
    ASSUME TypeOK, ClientInv
    PROVE  /\ typed \in Seq(Words) /\ Len(typed) \in Nat /\ DOMAIN typed = 1 .. Len(typed)
           /\ argv \in Seq(Words \cup {NULL}) /\ Len(argv) = Len(typed)
           /\ DOMAIN argv = 1 .. Len(typed)
           /\ Len(typed) <= MaxArgs /\ i \in Nat /\ i >= 1
           /\ \A n \in 1 .. Len(typed) : typed[n] \in Words /\ typed[n] # NULL
           /\ Value \in [0 .. Len(typed) -> BOOLEAN]
           /\ \A n \in 0 .. Len(typed) :
                 Value[n] <=> n > 1 /\ ~Value[n - 1] /\ typed[n - 1] \in WithValue
<1>1. typed \in Seq(Words) /\ argv \in Seq(Words \cup {NULL}) /\ Len(argv) = Len(typed)
  BY DEF TypeOK
<1>2. /\ Len(typed) \in Nat /\ DOMAIN typed = 1 .. Len(typed)
      /\ DOMAIN argv = 1 .. Len(typed)
  BY <1>1, LenProperties
<1>3. Len(typed) <= MaxArgs /\ i \in Nat /\ i >= 1
  BY ConstantsAssumption DEF TypeOK, ClientInv
<1>4. \A n \in 1 .. Len(typed) : typed[n] \in Words /\ typed[n] # NULL
  BY <1>1, ElementOfSeq, ConstantsAssumption
<1>. QED
  BY <1>1, <1>2, <1>3, <1>4, IsValueIs DEF Value

\* The invariant holds at the start.
LEMMA Initial == Init => IInv
<1> SUFFICES ASSUME Init PROVE IInv
  OBVIOUS
<1>1. typed \in Seq(Words) /\ Len(typed) <= MaxArgs /\ Len(typed) \in Nat /\ argv = typed
  BY Lists, ConstantsAssumption, LenProperties DEF Init
<1>2. /\ option = [host |-> None, authtoken |-> None, kill |-> FALSE, restart |-> FALSE,
                   env_all |-> FALSE, env_include_mask |-> <<>>, env_exclude_mask |-> <<>>]
      /\ i = 1 /\ environ = <<>> /\ cp = <<>> /\ wire = <<>>
      /\ request.args = <<>> /\ request.envVars = <<>>
      /\ env = {} /\ paths = <<>> /\ args = <<>> /\ pc = "scan"
  BY DEF Init
<1>3. TypeOK
  <2>1. argv \in Seq(Words \cup {NULL}) /\ Len(argv) = Len(typed)
    BY <1>1, SeqMonotonic
  <2>2. <<>> \in UNION {[1 .. n -> Words] : n \in 0 .. MAX_MASK}
    BY Lists, ConstantsAssumption, EmptySeq
  <2>3. option \in [host : Words \cup {None}, authtoken : Words \cup {None},
                   kill : BOOLEAN, restart : BOOLEAN, env_all : BOOLEAN,
                   env_include_mask : UNION {[1 .. n -> Words] : n \in 0 .. MAX_MASK},
                   env_exclude_mask : UNION {[1 .. n -> Words] : n \in 0 .. MAX_MASK}]
    BY <1>2, <2>2
  <2>. QED
    BY <1>1, <1>2, <2>1, <2>3, EmptySeq DEF TypeOK
<1>4. ClientInv
  <2>1. Value \in [0 .. Len(typed) -> BOOLEAN] /\ \A n \in 0 .. Len(typed) : Value[n] => n > 1
    BY <1>1, IsValueIs DEF Value
  <2>2. DOMAIN typed = 1 .. Len(typed)
    BY <1>1
  <2>3. \A o : Behind(o, 1) = {}
    BY <1>1 DEF Behind
  <2>4. Range(<<>>) = {}
    BY DEF Range
  <2>5. Scanned(1)
    <3>1. \A n \in DOMAIN typed : ~(n < 1)
      BY <2>2
    <3>2. option.env_include_mask = <<>> /\ option.env_exclude_mask = <<>> /\ option.env_all = FALSE
      BY <1>2
    <3>. QED
      BY <1>1, <2>3, <2>4, <3>1, <3>2 DEF Scanned
  <2>. QED
    BY <1>1, <1>2, <2>1, <2>5 DEF ClientInv
<1>5. RequestInv /\ EnvInv /\ FilterInv /\ ArgumentsArrive /\ ClasspathArrives
  BY <1>2 DEF RequestInv, EnvInv, FilterInv, ArgumentsArrive, ClasspathArrives, Sent, Parsed
<1>. QED
  BY <1>3, <1>4, <1>5 DEF IInv

\* Until the header is sent the other parts of the invariant ask for nothing.
LEMMA NothingSentYet ==
    ASSUME IInv, pc \in {"scan", "control", "send"},
           pc' \in {"scan", "control", "send", "error", "printed", "killed"},
           UNCHANGED <<typed, sent, server>>
    PROVE  RequestInv' /\ EnvInv' /\ FilterInv' /\ ArgumentsArrive' /\ ClasspathArrives'
<1>1. /\ environ' = environ /\ cp' = cp /\ wire' = wire /\ request' = request
      /\ env' = env /\ paths' = paths /\ args' = args
  BY DEF sent, server
<1>2. pc \notin Parsed /\ pc' \notin Parsed /\ pc' \notin Sent /\ pc' # "parse"
  BY DEF Parsed, Sent
<1>3. args = <<>> /\ paths = <<>>
  BY <1>2 DEF IInv, FilterInv
<1>4. RequestInv'
  BY <1>2 DEF RequestInv
<1>. QED
  BY <1>1, <1>3, <1>4 DEF EnvInv, FilterInv, ArgumentsArrive, ClasspathArrives

\* Where the scan is, the line is as it was typed.
LEMMA AtScan ==
    ASSUME IInv, Scanning
    PROVE  /\ pc = "scan" /\ i \in 1 .. Len(typed) /\ argv[i] = typed[i] /\ ~Value[i] /\ Scanned(i)
           /\ typed[i] \in Words
           /\ i < Len(typed) => /\ i + 1 \in 1 .. Len(typed) /\ argv[i + 1] = typed[i + 1]
                                /\ typed[i + 1] \in Words
<1>. USE DEF IInv
<1>1. i \in 1 .. Len(typed) /\ pc = "scan"
  BY TypedLine DEF Scanning
<1>2. ~Value[i] /\ Scanned(i)
  BY <1>1, TypedLine DEF ClientInv
<1>3. argv[i] = typed[i]
  BY <1>1, <1>2, TypedLine DEF Scanned
<1>4. ASSUME i < Len(typed) PROVE i + 1 \in 1 .. Len(typed) /\ argv[i + 1] = typed[i + 1]
  <2>1. i + 1 \in 1 .. Len(typed) /\ ~(i + 1 < i)
    BY <1>1, <1>4, TypedLine
  <2>. QED
    BY <1>2, <2>1, TypedLine DEF Scanned
<1>. QED
  BY <1>1, <1>2, <1>3, <1>4, TypedLine

\* The scan passes a word that is no option with a value.
LEMMA OneWordScanned ==
    ASSUME IInv, Scanning, typed[i] \notin WithValue,
           argv' = IF typed[i] \in ClientOptions THEN [argv EXCEPT ![i] = NULL] ELSE argv,
           option'.env_include_mask = option.env_include_mask,
           option'.env_exclude_mask = option.env_exclude_mask,
           option'.env_all <=> option.env_all \/ typed[i] = "-Cenv-all",
           i' = i + 1, typed' = typed, pc' = pc
    PROVE  ClientInv'
<1>. USE AtScan
<1>1. /\ Value \in [0 .. Len(typed) -> BOOLEAN] /\ DOMAIN typed = 1 .. Len(typed)
      /\ DOMAIN argv = 1 .. Len(typed) /\ Len(typed) \in Nat /\ Len(typed) <= MaxArgs
      /\ \A n \in 0 .. Len(typed) :
            Value[n] <=> n > 1 /\ ~Value[n - 1] /\ typed[n - 1] \in WithValue
  BY TypedLine DEF IInv
<1>2. i' \in Nat /\ i' <= Len(typed) + 1 /\ (i' <= Len(typed) => ~Value[i'])
  <2>1. ASSUME i + 1 <= Len(typed) PROVE ~Value[i + 1]
    <3>1. i + 1 \in 0 .. Len(typed) /\ (i + 1) - 1 = i
      BY <1>1, <2>1
    <3>. QED
      BY <1>1, <3>1
  <2>. QED
    BY <1>1, <2>1
<1>3. i \in Own <=> typed[i] \in ClientOptions
  BY <1>1 DEF Own
<1>4. ASSUME NEW n \in DOMAIN typed
      PROVE  argv'[n] = IF n < i + 1 /\ n \in Own THEN NULL ELSE typed[n]
  <2>1. argv[n] = IF n < i /\ n \in Own THEN NULL ELSE typed[n]
    BY <1>4 DEF Scanned
  <2>2. CASE n = i
    BY <1>1, <1>3, <2>1, <2>2
  <2>3. CASE n # i
    <3>1. argv'[n] = argv[n] /\ (n < i + 1 <=> n < i)
      BY <1>1, <2>3
    <3>. QED
      BY <2>1, <3>1
  <2>. QED
    BY <2>2, <2>3
<1>5. ASSUME NEW o PROVE Behind(o, i + 1) = Behind(o, i)
  <2>1. \A m \in 2 .. Len(typed) : m < i + 1 /\ Value[m] <=> m < i /\ Value[m]
    BY <1>1
  <2>. QED
    BY <2>1 DEF Behind
<1>6. (\E n \in DOMAIN typed : n < i + 1 /\ typed[n] = "-Cenv-all" /\ ~Value[n])
      <=> \/ \E n \in DOMAIN typed : n < i /\ typed[n] = "-Cenv-all" /\ ~Value[n]
          \/ typed[i] = "-Cenv-all"
  BY <1>1
<1>7. Scanned(i)'
  <2>1. Value' = Value /\ typed' = typed /\ i' = i + 1
    BY DEF Value
  <2>2. Own' = Own /\ \A o : Behind(o, i)' = Behind(o, i + 1)
    BY <2>1 DEF Own, Behind
  <2>. QED
    BY <1>4, <1>5, <1>6, <2>1, <2>2 DEF Scanned
<1>. QED
  BY <1>1, <1>2, <1>7 DEF ClientInv, Value

\* It passes an option with its value.
LEMMA TwoWordsScanned ==
    ASSUME IInv, NEW w \in WithValue, ValueAt(w), pc' = pc,
           Range(option'.env_include_mask) =
               Range(option.env_include_mask) \cup (IF w = "-Cenv" THEN {argv[i + 1]} ELSE {}),
           Range(option'.env_exclude_mask) =
               Range(option.env_exclude_mask)
               \cup (IF w = "-Cenv-exclude" THEN {argv[i + 1]} ELSE {}),
           option'.env_all = option.env_all
    PROVE  ClientInv'
<1>1. Scanning /\ typed[i] = w /\ i < Len(typed) /\ i' = i + 2 /\ typed' = typed
      /\ argv' = [argv EXCEPT ![i] = NULL, ![i + 1] = NULL]
  BY AtScan, TypedLine DEF ValueAt, IInv
<1>. USE AtScan, <1>1
<1>2. /\ Value \in [0 .. Len(typed) -> BOOLEAN] /\ DOMAIN typed = 1 .. Len(typed)
      /\ DOMAIN argv = 1 .. Len(typed) /\ Len(typed) \in Nat /\ Len(typed) <= MaxArgs
      /\ \A n \in 0 .. Len(typed) :
            Value[n] <=> n > 1 /\ ~Value[n - 1] /\ typed[n - 1] \in WithValue
  BY TypedLine DEF IInv
<1>3. Value[i + 1]
  <2>1. i + 1 \in 0 .. Len(typed) /\ (i + 1) - 1 = i /\ i + 1 > 1
    BY <1>2
  <2>. QED
    BY <1>2, <2>1
<1>4. i' \in Nat /\ i' <= Len(typed) + 1 /\ (i' <= Len(typed) => ~Value[i'])
  <2>1. ASSUME i + 2 <= Len(typed) PROVE ~Value[i + 2]
    <3>1. i + 2 \in 0 .. Len(typed) /\ (i + 2) - 1 = i + 1
      BY <1>2, <2>1
    <3>. QED
      BY <1>2, <1>3, <3>1
  <2>. QED
    BY <1>2, <2>1
<1>5. i \in Own /\ i + 1 \in Own
  BY <1>2, <1>3 DEF Own, ClientOptions
<1>6. ASSUME NEW n \in DOMAIN typed
      PROVE  argv'[n] = IF n < i + 2 /\ n \in Own THEN NULL ELSE typed[n]
  <2>1. argv[n] = IF n < i /\ n \in Own THEN NULL ELSE typed[n]
    BY <1>6 DEF Scanned
  <2>2. CASE n = i \/ n = i + 1
    <3>1. argv'[n] = NULL /\ n < i + 2
      BY <1>2, <2>2
    <3>. QED
      BY <1>5, <2>2, <3>1
  <2>3. CASE ~(n = i \/ n = i + 1)
    <3>1. argv'[n] = argv[n] /\ (n < i + 2 <=> n < i)
      BY <1>2, <2>3
    <3>. QED
      BY <2>1, <3>1
  <2>. QED
    BY <2>2, <2>3
<1>7. ASSUME NEW o
      PROVE  Behind(o, i + 2) = Behind(o, i) \cup (IF w = o THEN {argv[i + 1]} ELSE {})
  <2>1. \A m \in 2 .. Len(typed) :
            m < i + 2 /\ Value[m] /\ typed[m - 1] = o
            <=> \/ m < i /\ Value[m] /\ typed[m - 1] = o
                \/ m = i + 1 /\ w = o
    <3>1. \A m \in 2 .. Len(typed) : m < i + 2 <=> m < i \/ m = i \/ m = i + 1
      BY <1>2
    <3>2. (i + 1) - 1 = i /\ i + 1 \in 2 .. Len(typed)
      BY <1>2
    <3>. QED
      BY <1>2, <1>3, <3>1, <3>2
  <2>2. i + 1 \in 2 .. Len(typed) /\ typed[i + 1] = argv[i + 1]
    BY <1>2
  <2>. QED
    BY <2>1, <2>2 DEF Behind
<1>8. (\E n \in DOMAIN typed : n < i + 2 /\ typed[n] = "-Cenv-all" /\ ~Value[n])
      <=> \E n \in DOMAIN typed : n < i /\ typed[n] = "-Cenv-all" /\ ~Value[n]
  <2>1. \A n \in DOMAIN typed : n < i + 2 <=> n < i \/ n = i \/ n = i + 1
    BY <1>2
  <2>2. typed[i] # "-Cenv-all"
    BY DEF WithValue
  <2>. QED
    BY <1>3, <2>1, <2>2
<1>9. Scanned(i)'
  <2>1. Value' = Value /\ typed' = typed /\ i' = i + 2
    BY DEF Value
  <2>2. Own' = Own /\ \A o : Behind(o, i)' = Behind(o, i + 2)
    BY <2>1 DEF Own, Behind
  <2>3. /\ Range(option'.env_include_mask) = Behind("-Cenv", i + 2)
        /\ Range(option'.env_exclude_mask) = Behind("-Cenv-exclude", i + 2)
    BY <1>7 DEF Scanned
  <2>4. option'.env_all <=> \E n \in DOMAIN typed : n < i + 2 /\ typed[n] = "-Cenv-all" /\ ~Value[n]
    BY <1>8 DEF Scanned
  <2>5. \A n \in DOMAIN typed' : argv'[n] = IF n < i' /\ n \in Own' THEN NULL ELSE typed'[n]
    BY <1>6, <2>1, <2>2
  <2>6. option'.env_all <=>
            \E n \in DOMAIN typed' : n < i' /\ typed'[n] = "-Cenv-all" /\ ~Value'[n]
    BY <2>1, <2>4
  <2>. QED
    BY <2>2, <2>3, <2>1, <2>5, <2>6 DEF Scanned
<1>. QED
  BY <1>2, <1>4, <1>9 DEF ClientInv, Value

\* An entry more is a value more.
LEMMA RangeAppend ==
    ASSUME NEW S, NEW seq \in Seq(S), NEW e \in S
    PROVE  Range(Append(seq, e)) = Range(seq) \cup {e}
<1>1. /\ DOMAIN Append(seq, e) = 1 .. Len(seq) + 1 /\ DOMAIN seq = 1 .. Len(seq)
      /\ \A k \in 1 .. Len(seq) : Append(seq, e)[k] = seq[k]
      /\ Append(seq, e)[Len(seq) + 1] = e /\ Len(seq) \in Nat
  BY AppendProperties, LenProperties
<1>2. \A k : k \in 1 .. Len(seq) + 1 <=> k \in 1 .. Len(seq) \/ k = Len(seq) + 1
  BY <1>1
<1>. QED
  BY <1>1, <1>2 DEF Range

\* The line and its options stay well formed while they are scanned.
LEMMA ScanTyped ==
    ASSUME IInv, Scanning, UNCHANGED <<typed, sent, server>>,
           \/ argv' \in {argv, [argv EXCEPT ![i] = NULL]}
           \/ i < Len(argv) /\ argv' = [argv EXCEPT ![i] = NULL, ![i + 1] = NULL],
           i' = i + 1 \/ (i < Len(argv) /\ i' = i + 2) \/ i' = i,
           option' \in [host : Words \cup {None}, authtoken : Words \cup {None},
                   kill : BOOLEAN, restart : BOOLEAN, env_all : BOOLEAN,
                   env_include_mask : UNION {[1 .. n -> Words] : n \in 0 .. MAX_MASK},
                   env_exclude_mask : UNION {[1 .. n -> Words] : n \in 0 .. MAX_MASK}],
           pc' \in {"scan", "error", "printed"}
    PROVE  TypeOK'
<1>. USE AtScan, TypedLine DEF IInv
<1>1. argv' \in Seq(Words \cup {NULL}) /\ Len(argv') = Len(argv)
  <2>1. \A seq \in Seq(Words \cup {NULL}) : \A n \in 1 .. Len(seq) :
            /\ [seq EXCEPT ![n] = NULL] \in Seq(Words \cup {NULL})
            /\ Len([seq EXCEPT ![n] = NULL]) = Len(seq)
    BY ExceptSeq
  <2> DEFINE once == [argv EXCEPT ![i] = NULL]
  <2>2. once \in Seq(Words \cup {NULL}) /\ Len(once) = Len(argv)
    BY <2>1
  <2>3. i < Len(argv) =>
            [once EXCEPT ![i + 1] = NULL] \in Seq(Words \cup {NULL})
            /\ Len([once EXCEPT ![i + 1] = NULL]) = Len(argv)
    <3>. HIDE DEF once
    <3>. QED
      BY <2>1, <2>2
  <2>. QED
    BY <2>2, <2>3
<1>2. i' \in Nat \ {0}
  OBVIOUS
<1>3. /\ typed' \in Seq(Words) /\ Len(argv') = Len(typed')
      /\ environ' \in Environs \cup {<<>>} /\ cp' \in Classpaths \cup {<<>>}
      /\ request'.args \in Seq(Words) /\ args' \in Seq(Words)
      /\ request'.envVars \in Seq(STRING \X TextLine) /\ env' \subseteq STRING \X TextLine
  BY <1>1 DEF TypeOK, sent, server
<1>. QED
  BY <1>1, <1>2, <1>3 DEF TypeOK, Ended

Masks == UNION {[1 .. n -> Words] : n \in 0 .. MAX_MASK}

\* A mask for which there is room is one more of its kind.
LEMMA MaskAdded ==
    ASSUME NEW masks \in Masks, NEW w \in Words, Len(masks) # MAX_MASK
    PROVE  Append(masks, w) \in Masks /\ Range(Append(masks, w)) = Range(masks) \cup {w}
<1>1. Masks = {s \in Seq(Words) : Len(s) <= MAX_MASK} /\ MAX_MASK \in Nat
  BY Lists, ConstantsAssumption DEF Masks
<1>2. masks \in Seq(Words) /\ Len(masks) \in Nat /\ Len(masks) < MAX_MASK
  BY <1>1, LenProperties
<1>3. Append(masks, w) \in Seq(Words) /\ Len(Append(masks, w)) = Len(masks) + 1
  BY <1>2, AppendProperties
<1>. QED
  BY <1>1, <1>2, <1>3, RangeAppend

\* Where the scan ends at once nothing is asked of the line.
LEMMA ScanGivesUp ==
    ASSUME IInv, pc' \in {"error", "printed"}, typed' = typed
    PROVE  ClientInv'
BY TypedLine DEF ClientInv, IInv

\* Every step of scan_options keeps the invariant.
LEMMA ScanInductive ==
    ASSUME IInv, Scan
    PROVE  IInv'
<1>. USE DEF IInv
<1>1. /\ option \in [host : Words \cup {None}, authtoken : Words \cup {None},
                     kill : BOOLEAN, restart : BOOLEAN, env_all : BOOLEAN,
                     env_include_mask : Masks, env_exclude_mask : Masks]
      /\ typed' = typed
  BY DEF TypeOK, Masks, Scan, Argument, Flag, Inform, Host, Port, AuthToken, IncludeMask,
         ExcludeMask, BadOption, CheckCombination, ValueAt, client
<1>2. CASE Argument
  <2>1. typed[i] \notin ClientOptions /\ Scanning /\ pc' = pc /\ i' = i + 1 /\ argv' = argv
        /\ option' = option
    BY <1>2, AtScan DEF Argument
  <2>2. typed[i] \notin WithValue /\ typed[i] # "-Cenv-all"
    BY <2>1 DEF ClientOptions, Flags
  <2>3. ClientInv'
    BY <1>1, <2>1, <2>2, OneWordScanned
  <2>4. TypeOK'
    BY <1>1, <1>2, <2>1, AtScan, ScanTyped DEF Argument, Masks
  <2>. QED
    BY <1>2, <2>1, <2>3, <2>4, NothingSentYet, AtScan DEF Argument
<1>3. CASE Flag
  <2>1. typed[i] \in Flags /\ Scanning /\ pc' = pc /\ i' = i + 1 /\ argv[i] = typed[i]
        /\ argv' = [argv EXCEPT ![i] = NULL]
    BY <1>3, AtScan DEF Flag
  <2>2. typed[i] \in ClientOptions /\ typed[i] \notin WithValue
    BY <2>1 DEF ClientOptions, Flags, WithValue
  <2>3. /\ option' \in [host : Words \cup {None}, authtoken : Words \cup {None},
                        kill : BOOLEAN, restart : BOOLEAN, env_all : BOOLEAN,
                        env_include_mask : Masks, env_exclude_mask : Masks]
        /\ option'.env_include_mask = option.env_include_mask
        /\ option'.env_exclude_mask = option.env_exclude_mask
        /\ option'.env_all <=> option.env_all \/ typed[i] = "-Cenv-all"
    <3>1. option' = CASE typed[i] = "-Ckill-server" -> [option EXCEPT !.kill = TRUE]
                   [] typed[i] = "-Crestart-server" -> [option EXCEPT !.restart = TRUE]
                   [] typed[i] = "-Cenv-all" -> [option EXCEPT !.env_all = TRUE]
                   [] OTHER -> option
      BY <1>3, <2>1 DEF Flag
    <3>2. CASE typed[i] = "-Ckill-server"
      <4>1. option' = [option EXCEPT !.kill = TRUE]
        BY <3>1, <3>2
      <4>. QED
        BY <1>1, <3>2, <4>1
    <3>3. CASE typed[i] = "-Crestart-server"
      <4>1. option' = [option EXCEPT !.restart = TRUE]
        BY <3>1, <3>3
      <4>. QED
        BY <1>1, <3>3, <4>1
    <3>4. CASE typed[i] = "-Cenv-all"
      <4>1. option' = [option EXCEPT !.env_all = TRUE]
        BY <3>1, <3>4
      <4>. QED
        BY <1>1, <3>4, <4>1
    <3>5. CASE typed[i] \notin {"-Ckill-server", "-Crestart-server", "-Cenv-all"}
      <4>1. option' = option
        BY <3>1, <3>5
      <4>. QED
        BY <1>1, <3>5, <4>1
    <3>. QED
      BY <3>2, <3>3, <3>4, <3>5
  <2>4. ClientInv'
    BY <1>1, <2>1, <2>2, <2>3, OneWordScanned
  <2>5. TypeOK'
    BY <1>1, <1>3, <2>1, <2>3, AtScan, ScanTyped DEF Flag, Masks
  <2>. QED
    BY <1>3, <2>1, <2>4, <2>5, NothingSentYet, AtScan DEF Flag
<1>4. CASE Inform \/ BadOption
  <2>1. Scanning /\ pc' \in {"error", "printed"}
        /\ UNCHANGED <<client, sent, server>>
    BY <1>4 DEF Inform, BadOption
  <2>2. argv' = argv /\ i' = i /\ option' = option
    BY <2>1 DEF client
  <2>3. TypeOK'
    BY <1>1, <2>1, <2>2, ScanTyped DEF Masks
  <2>. QED
    BY <1>1, <2>1, <2>3, NothingSentYet, ScanGivesUp, AtScan
<1>5. ASSUME NEW w \in WithValue, ValueAt(w), UNCHANGED <<sent, server>>,
             pc' \in {pc, "error"},
             option' \in [host : Words \cup {None}, authtoken : Words \cup {None},
                        kill : BOOLEAN, restart : BOOLEAN, env_all : BOOLEAN,
                        env_include_mask : Masks, env_exclude_mask : Masks],
             pc' = pc =>
               /\ Range(option'.env_include_mask) =
                     Range(option.env_include_mask) \cup (IF w = "-Cenv" THEN {argv[i + 1]} ELSE {})
               /\ Range(option'.env_exclude_mask) =
                     Range(option.env_exclude_mask)
                       \cup (IF w = "-Cenv-exclude" THEN {argv[i + 1]} ELSE {})
               /\ option'.env_all = option.env_all
      PROVE  IInv'
  <2>1. Scanning /\ i < Len(argv) /\ i' = i + 2
        /\ argv' = [argv EXCEPT ![i] = NULL, ![i + 1] = NULL]
    BY <1>5 DEF ValueAt
  <2>2. pc' \in {"scan", "error"}
    BY <1>5, <2>1, AtScan
  <2>3. TypeOK'
    BY <1>1, <1>5, <2>1, <2>2, ScanTyped DEF Masks
  <2>4. ClientInv'
    <3>1. CASE pc' = pc
      BY <1>5, <3>1, TwoWordsScanned
    <3>2. CASE pc' # pc
      BY <1>1, <1>5, <3>2, ScanGivesUp
    <3>. QED
      BY <3>1, <3>2
  <2>. QED
    BY <1>1, <1>5, <2>1, <2>2, <2>3, <2>4, NothingSentYet, AtScan
<1>6. ASSUME NEW w \in WithValue, ValueAt(w) PROVE argv[i + 1] \in Words
  <2>1. Scanning /\ i < Len(typed)
    BY <1>6, TypedLine DEF ValueAt
  <2>. QED
    BY <2>1, AtScan
<1>7. CASE Host
  <2>1. ValueAt("-Chost") /\ "-Chost" \in WithValue
        /\ option' = [option EXCEPT !.host = argv[i + 1]]
        /\ UNCHANGED <<sent, server>> /\ pc' = pc
    BY <1>7 DEF Host, WithValue
  <2>2. argv[i + 1] \in Words
    BY <1>6, <2>1
  <2>. QED
    BY <1>1, <1>5, <2>1, <2>2
<1>8. CASE Port
  <2>1. ValueAt("-Cport") /\ "-Cport" \in WithValue /\ option' = option
        /\ UNCHANGED <<sent, server>> /\ pc' \in {pc, "error"}
    BY <1>8 DEF Port, WithValue
  <2>. QED
    BY <1>1, <1>5, <2>1
<1>9. CASE AuthToken
  <2>1. /\ ValueAt("-Cauthtoken") /\ "-Cauthtoken" \in WithValue
        /\ option' = [option EXCEPT !.authtoken = argv[i + 1]]
        /\ UNCHANGED <<sent, server>> /\ pc' = pc
    BY <1>9 DEF AuthToken, WithValue
  <2>2. argv[i + 1] \in Words
    BY <1>6, <2>1
  <2>. QED
    BY <1>1, <1>5, <2>1, <2>2
<1>10. CASE IncludeMask
  <2>1. ValueAt("-Cenv") /\ "-Cenv" \in WithValue /\ UNCHANGED <<sent, server>>
    BY <1>10 DEF IncludeMask, WithValue
  <2>2. argv[i + 1] \in Words
    BY <1>6, <2>1
  <2>3. CASE Len(option.env_include_mask) = MAX_MASK
    <3>1. pc' = "error" /\ option' = option /\ pc = "scan"
      BY <1>10, <2>1, <2>3, AtScan DEF IncludeMask, ValueAt
    <3>. QED
      BY <1>1, <1>5, <2>1, <3>1
  <2>4. CASE Len(option.env_include_mask) # MAX_MASK
    <3> DEFINE longer == Append(option.env_include_mask, argv[i + 1])
    <3>1. option' = [option EXCEPT !.env_include_mask = longer] /\ pc' = pc
      BY <1>10, <2>4 DEF IncludeMask
    <3>2. longer \in Masks /\ Range(longer) = Range(option.env_include_mask) \cup {argv[i + 1]}
      BY <1>1, <2>2, <2>4, MaskAdded
    <3>. HIDE DEF longer
    <3>. QED
      BY <1>1, <1>5, <2>1, <3>1, <3>2
  <2>. QED
    BY <2>3, <2>4
<1>11. CASE ExcludeMask
  <2>1. ValueAt("-Cenv-exclude") /\ "-Cenv-exclude" \in WithValue /\ UNCHANGED <<sent, server>>
    BY <1>11 DEF ExcludeMask, WithValue
  <2>2. argv[i + 1] \in Words
    BY <1>6, <2>1
  <2>3. CASE Len(option.env_exclude_mask) = MAX_MASK
    <3>1. pc' = "error" /\ option' = option /\ pc = "scan"
      BY <1>11, <2>1, <2>3, AtScan DEF ExcludeMask, ValueAt
    <3>. QED
      BY <1>1, <1>5, <2>1, <3>1
  <2>4. CASE Len(option.env_exclude_mask) # MAX_MASK
    <3> DEFINE longer == Append(option.env_exclude_mask, argv[i + 1])
    <3>1. option' = [option EXCEPT !.env_exclude_mask = longer] /\ pc' = pc
      BY <1>11, <2>4 DEF ExcludeMask
    <3>2. longer \in Masks /\ Range(longer) = Range(option.env_exclude_mask) \cup {argv[i + 1]}
      BY <1>1, <2>2, <2>4, MaskAdded
    <3>. HIDE DEF longer
    <3>. QED
      BY <1>1, <1>5, <2>1, <3>1, <3>2
  <2>. QED
    BY <2>3, <2>4
<1>12. CASE CheckCombination
  <2>1. pc = "scan" /\ pc' \in {"error", "control"} /\ i > Len(argv)
        /\ UNCHANGED <<client, sent, server>>
    BY <1>12 DEF CheckCombination
  <2>2. TypeOK'
    BY <2>1 DEF TypeOK, client, sent, server, Ended
  <2>3. i = Len(typed) + 1
    BY <2>1, TypedLine DEF ClientInv
  <2>4. ClientInv'
    <3>1. Scanned(Len(typed) + 1)
      BY <2>1, <2>3 DEF ClientInv
    <3>2. Scanned(Len(typed) + 1)'
      BY <2>1, <3>1 DEF Scanned, Own, Behind, Value, client
    <3>. QED
      BY <2>1, <3>2, TypedLine DEF ClientInv, client
  <2>. QED
    BY <1>1, <2>1, <2>2, <2>4, NothingSentYet
<1>. QED
  BY <1>2, <1>3, <1>4, <1>7, <1>8, <1>9, <1>10, <1>11, <1>12 DEF Scan

-----------------------------------------------------------------------------
(* The request                                                             *)

\* What was picked is what stands at the positions.
LEMMA RangePicked ==
    ASSUME NEW S, NEW seq \in Seq(S), NEW positions \in SUBSET (1 .. Len(seq))
    PROVE  Range(Picked(seq, positions)) = {seq[p] : p \in positions}
<1>1. DOMAIN Picked(seq, positions) = 1 .. Len(Picked(seq, positions))
  BY PickedType, LenProperties
<1> DEFINE picked == Picked(seq, positions)
<1>2. /\ \A p \in positions : \E k \in 1 .. Len(picked) : picked[k] = seq[p]
      /\ \A k \in 1 .. Len(picked) : \E p \in positions : picked[k] = seq[p]
  BY PickedType
<1>. HIDE DEF picked
<1>3. Range(picked) = {picked[k] : k \in 1 .. Len(picked)}
  BY <1>1 DEF Range, picked
<1>4. Range(picked) = {seq[p] : p \in positions}
  <2>1. ASSUME NEW x \in Range(picked) PROVE x \in {seq[p] : p \in positions}
    <3>1. PICK k \in 1 .. Len(picked) : x = picked[k]
      BY <1>3, <2>1
    <3>. QED
      BY <1>2, <3>1
  <2>2. ASSUME NEW p \in positions PROVE seq[p] \in Range(picked)
    <3>1. PICK k \in 1 .. Len(picked) : picked[k] = seq[p]
      BY <1>2
    <3>. QED
      BY <1>3, <3>1
  <2>. QED
    BY <2>1, <2>2
<1>. QED
  BY <1>4 DEF picked

\* What the client leaves in its array are Groovy's words.
LEMMA WordsLeft ==
    ASSUME TypeOK, ClientInv
    PROVE  /\ Groovys \in Seq(Words) /\ Len(Groovys) \in Nat /\ Len(Groovys) <= Len(typed)
           /\ pc \notin {"scan", "error", "printed"} =>
                 Picked(argv, {n \in DOMAIN argv : argv[n] # NULL}) = Groovys
<1>. USE TypedLine
<1> DEFINE positions == {n \in DOMAIN typed : ~Value[n] /\ typed[n] \notin ClientOptions}
<1>1. Groovys = Picked(typed, positions) /\ positions \in SUBSET (1 .. Len(typed))
  BY DEF Groovys, Without, Value
<1>2. Groovys \in Seq(Words) /\ Len(Groovys) <= Len(typed)
  BY <1>1, PickedType
<1>3. ASSUME pc \notin {"scan", "error", "printed"}
      PROVE  Picked(argv, {n \in DOMAIN argv : argv[n] # NULL}) = Groovys
  <2>1. \A n \in DOMAIN typed : argv[n] = IF n \in Own THEN NULL ELSE typed[n]
    <3>1. Scanned(Len(typed) + 1)
      BY <1>3 DEF ClientInv
    <3>2. \A n \in DOMAIN typed : n < Len(typed) + 1
      OBVIOUS
    <3>. QED
      BY <3>1, <3>2 DEF Scanned
  <2>2. {n \in DOMAIN argv : argv[n] # NULL} = positions
    BY <2>1 DEF Own
  <2>3. \A p \in positions : argv[p] = typed[p]
    BY <2>1 DEF Own
  <2>4. typed \in Seq(Words \cup {NULL})
    BY SeqMonotonic
  <2>. HIDE DEF positions
  <2>5. positions \subseteq 1 .. Len(argv)
    BY <1>1
  <2>6. Picked(argv, positions) = Picked(typed, positions)
    BY <1>1, <2>3, <2>4, <2>5, PickedAlike
  <2>. QED
    BY <1>1, <2>2, <2>6
<1>. QED
  BY <1>2, <1>3, LenProperties

\* The words that an option gives are those that stand behind it.
LEMMA GivenIsBehind ==
    ASSUME TypeOK, ClientInv, NEW o
    PROVE  Range(ValuesOf(typed, {o}, WithValue)) = Behind(o, Len(typed) + 1)
<1>. USE TypedLine
<1> DEFINE positions == {n \in DOMAIN typed : Value[n] /\ typed[n - 1] \in {o}}
<1>1. ValuesOf(typed, {o}, WithValue) = Picked(typed, positions)
  BY DEF ValuesOf, Value
<1>2. positions = {m \in 2 .. Len(typed) : m < Len(typed) + 1 /\ Value[m] /\ typed[m - 1] = o}
  <2>1. \A m \in DOMAIN typed : Value[m] => m \in 2 .. Len(typed) /\ m < Len(typed) + 1
    OBVIOUS
  <2>2. \A m \in 2 .. Len(typed) : m \in DOMAIN typed
    OBVIOUS
  <2>. QED
    BY <2>1, <2>2
<1>3. positions \in SUBSET (1 .. Len(typed))
  OBVIOUS
<1>4. Range(Picked(typed, positions)) = {typed[p] : p \in positions}
  <2>. HIDE DEF positions
  <2>. QED
    BY <1>3, RangePicked
<1>. QED
  BY <1>1, <1>2, <1>4 DEF Behind

\* The client propagates what its line selects.
LEMMA PropagatedIsSelected ==
    ASSUME TypeOK, ClientInv, pc \notin {"scan", "error", "printed"}, NEW entry
    PROVE  Propagated(entry) <=> Selected(entry.name)
<1>. USE TypedLine
<1>1. Scanned(Len(typed) + 1)
  BY DEF ClientInv
<1>2. \A masks \in Masks : masks_match(masks, entry.name) <=>
          \E w \in Range(masks) : Includes(entry.name, w)
  <2>. SUFFICES ASSUME NEW masks \in Masks
                PROVE  masks_match(masks, entry.name) <=>
                           \E w \in Range(masks) : Includes(entry.name, w)
    OBVIOUS
  <2>1. DOMAIN masks = 1 .. Len(masks)
    <3>1. masks \in Seq(Words)
      BY Lists, ConstantsAssumption DEF Masks
    <3>. QED
      BY <3>1, LenProperties
  <2>. QED
    BY <2>1 DEF masks_match, Range
<1>3. option.env_include_mask \in Masks /\ option.env_exclude_mask \in Masks
  BY DEF TypeOK, Masks
<1>4. /\ Range(option.env_include_mask) = Range(ValuesOf(typed, {"-Cenv"}, WithValue))
      /\ Range(option.env_exclude_mask) = Range(ValuesOf(typed, {"-Cenv-exclude"}, WithValue))
  BY <1>1, GivenIsBehind DEF Scanned
<1>5. option.env_all <=> \E n \in 1 .. Len(typed) : typed[n] = "-Cenv-all" /\ ~Value[n]
  <2>1. \A n \in 1 .. Len(typed) : n < Len(typed) + 1
    OBVIOUS
  <2>. QED
    BY <1>1, <2>1 DEF Scanned
<1> DEFINE included == \E w \in Range(ValuesOf(typed, {"-Cenv"}, WithValue)) :
                          Includes(entry.name, w)
           excluded == \E w \in Range(ValuesOf(typed, {"-Cenv-exclude"}, WithValue)) :
                          Includes(entry.name, w)
<1>6. /\ masks_match(option.env_include_mask, entry.name) <=> included
      /\ masks_match(option.env_exclude_mask, entry.name) <=> excluded
  BY <1>2, <1>3, <1>4
<1>7. Selected(entry.name) <=>
        /\ (\E n \in 1 .. Len(typed) : typed[n] = "-Cenv-all" /\ ~Value[n]) \/ included
        /\ ~excluded
  BY DEF Selected, Value
<1>. HIDE DEF included, excluded
<1>. QED
  BY <1>5, <1>6, <1>7 DEF Propagated

-----------------------------------------------------------------------------
(* The lines of a header                                                   *)

Entry == [name : STRING, value : TextLine, rest : Seq(RestLine)]
HeaderValue(token) == {None, token} \cup STRING \cup Words \cup {Undecodable}
                      \cup (STRING \X TextLine) \cup Seq(STRING)
HeaderKey == {"Cwd", "Auth", "Arg", "Env", Blank, "other", "Cp", "Cmd"}

\* An argument's line has a word or what is no Base64, a variable's a variable.
Fits(line) ==
    /\ line.key = "Arg" => line.value \in Words \cup {Undecodable}
    /\ line.key = "Env" => line.value \in STRING \X TextLine
HeaderLine(token) == {line \in [key : HeaderKey, value : HeaderValue(token)] : Fits(line)}

IsBlank(line) == line.key = Blank
FirstLine(entry) == [key |-> "Env", value |-> <<entry.name, entry.value>>]
KeyAt(lines, key) == {j \in 1 .. Len(lines) : lines[j].key = key}

LEMMA BlankDiffers == Blank \notin {"Cwd", "Auth", "Arg", "Env", "other", "Cp", "Cmd"}
BY DEF Blank

\* What a value has behind its first line are lines like any other.
LEMMA RestFits ==
    ASSUME NEW token
    PROVE  RestLine \subseteq HeaderLine(token)
<1>1. RestLine = [key : {Blank}, value : {None}]
                 \cup [key : {"Arg"}, value : Words \cup {Undecodable}]
                 \cup [key : {"Env"}, value : STRING \X TextLine]
                 \cup [key : {"Cp"}, value : Seq(STRING)]
                 \cup [key : {"Auth", "Cmd", "other"}, value : STRING]
  BY Zenon DEF RestLine, Blank
<1>2. ASSUME NEW line \in RestLine
      PROVE  line \in [key : HeaderKey, value : HeaderValue(token)] /\ Fits(line)
  <2>1. CASE line \in [key : {Blank}, value : {None}]
    BY <2>1, BlankDiffers DEF HeaderKey, HeaderValue, Fits
  <2>2. CASE line \in [key : {"Arg"}, value : Words \cup {Undecodable}]
    BY <2>2 DEF HeaderKey, HeaderValue, Fits
  <2>3. CASE line \in [key : {"Env"}, value : STRING \X TextLine]
    BY <2>3 DEF HeaderKey, HeaderValue, Fits
  <2>4. CASE line \in [key : {"Cp"}, value : Seq(STRING)]
    BY <2>4 DEF HeaderKey, HeaderValue, Fits
  <2>5. CASE line \in [key : {"Auth", "Cmd", "other"}, value : STRING]
    BY <2>5 DEF HeaderKey, HeaderValue, Fits
  <2>. QED
    BY <1>1, <2>1, <2>2, <2>3, <2>4, <2>5
<1>. QED
  BY <1>2 DEF HeaderLine

\* A position of a concatenation is one of its first or of its second part.
LEMMA TwoParts ==
    ASSUME NEW S, NEW s \in Seq(S), NEW t \in Seq(S)
    PROVE  /\ s \o t \in Seq(S) /\ Len(s \o t) = Len(s) + Len(t)
           /\ \A k \in 1 .. Len(s) : (s \o t)[k] = s[k]
           /\ \A k \in 1 .. Len(t) : (s \o t)[Len(s) + k] = t[k]
<1> DEFINE m == Len(s)
           n == Len(t)
<1>1. m \in Nat /\ n \in Nat
  BY LenProperties
<1>2. /\ s \o t \in Seq(S) /\ Len(s \o t) = m + n
      /\ \A k \in 1 .. m + n : (s \o t)[k] = IF k <= m THEN s[k] ELSE t[k - m]
  BY ConcatProperties
<1>3. ASSUME NEW k \in 1 .. m PROVE (s \o t)[k] = s[k]
  <2>1. k \in 1 .. m + n /\ k <= m
    BY <1>1
  <2>. QED
    BY <1>2, <2>1
<1>4. ASSUME NEW k \in 1 .. n PROVE (s \o t)[m + k] = t[k]
  <2>1. m + k \in 1 .. m + n /\ ~(m + k <= m) /\ (m + k) - m = k
    BY <1>1
  <2>. QED
    BY <1>2, <2>1
<1>. QED
  BY <1>2, <1>3, <1>4

\* A variable is sent as a line that names it and the others of its value.
LEMMA LinesOfVariable ==
    ASSUME NEW token, NEW entry \in Entry
    PROVE  /\ EnvLines(entry) \in Seq(HeaderLine(token))
           /\ Len(EnvLines(entry)) = 1 + Len(entry.rest) /\ Len(entry.rest) \in Nat
           /\ EnvLines(entry)[1] = FirstLine(entry)
           /\ \A j \in 1 .. Len(entry.rest) : EnvLines(entry)[1 + j] = entry.rest[j]
<1> DEFINE first == <<FirstLine(entry)>>
           rest == entry.rest
           S == HeaderLine(token)
<1>1. first \in Seq(S) /\ Len(first) = 1 /\ first[1] = FirstLine(entry)
  <2>1. <<entry.name, entry.value>> \in STRING \X TextLine
    BY DEF Entry
  <2>2. FirstLine(entry) \in S
    BY <2>1 DEF FirstLine, HeaderLine, HeaderKey, HeaderValue, Fits
  <2>. HIDE DEF S
  <2>. QED
    BY <2>2
<1>2. rest \in Seq(S) /\ Len(rest) \in Nat
  <2>1. rest \in Seq(RestLine)
    BY DEF Entry
  <2>. HIDE DEF rest
  <2>2. RestLine \subseteq S
    BY RestFits
  <2>. HIDE DEF S
  <2>. QED
    BY <2>1, <2>2, SeqMonotonic, LenProperties
<1>3. EnvLines(entry) = first \o rest
  BY DEF EnvLines, FirstLine
<1>. HIDE DEF first, rest, S
<1>4. /\ first \o rest \in Seq(S) /\ Len(first \o rest) = Len(first) + Len(rest)
      /\ \A k \in 1 .. Len(first) : (first \o rest)[k] = first[k]
      /\ \A k \in 1 .. Len(rest) : (first \o rest)[Len(first) + k] = rest[k]
  <2>1. first \in Seq(S) /\ rest \in Seq(S)
    BY <1>1, <1>2
  <2>. QED
    BY <2>1, TwoParts
<1>5. 1 \in 1 .. Len(first)
  BY <1>1
<1>. QED
  BY <1>1, <1>2, <1>3, <1>4, <1>5 DEF rest, S

\* What the lines of some variables are: lines that name them or that their values
\* have; and just the former if no value has more.
SectionOf(lines, entries, n) ==
    /\ \A j \in 1 .. Len(lines) : lines[j].key = "Env" \/ HasLine(entries, n, lines[j].key)
    /\ SingleLines(entries, n) => lines = [k \in 1 .. n |-> FirstLine(entries[k])]

\* A variable more continues the section with its lines.
LEMMA SectionGrows ==
    ASSUME NEW token, NEW lines \in Seq(HeaderLine(token)), NEW entries \in Seq(Entry),
           NEW n \in Nat, n < Len(entries), SectionOf(lines, entries, n)
    PROVE  SectionOf(lines \o EnvLines(entries[n + 1]), entries, n + 1)
<1> DEFINE entry == entries[n + 1]
           more == EnvLines(entry)
           all == lines \o more
           L == Len(lines)
           R == Len(entry.rest)
<1>1. n + 1 \in 1 .. Len(entries) /\ entry \in Entry
  BY LenProperties, ElementOfSeq
<1>2. /\ more \in Seq(HeaderLine(token)) /\ Len(more) = 1 + R /\ R \in Nat
      /\ more[1] = FirstLine(entry) /\ \A j \in 1 .. R : more[1 + j] = entry.rest[j]
  BY <1>1, LinesOfVariable
<1>. HIDE DEF more, entry
<1>3. /\ all \in Seq(HeaderLine(token)) /\ Len(all) = L + Len(more)
      /\ \A k \in 1 .. L : all[k] = lines[k]
      /\ \A k \in 1 .. Len(more) : all[L + k] = more[k]
  <2> DEFINE S == HeaderLine(token)
  <2>1. lines \in Seq(S) /\ more \in Seq(S)
    BY <1>2
  <2>. HIDE DEF S
  <2>2. /\ lines \o more \in Seq(S) /\ Len(lines \o more) = Len(lines) + Len(more)
        /\ \A k \in 1 .. Len(lines) : (lines \o more)[k] = lines[k]
        /\ \A k \in 1 .. Len(more) : (lines \o more)[Len(lines) + k] = more[k]
    BY <2>1, TwoParts
  <2>. QED
    BY <2>2 DEF S
<1>4. L \in Nat
  BY LenProperties
<1>. HIDE DEF all, L, R
<1>5. ASSUME NEW j \in 1 .. Len(all)
      PROVE  all[j].key = "Env" \/ HasLine(entries, n + 1, all[j].key)
  <2>1. CASE j \in 1 .. L
    <3>1. all[j] = lines[j] /\ (lines[j].key = "Env" \/ HasLine(entries, n, lines[j].key))
      BY <1>3, <2>1 DEF SectionOf, L
    <3>2. \A k \in 1 .. n : k \in 1 .. n + 1
      OBVIOUS
    <3>. QED
      BY <3>1, <3>2 DEF HasLine
  <2>2. CASE j = L + 1
    <3>1. all[j] = FirstLine(entry)
      <4>1. 1 \in 1 .. Len(more)
        BY <1>2
      <4>. QED
        BY <1>2, <1>3, <2>2, <4>1
    <3>. QED
      BY <3>1 DEF FirstLine
  <2>3. CASE j \notin 1 .. L /\ j # L + 1
    <3>1. /\ j - (L + 1) \in 1 .. R /\ 1 + (j - (L + 1)) \in 1 .. Len(more)
          /\ L + (1 + (j - (L + 1))) = j
      BY <1>2, <1>3, <1>4, <2>3
    <3>2. all[j] = entry.rest[j - (L + 1)]
      BY <1>2, <1>3, <3>1
    <3>3. n + 1 \in 1 .. n + 1
      OBVIOUS
    <3>. QED
      BY <3>1, <3>2, <3>3 DEF HasLine, entry, R
  <2>. QED
    BY <2>1, <2>2, <2>3
<1>6. ASSUME SingleLines(entries, n + 1)
      PROVE  all = [k \in 1 .. n + 1 |-> FirstLine(entries[k])]
  <2>1. \A k \in 1 .. n : k \in 1 .. n + 1
    OBVIOUS
  <2>2. lines = [k \in 1 .. n |-> FirstLine(entries[k])]
    BY <1>6, <2>1 DEF SectionOf, SingleLines
  <2>3. R = 0
    <3>1. n + 1 \in 1 .. n + 1
      OBVIOUS
    <3>2. entry.rest = <<>>
      BY <1>6, <3>1 DEF SingleLines, entry
    <3>. QED
      BY <3>2 DEF R
  <2>4. L = n
    BY <2>2 DEF L
  <2>5. Len(all) = n + 1 /\ all = [k \in 1 .. n + 1 |-> all[k]]
    <3>1. Len(all) = n + 1
      BY <1>2, <1>3, <2>3, <2>4
    <3>2. all = [k \in 1 .. Len(all) |-> all[k]]
      BY <1>3, LenProperties
    <3>. QED
      BY <3>1, <3>2
  <2>6. ASSUME NEW k \in 1 .. n + 1 PROVE all[k] = FirstLine(entries[k])
    <3>1. CASE k = n + 1
      <4>1. 1 \in 1 .. Len(more)
        BY <1>2
      <4>2. all[n + 1] = more[1]
        BY <1>3, <2>4, <4>1
      <4>. QED
        BY <1>2, <3>1, <4>2 DEF entry
    <3>2. CASE k # n + 1
      <4>1. k \in 1 .. n
        BY <3>2
      <4>. QED
        BY <1>3, <2>2, <2>4, <4>1
    <3>. QED
      BY <3>1, <3>2
  <2>. QED
    BY <2>5, <2>6
<1>7. SectionOf(all, entries, n + 1)
  BY <1>5, <1>6 DEF SectionOf
<1>. QED
  BY <1>7 DEF all, more, entry

\* So the lines of an environment are that.
LEMMA EnvironmentSection ==
    ASSUME NEW token, NEW entries \in Seq(Entry)
    PROVE  /\ Section(entries) \in Seq(HeaderLine(token))
           /\ SectionOf(Section(entries), entries, Len(entries))
<1> DEFINE Lines(n) == [k \in 1 .. n |-> EnvLines(entries[k])]
           Right(n) == /\ Lines(n) \in Seq(Seq(HeaderLine(token)))
                       /\ FlattenSeq(Lines(n)) \in Seq(HeaderLine(token))
                       /\ SectionOf(FlattenSeq(Lines(n)), entries, n)
           T == {n \in Nat : n <= Len(entries) => Right(n)}
<1>1. Len(entries) \in Nat
  BY LenProperties
<1>2. 0 \in T
  <2>1. Lines(0) = <<>> /\ FlattenSeq(<<>>) = <<>>
    BY FlattenNone
  <2>2. SectionOf(<<>>, entries, 0)
    <3>1. (\A j \in 1 .. Len(<<>>) : FALSE) /\ [k \in 1 .. 0 |-> FirstLine(entries[k])] = <<>>
      OBVIOUS
    <3>. QED
      BY <3>1 DEF SectionOf
  <2>3. Lines(0) \in Seq(Seq(HeaderLine(token)))
    BY <2>1, EmptySeq
  <2>. HIDE DEF Lines
  <2>. QED
    BY <2>1, <2>2, <2>3, EmptySeq
<1>3. ASSUME NEW n \in Nat, n \in T PROVE n + 1 \in T
  <2>. SUFFICES ASSUME n + 1 <= Len(entries) PROVE Right(n + 1)
    OBVIOUS
  <2>1. Right(n) /\ n < Len(entries)
    BY <1>1, <1>3
  <2>2. EnvLines(entries[n + 1]) \in Seq(HeaderLine(token))
    <3>1. entries[n + 1] \in Entry
      BY <1>1, ElementOfSeq
    <3>. QED
      BY <3>1, LinesOfVariable
  <2>3. /\ Lines(n + 1) = Append(Lines(n), EnvLines(entries[n + 1]))
        /\ Lines(n + 1) \in Seq(Seq(HeaderLine(token)))
    <3> DEFINE a == Lines(n)
               e == EnvLines(entries[n + 1])
    <3>1. Len(a) = n /\ \A k \in 1 .. n : a[k] = EnvLines(entries[k])
      OBVIOUS
    <3>2. Append(a, e) \in Seq(Seq(HeaderLine(token))) /\ Len(Append(a, e)) = n + 1
          /\ (\A k \in 1 .. n : Append(a, e)[k] = a[k]) /\ Append(a, e)[n + 1] = e
      <4>. HIDE DEF a, e
      <4>1. a \in Seq(Seq(HeaderLine(token))) /\ e \in Seq(HeaderLine(token))
        BY <2>1, <2>2 DEF a, e
      <4>. QED
        BY <3>1, <4>1, AppendProperties
    <3>3. \A k \in 1 .. n + 1 : Append(a, e)[k] = EnvLines(entries[k])
      <4>. SUFFICES ASSUME NEW k \in 1 .. n + 1 PROVE Append(a, e)[k] = EnvLines(entries[k])
        OBVIOUS
      <4>1. CASE k = n + 1
        BY <3>2, <4>1
      <4>2. CASE k # n + 1
        <5>1. k \in 1 .. n
          BY <4>2
        <5>. HIDE DEF a
        <5>. QED
          BY <3>1, <3>2, <5>1
      <4>. QED
        BY <4>1, <4>2
    <3>4. DOMAIN Append(a, e) = 1 .. n + 1
      <4>. HIDE DEF a, e
      <4>. QED
        BY <3>2, LenProperties
    <3>5. Append(a, e) = [k \in 1 .. n + 1 |-> Append(a, e)[k]]
      <4>. HIDE DEF a, e
      <4>. QED
        BY <3>2, <3>4, LenProperties
    <3>6. Lines(n + 1) = Append(a, e)
      <4> DEFINE b == Append(a, e)
      <4>. HIDE DEF b
      <4>1. b = [k \in 1 .. n + 1 |-> b[k]] /\ \A k \in 1 .. n + 1 : b[k] = EnvLines(entries[k])
        BY <3>3, <3>5 DEF b
      <4>2. Lines(n + 1) = b
        BY <4>1
      <4>. QED
        BY <4>2 DEF b
    <3>. HIDE DEF Lines
    <3>. QED
      BY <3>2, <3>6
  <2>. HIDE DEF Lines
  <2>4. FlattenSeq(Lines(n + 1)) = FlattenSeq(Lines(n)) \o EnvLines(entries[n + 1])
    BY <2>1, <2>2, <2>3, FlattenAppend
  <2>5. FlattenSeq(Lines(n + 1)) \in Seq(HeaderLine(token))
    BY <2>1, <2>2, <2>4, ConcatProperties
  <2>6. SectionOf(FlattenSeq(Lines(n + 1)), entries, n + 1)
    BY <2>1, <2>4, SectionGrows
  <2>. QED
    BY <2>3, <2>5, <2>6
<1>4. Len(entries) \in T
  <2>. HIDE DEF T
  <2>. QED
    BY <1>1, <1>2, <1>3, Induction
<1>5. Right(Len(entries))
  BY <1>1, <1>4
<1>. QED
  BY <1>5 DEF Section

\* Where the lines of a header are: the arguments from the third on, the section
\* of the environment behind them, then the classpath if there is one.
LaidOut(lines, words, section, classpath, W, L, end) ==
    /\ W \in Nat /\ L \in Nat /\ Len(lines) = end
    /\ lines[1].key = "Cwd" /\ lines[2].key = "Auth"
    /\ \A k \in 1 .. W : lines[2 + k] = [key |-> "Arg", value |-> words[k]]
    /\ \A k \in 1 .. L : lines[2 + W + k] = section[k]
    /\ classpath # <<>> => lines[2 + W + L + 1] = [key |-> "Cp", value |-> classpath]
    /\ IsBlank(lines[end])

Size(W, L, classpath) == 2 + W + L + (IF classpath # <<>> THEN 1 ELSE 0) + 1

\* Where the header has what.
LEMMA HeaderLines ==
    ASSUME NEW token, NEW words \in Seq(Words), NEW section \in Seq(HeaderLine(token)),
           NEW classpath \in Classpaths, NEW W, NEW L, W = Len(words), L = Len(section)
    PROVE  /\ HeaderOf(token, words, section, classpath) \in Seq(HeaderLine(token))
           /\ LaidOut(HeaderOf(token, words, section, classpath), words, section, classpath,
                      W, L, Size(W, L, classpath))
<1> DEFINE top == <<[key |-> "Cwd", value |-> None], [key |-> "Auth", value |-> token]>>
           arguments == [k \in 1 .. Len(words) |-> [key |-> "Arg", value |-> words[k]]]
           classpaths == IF classpath # <<>> THEN <<[key |-> "Cp", value |-> classpath]>> ELSE <<>>
           line == [key |-> Blank, value |-> None]
           final == <<line>>
           c == IF classpath # <<>> THEN 1 ELSE 0
           S == HeaderLine(token)
<1>1. \A v \in HeaderValue(token) : \A key \in HeaderKey \ {"Arg", "Env"} :
          [key |-> key, value |-> v] \in S
  BY DEF HeaderLine, Fits
<1>2. W \in Nat /\ L \in Nat /\ c \in Nat
  BY LenProperties
<1>3. top \in Seq(S) /\ Len(top) = 2 /\ top[1].key = "Cwd" /\ top[2].key = "Auth"
  <2>1. [key |-> "Cwd", value |-> None] \in S /\ [key |-> "Auth", value |-> token] \in S
    BY <1>1 DEF HeaderKey, HeaderValue
  <2>. HIDE DEF S
  <2>. QED
    BY <2>1
<1>4. /\ arguments \in Seq(S) /\ Len(arguments) = W
      /\ \A k \in 1 .. W : arguments[k] = [key |-> "Arg", value |-> words[k]]
  <2>1. \A k \in 1 .. W : [key |-> "Arg", value |-> words[k]] \in S
    <3>. SUFFICES ASSUME NEW k \in 1 .. W PROVE [key |-> "Arg", value |-> words[k]] \in S
      OBVIOUS
    <3>1. words[k] \in Words
      BY ElementOfSeq
    <3>. QED
      BY <3>1 DEF HeaderLine, HeaderKey, HeaderValue, Fits
  <2>. HIDE DEF S
  <2>2. arguments = [k \in 1 .. W |-> [key |-> "Arg", value |-> words[k]]]
    OBVIOUS
  <2>3. arguments \in [1 .. W -> S]
    BY <2>1, <2>2
  <2>. QED
    BY <1>2, <2>2, <2>3
<1>5. /\ classpaths \in Seq(S) /\ Len(classpaths) = c
      /\ classpath # <<>> => classpaths[1] = [key |-> "Cp", value |-> classpath]
  <2>1. [key |-> "Cp", value |-> classpath] \in S
    <3>1. classpath \in Seq(STRING)
      BY DataAssumption
    <3>. QED
      BY <1>1, <3>1 DEF HeaderKey, HeaderValue
  <2>. HIDE DEF S
  <2>. QED
    BY <2>1
<1>6. final \in Seq(S) /\ Len(final) = 1 /\ IsBlank(final[1])
  <2>1. line \in S /\ IsBlank(line)
    BY <1>1, BlankDiffers DEF HeaderKey, HeaderValue, IsBlank
  <2>. HIDE DEF S, line, top, arguments, classpaths, c
  <2>2. line \in S
    BY <2>1
  <2>3. Len(final) = 1
    OBVIOUS
  <2>4. final \in Seq(S)
    BY <2>2
  <2>5. final[1] = line
    OBVIOUS
  <2>. QED
    BY <2>1, <2>3, <2>5, <2>4
<1> DEFINE a == top \o arguments
           b == a \o section
           d == b \o classpaths
           e == d \o final
<1>7. e = HeaderOf(token, words, section, classpath)
  BY Zenon DEF HeaderOf, Blank
<1>. HIDE DEF top, arguments, classpaths, line, final, c, S
<1>8. /\ a \in Seq(S) /\ Len(a) = 2 + W
      /\ \A k \in 1 .. 2 : a[k] = top[k]
      /\ \A k \in 1 .. W : a[2 + k] = arguments[k]
  <2>1. /\ a \in Seq(S) /\ Len(a) = Len(top) + Len(arguments)
        /\ \A k \in 1 .. Len(top) : a[k] = top[k]
        /\ \A k \in 1 .. Len(arguments) : a[Len(top) + k] = arguments[k]
    <3>1. top \in Seq(S) /\ arguments \in Seq(S)
      BY <1>3, <1>4
    <3>. QED
      BY <3>1, TwoParts
  <2>. HIDE DEF a
  <2>. QED
    BY <1>3, <1>4, <2>1
<1>. HIDE DEF a
<1>9. /\ b \in Seq(S) /\ Len(b) = 2 + W + L
      /\ \A k \in 1 .. 2 + W : b[k] = a[k]
      /\ \A k \in 1 .. L : b[2 + W + k] = section[k]
  <2>1. section \in Seq(S)
    BY DEF S
  <2>2. /\ b \in Seq(S) /\ Len(b) = Len(a) + Len(section)
        /\ \A k \in 1 .. Len(a) : b[k] = a[k]
        /\ \A k \in 1 .. Len(section) : b[Len(a) + k] = section[k]
    <3>1. a \in Seq(S) /\ section \in Seq(S)
      BY <1>8, <2>1
    <3>. QED
      BY <3>1, TwoParts
  <2>. HIDE DEF b
  <2>. QED
    BY <1>8, <2>2
<1>. HIDE DEF b
<1>10. /\ d \in Seq(S) /\ Len(d) = 2 + W + L + c
       /\ \A k \in 1 .. 2 + W + L : d[k] = b[k]
       /\ \A k \in 1 .. c : d[2 + W + L + k] = classpaths[k]
  <2>1. /\ d \in Seq(S) /\ Len(d) = Len(b) + Len(classpaths)
        /\ \A k \in 1 .. Len(b) : d[k] = b[k]
        /\ \A k \in 1 .. Len(classpaths) : d[Len(b) + k] = classpaths[k]
    <3>1. b \in Seq(S) /\ classpaths \in Seq(S)
      BY <1>5, <1>9
    <3>. QED
      BY <3>1, TwoParts
  <2>. HIDE DEF d
  <2>. QED
    BY <1>5, <1>9, <2>1
<1>. HIDE DEF d
<1>11. /\ e \in Seq(S) /\ Len(e) = 2 + W + L + c + 1
       /\ \A k \in 1 .. 2 + W + L + c : e[k] = d[k]
       /\ \A k \in 1 .. 1 : e[2 + W + L + c + k] = final[k]
  <2>1. /\ e \in Seq(S) /\ Len(e) = Len(d) + Len(final)
        /\ \A k \in 1 .. Len(d) : e[k] = d[k]
        /\ \A k \in 1 .. Len(final) : e[Len(d) + k] = final[k]
    <3>1. d \in Seq(S) /\ final \in Seq(S)
      BY <1>6, <1>10
    <3>. QED
      BY <3>1, TwoParts
  <2>. HIDE DEF e
  <2>. QED
    BY <1>6, <1>10, <2>1
<1>. HIDE DEF e
<1>12. /\ e[1] = top[1] /\ e[2] = top[2]
       /\ \A k \in 1 .. W : e[2 + k] = arguments[k]
       /\ \A k \in 1 .. L : e[2 + W + k] = section[k]
  <2>1. \A k \in 1 .. 2 + W + L : e[k] = b[k]
    BY <1>2, <1>10, <1>11
  <2>2. \A k \in 1 .. 2 + W : e[k] = a[k]
    BY <1>2, <1>9, <2>1
  <2>3. 1 \in 1 .. 2 + W /\ 2 \in 1 .. 2 + W /\ (\A k \in 1 .. W : 2 + k \in 1 .. 2 + W)
        /\ \A k \in 1 .. L : 2 + W + k \in 1 .. 2 + W + L
    BY <1>2
  <2>. QED
    BY <1>8, <1>9, <2>1, <2>2, <2>3
<1>13. ASSUME classpath # <<>> PROVE e[2 + W + L + 1] = [key |-> "Cp", value |-> classpath]
  <2>1. c = 1
    BY <1>13 DEF c
  <2>2. 2 + W + L + 1 \in 1 .. 2 + W + L + c /\ 1 \in 1 .. c
    BY <1>2, <2>1
  <2>. QED
    BY <1>5, <1>10, <1>11, <1>13, <2>2
<1>14. IsBlank(e[2 + W + L + c + 1])
  <2>1. 1 \in 1 .. 1
    OBVIOUS
  <2>. QED
    BY <1>6, <1>11, <2>1
<1>15. \A k \in 1 .. W : e[2 + k] = [key |-> "Arg", value |-> words[k]]
  BY <1>4, <1>12
<1>. QED
  <2>1. Size(W, L, classpath) = 2 + W + L + c + 1
    BY DEF Size, c
  <2>2. LaidOut(e, words, section, classpath, W, L, 2 + W + L + c + 1)
    BY <1>2, <1>3, <1>11, <1>12, <1>13, <1>14, <1>15 DEF LaidOut
  <2>. QED
    BY <1>7, <1>11, <2>1, <2>2 DEF S


\* Positions that come before others are listed first.
LEMMA EnumeratesBoth ==
    ASSUME NEW P \in SUBSET Nat, NEW Q \in SUBSET Nat, \A p \in P : \A q \in Q : p < q,
           NEW m, NEW n, NEW g, NEW h, Enumerates(g, m, P), Enumerates(h, n, Q)
    PROVE  Enumerates([k \in 1 .. m + n |-> IF k <= m THEN g[k] ELSE h[k - m]], m + n, P \cup Q)
<1> DEFINE f == [k \in 1 .. m + n |-> IF k <= m THEN g[k] ELSE h[k - m]]
<1>1. /\ m \in Nat /\ n \in Nat /\ g \in [1 .. m -> P] /\ h \in [1 .. n -> Q]
      /\ \A j, k \in 1 .. m : j < k => g[j] < g[k]
      /\ \A j, k \in 1 .. n : j < k => h[j] < h[k]
      /\ \A p \in P : \E k \in 1 .. m : g[k] = p
      /\ \A q \in Q : \E k \in 1 .. n : h[k] = q
  BY DEF Enumerates
<1>2. \A k \in 1 .. m + n : IF k <= m THEN k \in 1 .. m /\ f[k] = g[k]
                            ELSE k - m \in 1 .. n /\ f[k] = h[k - m]
  BY <1>1
<1>3. /\ \A k \in 1 .. m : k \in 1 .. m + n /\ f[k] = g[k]
      /\ \A k \in 1 .. n : m + k \in 1 .. m + n /\ f[m + k] = h[k]
  BY <1>1
<1>4. f \in [1 .. m + n -> P \cup Q]
  <2>1. \A k \in 1 .. m + n : f[k] \in P \cup Q
    <3>. HIDE DEF f
    <3>. QED
      BY <1>1, <1>2
  <2>. QED
    BY <2>1
<1>. HIDE DEF f
<1>5. ASSUME NEW j \in 1 .. m + n, NEW k \in 1 .. m + n, j < k PROVE f[j] < f[k]
  <2>1. CASE k <= m
    <3>1. j <= m
      BY <1>1, <1>5, <2>1
    <3>. QED
      BY <1>1, <1>2, <1>5, <2>1, <3>1
  <2>2. CASE ~(k <= m) /\ j <= m
    BY <1>1, <1>2, <2>2
  <2>3. CASE ~(j <= m)
    <3>1. ~(k <= m) /\ j - m < k - m
      BY <1>1, <1>5, <2>3
    <3>. QED
      BY <1>1, <1>2, <2>3, <3>1
  <2>. QED
    BY <1>1, <2>1, <2>2, <2>3
<1>6. \A p \in P \cup Q : \E k \in 1 .. m + n : f[k] = p
  BY <1>1, <1>3
<1>. QED
  BY <1>1, <1>4, <1>5, <1>6 DEF Enumerates, f

\* The header ends at its first empty line.
LEMMA EndIs ==
    ASSUME NEW token, NEW lines \in Seq(HeaderLine(token)), KeyAt(lines, Blank) # {}
    PROVE  /\ End(lines) \in 1 .. Len(lines) /\ End(lines) \in KeyAt(lines, Blank)
           /\ \A m \in KeyAt(lines, Blank) : End(lines) <= m
<1> DEFINE L == Len(lines)
           blank == KeyAt(lines, Blank)
           First(m) == m \in blank /\ \A k \in 1 .. m - 1 : k \notin blank
<1>1. blank \in SUBSET (1 .. L) /\ \A m \in 1 .. L : m \in blank <=> IsBlank(lines[m])
  BY DEF KeyAt, IsBlank
<1>2. L \in Nat
  BY LenProperties
<1>3. \A m \in 1 .. L : First(m) <=> /\ IsBlank(lines[m])
                                   /\ \A k \in 1 .. m - 1 : ~IsBlank(lines[k])
  <2>1. \A m \in 1 .. L : \A k \in 1 .. m - 1 : k \in 1 .. L
    <3>. HIDE DEF L
    <3>. QED
      BY <1>2
  <2>. HIDE DEF blank, L
  <2>. QED
    BY <1>1, <2>1
<1>4. End(lines) = CHOOSE m \in 1 .. L : First(m)
  <2>. HIDE DEF First
  <2>. QED
    BY <1>3 DEF End, IsBlank, Blank
<1>. HIDE DEF L, blank
<1>5. PICK least \in blank : \A m \in blank : least <= m
  <2>1. blank \in SUBSET Nat /\ blank # {}
    BY <1>1, <1>2 DEF blank
  <2>. QED
    BY <2>1, LeastNatural
<1>6. least \in 1 .. L /\ First(least)
  <2>1. \A k \in 1 .. least - 1 : ~(least <= k)
    BY <1>1, <1>2
  <2>. QED
    BY <1>1, <1>5, <2>1
<1>7. End(lines) \in 1 .. L /\ First(End(lines))
  <2>. HIDE DEF First
  <2>. QED
    BY <1>4, <1>6
<1>8. ASSUME NEW m \in blank PROVE End(lines) <= m
  <2>1. m \in 1 .. L /\ End(lines) \in 1 .. L /\ ~(m \in 1 .. End(lines) - 1)
    BY <1>1, <1>7
  <2>. QED
    BY <1>2, <2>1
<1>. QED
  BY <1>7, <1>8 DEF L, blank

\* The values of a key are those of its lines before the end.
LEMMA ValuesAre ==
    ASSUME NEW token, NEW lines \in Seq(HeaderLine(token)), End(lines) \in 1 .. Len(lines), NEW key,
           NEW n, NEW g, Enumerates(g, n, Before(KeyAt(lines, key), End(lines)))
    PROVE  Values(lines, key) = [k \in 1 .. n |-> lines[g[k]].value]
<1> DEFINE positions == {m \in 1 .. End(lines) - 1 : lines[m].key = key}
           named == Picked(lines, positions)
<1>1. Len(lines) \in Nat
  BY LenProperties
<1>2. positions = Before(KeyAt(lines, key), End(lines)) /\ positions \in SUBSET (1 .. Len(lines))
  BY <1>1 DEF KeyAt, Before
<1>3. named = [k \in 1 .. n |-> lines[g[k]]] /\ named \in Seq(HeaderLine(token))
  <2>. HIDE DEF positions
  <2>1. Enumerates(g, n, positions) /\ positions \in SUBSET (1 .. Len(lines))
    BY <1>2
  <2>2. Picked(lines, positions) = [k \in 1 .. n |-> lines[g[k]]]
    BY <2>1, PickedIs
  <2>3. Picked(lines, positions) \in Seq(HeaderLine(token))
    BY <2>1, PickedType
  <2>. QED
    BY <2>2, <2>3
<1>4. n \in Nat
  BY DEF Enumerates
<1>5. Len(named) = n
  <2>1. DOMAIN named = 1 .. Len(named) /\ Len(named) \in Nat
    <3>. HIDE DEF named
    <3>. QED
      BY <1>3, LenProperties
  <2>2. DOMAIN named = 1 .. n
    <3>. HIDE DEF named
    <3>. QED
      BY <1>3
  <2>. HIDE DEF named
  <2>. QED
    <3> DEFINE L == Len(named)
    <3>1. L \in Nat /\ 1 .. L = 1 .. n
      BY <2>1, <2>2
    <3>. HIDE DEF L
    <3>2. L = n
      BY <1>4, <3>1
    <3>. QED
      BY <3>2 DEF L
<1>6. Values(lines, key) = [k \in 1 .. Len(named) |-> named[k].value]
  BY DEF Values
<1>7. \A k \in 1 .. n : named[k] = lines[g[k]]
  <2>. HIDE DEF named
  <2>. QED
    BY <1>3
<1>. HIDE DEF named
<1>. QED
  BY <1>5, <1>6, <1>7

\* What a key's lines may have its values are.
LEMMA ValuesTyped ==
    ASSUME NEW token, NEW lines \in Seq(HeaderLine(token)), End(lines) \in 1 .. Len(lines), NEW key,
           NEW T, \A line \in HeaderLine(token) : line.key = key => line.value \in T
    PROVE  Values(lines, key) \in Seq(T)
<1> DEFINE at == Before(KeyAt(lines, key), End(lines))
<1>1. at \in SUBSET (1 .. Len(lines)) /\ \A p \in at : lines[p].key = key
  BY DEF KeyAt, Before
<1>2. PICK n, g : Enumerates(g, n, at)
  <2>. HIDE DEF at
  <2>. QED
    BY <1>1, PickedEnumerates
<1>3. n \in Nat /\ \A k \in 1 .. n : g[k] \in 1 .. Len(lines) /\ lines[g[k]].key = key
  <2>1. n \in Nat /\ g \in [1 .. n -> at]
    BY <1>2 DEF Enumerates
  <2>. HIDE DEF at
  <2>. QED
    BY <1>1, <2>1
<1>4. Values(lines, key) = [k \in 1 .. n |-> lines[g[k]].value]
  BY <1>2, ValuesAre
<1>5. \A k \in 1 .. n : lines[g[k]].value \in T
  BY <1>3, ElementOfSeq
<1>6. Values(lines, key) \in [1 .. n -> T]
  BY <1>4, <1>5
<1>. QED
  BY <1>3, <1>6

\* The lines of variables have no other keys than their values have.
LEMMA SectionKeys ==
    ASSUME NEW section, NEW entries, SectionOf(section, entries, Len(entries)),
           NEW key, key # "Env", NoLine(entries, key)
    PROVE  KeyAt(section, key) = {}
BY DEF SectionOf, NoLine, KeyAt

\* The lines of a key in a part of a header.
Shifted(section, key, by) == {by + j : j \in KeyAt(section, key)}

\* Which lines of a header are arguments, variables, the classpath, or empty.
KeysAre(lines, section, classpath, W, L) ==
    /\ KeyAt(lines, "Arg") = {2 + k : k \in 1 .. W} \cup Shifted(section, "Arg", 2 + W)
    /\ KeyAt(lines, "Env") = Shifted(section, "Env", 2 + W)
    /\ KeyAt(lines, "Cp") = Shifted(section, "Cp", 2 + W)
                            \cup (IF classpath # <<>> THEN {2 + W + L + 1} ELSE {})
    /\ KeyAt(lines, Blank) = Shifted(section, Blank, 2 + W) \cup {Len(lines)}

\* Which lines of the header have which key.
LEMMA HeaderKeys ==
    ASSUME NEW token, NEW words \in Seq(Words), NEW section \in Seq(HeaderLine(token)),
           NEW classpath \in Classpaths, NEW W, NEW L, W = Len(words), L = Len(section)
    PROVE  KeysAre(HeaderOf(token, words, section, classpath), section, classpath, W, L)
<1> DEFINE lines == HeaderOf(token, words, section, classpath)
           c == IF classpath # <<>> THEN 1 ELSE 0
           end == 2 + W + L + c + 1
<1>1. LaidOut(lines, words, section, classpath, W, L, end)
  <2>1. end = Size(W, L, classpath)
    BY DEF Size
  <2>2. LaidOut(lines, words, section, classpath, W, L, Size(W, L, classpath))
    BY HeaderLines
  <2>. HIDE DEF lines, end
  <2>. QED
    BY <2>1, <2>2
<1>. HIDE DEF lines
<1>2. /\ lines[1].key = "Cwd" /\ lines[2].key = "Auth"
      /\ \A k \in 1 .. W : lines[2 + k].key = "Arg"
  <2>1. lines[1].key = "Cwd" /\ lines[2].key = "Auth"
    BY <1>1 DEF LaidOut
  <2>2. ASSUME NEW k \in 1 .. W PROVE lines[2 + k].key = "Arg"
    <3>1. lines[2 + k] = [key |-> "Arg", value |-> words[k]]
      BY <1>1, <2>2 DEF LaidOut
    <3>. QED
      BY <3>1
  <2>. QED
    BY <2>1, <2>2
<1>3. \A k \in 1 .. L : lines[2 + W + k].key = section[k].key
  BY <1>1 DEF LaidOut
<1>4. classpath # <<>> => lines[2 + W + L + 1].key = "Cp"
  BY <1>1 DEF LaidOut
<1>5. lines[end].key = Blank
  BY <1>1 DEF IsBlank, LaidOut
<1>6. c \in {0, 1} /\ (c = 1 <=> classpath # <<>>)
  OBVIOUS
<1>7. W \in Nat /\ L \in Nat /\ Len(lines) = end
  BY <1>1 DEF LaidOut
<1> DEFINE Where(p) == \/ p \in {1, 2}
                       \/ \E k \in 1 .. W : p = 2 + k
                       \/ \E j \in 1 .. L : p = 2 + W + j
                       \/ p = 2 + W + L + 1 /\ c = 1
                       \/ p = end
<1>8. ASSUME NEW p \in 1 .. end PROVE Where(p)
  <2>1. CASE p \in 3 .. 2 + W
    <3>1. p - 2 \in 1 .. W /\ p = 2 + (p - 2)
      BY <1>7, <2>1
    <3>. QED
      BY <3>1
  <2>2. CASE p \in 2 + W + 1 .. 2 + W + L
    <3>1. p - (2 + W) \in 1 .. L /\ p = 2 + W + (p - (2 + W))
      BY <1>7, <2>2
    <3>. QED
      BY <3>1
  <2>3. CASE ~(p \in 3 .. 2 + W) /\ ~(p \in 2 + W + 1 .. 2 + W + L)
    <3>. HIDE DEF c
    <3>1. p \in {1, 2} \/ (p = 2 + W + L + 1 /\ c = 1) \/ p = end
      BY <1>6, <1>7, <2>3
    <3>. QED
      BY <3>1
  <2>. QED
    BY <2>1, <2>2, <2>3
<1>. HIDE DEF c
<1>9. /\ 1 \in 1 .. end /\ 2 \in 1 .. end /\ end \in 1 .. end
      /\ \A k \in 1 .. W : 2 + k \in 1 .. end
      /\ \A j \in 1 .. L : 2 + W + j \in 1 .. end
      /\ c = 1 => 2 + W + L + 1 \in 1 .. end
  BY <1>6, <1>7
<1>. HIDE DEF end
<1>10. /\ \A key : KeyAt(lines, key) = {p \in 1 .. end : lines[p].key = key}
       /\ \A key : KeyAt(section, key) = {j \in 1 .. L : section[j].key = key}
  BY <1>7 DEF KeyAt
<1> DEFINE Says(p) == \/ lines[p].key \in {"Cwd", "Auth"}
                      \/ lines[p].key = "Arg" /\ \E k \in 1 .. W : p = 2 + k
                      \/ \E j \in 1 .. L : p = 2 + W + j /\ section[j].key = lines[p].key
                      \/ lines[p].key = "Cp" /\ p = 2 + W + L + 1 /\ c = 1
                      \/ lines[p].key = Blank /\ p = end
<1>11. ASSUME NEW p \in 1 .. end PROVE Says(p)
  <2>1. CASE p \in {1, 2}
    BY <1>2, <2>1
  <2>2. ASSUME NEW k \in 1 .. W, p = 2 + k PROVE Says(p)
    BY <1>2, <2>2
  <2>3. ASSUME NEW j \in 1 .. L, p = 2 + W + j PROVE Says(p)
    BY <1>3, <2>3
  <2>4. CASE p = 2 + W + L + 1 /\ c = 1
    BY <1>4, <1>6, <2>4
  <2>5. CASE p = end
    BY <1>5, <2>5
  <2>6. Where(p)
    BY <1>8
  <2>. HIDE DEF Says
  <2>. QED
    BY <2>1, <2>2, <2>3, <2>4, <2>5, <2>6
<1>12. ASSUME NEW key PROVE Shifted(section, key, 2 + W) \subseteq KeyAt(lines, key)
  <2>. SUFFICES ASSUME NEW j \in KeyAt(section, key) PROVE 2 + W + j \in KeyAt(lines, key)
    BY DEF Shifted
  <2>1. j \in 1 .. L /\ section[j].key = key
    BY <1>10
  <2>2. 2 + W + j \in 1 .. end /\ lines[2 + W + j].key = key
    BY <1>3, <1>9, <2>1
  <2>. QED
    BY <1>10, <2>2
<1>13. ASSUME NEW p \in 1 .. end, NEW j \in 1 .. L, p = 2 + W + j, section[j].key = lines[p].key
       PROVE  p \in Shifted(section, lines[p].key, 2 + W)
  <2>1. j \in KeyAt(section, lines[p].key)
    BY <1>10, <1>13
  <2>. QED
    BY <1>13, <2>1 DEF Shifted
<1>14. ASSUME NEW p \in 1 .. end
       PROVE  \/ lines[p].key \in {"Cwd", "Auth"}
              \/ lines[p].key = "Arg" /\ p \in {2 + k : k \in 1 .. W}
              \/ p \in Shifted(section, lines[p].key, 2 + W)
              \/ lines[p].key = "Cp" /\ p = 2 + W + L + 1 /\ c = 1
              \/ lines[p].key = Blank /\ p = end
  BY <1>11, <1>13
<1>15. \A key : \A p \in KeyAt(lines, key) : p \in 1 .. end /\ lines[p].key = key
  BY <1>10
<1>16. KeyAt(lines, "Arg") = {2 + k : k \in 1 .. W} \cup Shifted(section, "Arg", 2 + W)
  <2>1. \A p \in KeyAt(lines, "Arg") :
            p \in {2 + k : k \in 1 .. W} \/ p \in Shifted(section, "Arg", 2 + W)
    BY <1>14, <1>15, BlankDiffers
  <2>2. \A k \in 1 .. W : 2 + k \in KeyAt(lines, "Arg")
    BY <1>2, <1>9, <1>10
  <2>. QED
    BY <1>12, <2>1, <2>2
<1>17. KeyAt(lines, "Env") = Shifted(section, "Env", 2 + W)
  <2>1. \A p \in KeyAt(lines, "Env") : p \in Shifted(section, "Env", 2 + W)
    BY <1>14, <1>15, BlankDiffers
  <2>. QED
    BY <1>12, <2>1
<1>18. KeyAt(lines, "Cp") = Shifted(section, "Cp", 2 + W)
                            \cup (IF classpath # <<>> THEN {2 + W + L + 1} ELSE {})
  <2>1. \A p \in KeyAt(lines, "Cp") :
            p \in Shifted(section, "Cp", 2 + W) \/ (p = 2 + W + L + 1 /\ c = 1)
    BY <1>14, <1>15, BlankDiffers
  <2>2. c = 1 => 2 + W + L + 1 \in KeyAt(lines, "Cp")
    BY <1>4, <1>6, <1>9, <1>10
  <2>. QED
    BY <1>6, <1>12, <2>1, <2>2
<1>19. KeyAt(lines, Blank) = Shifted(section, Blank, 2 + W) \cup {end}
  <2>1. \A p \in KeyAt(lines, Blank) : p \in Shifted(section, Blank, 2 + W) \/ p = end
    BY <1>14, <1>15, BlankDiffers
  <2>2. end \in KeyAt(lines, Blank)
    BY <1>5, <1>9, <1>10
  <2>. QED
    BY <1>12, <2>1, <2>2
<1>. QED
  BY <1>7, <1>16, <1>17, <1>18, <1>19 DEF lines, KeysAre

\* What is read of a header: the words, before what the values of variables have as
\* further arguments; and just the variables and the classpath, unless a value has
\* a line that is one of these or ends the header.
ReadAs(lines, words, entries, classpath) ==
    /\ \E more \in Seq(Words \cup {Undecodable}) :
          /\ Values(lines, "Arg") = words \o more
          /\ NoLine(entries, "Arg") => more = <<>>
    /\ Values(lines, "Env") \in Seq(STRING \X TextLine)
    /\ SingleLines(entries, Len(entries)) =>
          Values(lines, "Env") = [k \in 1 .. Len(entries) |-> <<entries[k].name, entries[k].value>>]
    /\ NoLine(entries, Blank) /\ NoLine(entries, "Cp") =>
          Values(lines, "Cp") = IF classpath # <<>> THEN <<classpath>> ELSE <<>>

\* What the server reads of a header that the client composed.
LEMMA HeaderRead ==
    ASSUME NEW token, NEW words \in Seq(Words), NEW section \in Seq(HeaderLine(token)),
           NEW classpath \in Classpaths, NEW entries \in Seq(Entry),
           SectionOf(section, entries, Len(entries))
    PROVE  ReadAs(HeaderOf(token, words, section, classpath), words, entries, classpath)
<1> DEFINE lines == HeaderOf(token, words, section, classpath)
           W == Len(words)
           L == Len(section)
           n == Len(entries)
           end == Size(W, L, classpath)
           E == End(lines)
           c == IF classpath # <<>> THEN 1 ELSE 0
           arguments == {2 + k : k \in 1 .. W}
           further == Before(Shifted(section, "Arg", 2 + W), E)
<1>1. lines \in Seq(HeaderLine(token)) /\ LaidOut(lines, words, section, classpath, W, L, end)
  BY HeaderLines
<1>. HIDE DEF end
<1>2. /\ KeyAt(lines, "Arg") = arguments \cup Shifted(section, "Arg", 2 + W)
      /\ KeyAt(lines, "Env") = Shifted(section, "Env", 2 + W)
      /\ KeyAt(lines, "Cp") = Shifted(section, "Cp", 2 + W)
                              \cup (IF classpath # <<>> THEN {2 + W + L + 1} ELSE {})
      /\ KeyAt(lines, Blank) = Shifted(section, Blank, 2 + W) \cup {Len(lines)}
  <2>. HIDE DEF W, L
  <2>1. KeysAre(lines, section, classpath, W, L)
    BY HeaderKeys DEF W, L
  <2>. QED
    BY <2>1 DEF KeysAre
<1>3. W \in Nat /\ L \in Nat /\ Len(lines) = end
  BY <1>1 DEF LaidOut
<1>4. end = 2 + W + L + c + 1 /\ c \in {0, 1} /\ (c = 1 <=> classpath # <<>>)
  BY DEF Size, end
<1>5. n \in Nat
  BY LenProperties
<1>6. E \in KeyAt(lines, Blank) /\ E \in 1 .. Len(lines)
  BY <1>1, <1>2, EndIs
<1>7. \A key : \A p \in Shifted(section, key, 2 + W) :
          \E j \in 1 .. L : p = 2 + W + j /\ section[j].key = key
  BY DEF KeyAt, Shifted
<1>8. ASSUME NEW key, key # "Env", NoLine(entries, key) PROVE Shifted(section, key, 2 + W) = {}
  <2>1. KeyAt(section, key) = {}
    BY <1>8, SectionKeys
  <2>. QED
    BY <2>1 DEF Shifted
<1>9. Blank # "Env"
  BY BlankDiffers
<1>. HIDE DEF W, L, n, E, c, lines
<1>10. E \in Nat /\ E > 2 + W /\ E <= end
  <2>1. CASE E = end
    BY <1>3, <1>4, <2>1
  <2>2. CASE E \in Shifted(section, Blank, 2 + W)
    <3>1. PICK j \in 1 .. L : E = 2 + W + j
      BY <1>7, <2>2
    <3>. QED
      BY <1>3, <1>4, <3>1
  <2>. QED
    BY <1>2, <1>3, <1>6, <2>1, <2>2
<1>11. ASSUME NoLine(entries, Blank) PROVE E = end
  BY <1>2, <1>3, <1>6, <1>8, <1>9, <1>11
<1>12. \E more \in Seq(Words \cup {Undecodable}) :
           /\ Values(lines, "Arg") = words \o more
           /\ NoLine(entries, "Arg") => more = <<>>
  <2> DEFINE g == [k \in 1 .. W |-> 2 + k]
             at == Before(KeyAt(lines, "Arg"), End(lines))
  <2>1. at = arguments \cup further
    <3>1. \A k \in 1 .. W : 2 + k < E
      BY <1>3, <1>10
    <3>. QED
      BY <1>2, <3>1 DEF Before, E
  <2>2. Enumerates(g, W, arguments)
    <3>1. g \in [1 .. W -> arguments] /\ \A j, k \in 1 .. W : j < k => g[j] < g[k]
      BY <1>3
    <3>2. \A p \in arguments : \E k \in 1 .. W : g[k] = p
      OBVIOUS
    <3>. HIDE DEF g, arguments
    <3>. QED
      BY <1>3, <3>1, <3>2 DEF Enumerates
  <2>3. /\ further \in SUBSET (1 .. Len(lines)) /\ further \in SUBSET Nat
        /\ \A q \in further : q > 2 + W
    <3>1. ASSUME NEW q \in further PROVE q \in 1 .. Len(lines) /\ q \in Nat /\ q > 2 + W
      <4>1. PICK j \in 1 .. L : q = 2 + W + j
        BY <1>7 DEF Before
      <4>. QED
        BY <1>3, <1>4, <4>1
    <3>. QED
      BY <3>1
  <2>4. PICK m, h : Enumerates(h, m, further)
    <3>. HIDE DEF further
    <3>. QED
      BY <1>1, <2>3, PickedEnumerates
  <2> DEFINE f == [k \in 1 .. W + m |-> IF k <= W THEN g[k] ELSE h[k - W]]
             more == [k \in 1 .. m |-> lines[h[k]].value]
  <2>5. Enumerates(f, W + m, at)
    <3>1. arguments \in SUBSET Nat /\ \A p \in arguments : \A q \in further : p < q
      BY <1>3, <2>3
    <3>2. Enumerates([k \in 1 .. W + m |-> IF k <= W THEN g[k] ELSE h[k - W]], W + m,
                     arguments \cup further)
      <4>. HIDE DEF arguments, further, g
      <4>. QED
        BY <2>2, <2>3, <2>4, <3>1, EnumeratesBoth
    <3>. HIDE DEF arguments, further, g, at
    <3>. QED
      BY <2>1, <3>2
  <2>6. Values(lines, "Arg") = [k \in 1 .. W + m |-> lines[f[k]].value]
    <3>1. lines \in Seq(HeaderLine(token)) /\ End(lines) \in 1 .. Len(lines)
      BY <1>1, <1>6 DEF E
    <3>. HIDE DEF f
    <3>. QED
      BY <2>5, <3>1, ValuesAre
  <2>7. m \in Nat /\ \A k \in 1 .. m : h[k] \in further
    BY <2>4 DEF Enumerates
  <2>8. ASSUME NEW k \in 1 .. m PROVE lines[h[k]].value \in Words \cup {Undecodable}
    <3>1. h[k] \in 1 .. Len(lines) /\ h[k] \in KeyAt(lines, "Arg")
      BY <1>2, <2>3, <2>7 DEF Before
    <3>2. lines[h[k]] \in HeaderLine(token) /\ lines[h[k]].key = "Arg"
      BY <1>1, <3>1, ElementOfSeq DEF KeyAt
    <3>. QED
      BY <3>2 DEF HeaderLine, Fits
  <2>9. more \in Seq(Words \cup {Undecodable}) /\ Len(more) = m
    <3>1. more \in [1 .. m -> Words \cup {Undecodable}]
      BY <2>8
    <3>. QED
      BY <2>7, <3>1
  <2>10. words \in Seq(Words \cup {Undecodable})
    BY SeqMonotonic
  <2>11. /\ words \o more = [k \in 1 .. W + m |-> (words \o more)[k]]
         /\ \A k \in 1 .. W : (words \o more)[k] = words[k]
         /\ \A k \in 1 .. m : (words \o more)[W + k] = more[k]
    <3>. HIDE DEF more
    <3> DEFINE S == Words \cup {Undecodable}
    <3>1. /\ words \o more \in Seq(S) /\ Len(words \o more) = Len(words) + Len(more)
          /\ \A k \in 1 .. Len(words) : (words \o more)[k] = words[k]
          /\ \A k \in 1 .. Len(more) : (words \o more)[Len(words) + k] = more[k]
      <4>1. words \in Seq(S) /\ more \in Seq(S)
        BY <2>9, <2>10
      <4>. HIDE DEF S
      <4>. QED
        BY <4>1, TwoParts
    <3>. HIDE DEF S
    <3>2. words \o more = [k \in 1 .. Len(words \o more) |-> (words \o more)[k]]
      BY <3>1, LenProperties
    <3>. QED
      BY <2>9, <3>1, <3>2 DEF W
  <2>12. ASSUME NEW k \in 1 .. W + m PROVE lines[f[k]].value = (words \o more)[k]
    <3>1. CASE k <= W
      <4>1. k \in 1 .. W /\ f[k] = 2 + k
        BY <1>3, <2>7, <3>1
      <4>2. lines[2 + k] = [key |-> "Arg", value |-> words[k]]
        BY <1>1, <4>1 DEF LaidOut
      <4>3. lines[2 + k].value = words[k]
        BY <4>2
      <4>. HIDE DEF f, more
      <4>. QED
        BY <2>11, <4>1, <4>3
    <3>2. CASE ~(k <= W)
      <4>1. k - W \in 1 .. m /\ W + (k - W) = k /\ f[k] = h[k - W]
        BY <1>3, <2>7, <3>2
      <4>2. more[k - W] = lines[h[k - W]].value
        BY <4>1
      <4>. HIDE DEF f, more
      <4>. QED
        BY <2>11, <4>1, <4>2
    <3>. QED
      BY <3>1, <3>2
  <2>13. Values(lines, "Arg") = words \o more
    <3>. HIDE DEF f, more
    <3>. QED
      BY <2>6, <2>11, <2>12
  <2>14. NoLine(entries, "Arg") => more = <<>>
    <3>. SUFFICES ASSUME NoLine(entries, "Arg") PROVE m = 0
      OBVIOUS
    <3>1. further = {}
      BY <1>8 DEF Before
    <3>2. m # 0 => 1 \in 1 .. m
      BY <2>7
    <3>. QED
      BY <2>7, <3>1, <3>2
  <2>. HIDE DEF more
  <2>. QED
    BY <2>9, <2>13, <2>14
<1>13. Values(lines, "Env") \in Seq(STRING \X TextLine)
  <2>1. \A line \in HeaderLine(token) : line.key = "Env" => line.value \in STRING \X TextLine
    BY DEF HeaderLine, Fits
  <2>2. lines \in Seq(HeaderLine(token)) /\ End(lines) \in 1 .. Len(lines)
    BY <1>1, <1>6 DEF E
  <2>. QED
    BY <2>1, <2>2, ValuesTyped
<1>14. ASSUME SingleLines(entries, n)
       PROVE  Values(lines, "Env") = [k \in 1 .. n |-> <<entries[k].name, entries[k].value>>]
  <2>1. section = [k \in 1 .. n |-> FirstLine(entries[k])]
    BY <1>14 DEF SectionOf, n
  <2>2. L = n
    BY <1>5, <2>1 DEF L
  <2>3. \A j \in 1 .. L : section[j].key = "Env"
    BY <2>1, <2>2 DEF FirstLine
  <2>4. E = end
    <3>1. \A k \in 1 .. n : Len(entries[k].rest) = 0
      BY <1>14 DEF SingleLines
    <3>2. NoLine(entries, Blank)
      BY <3>1 DEF NoLine, HasLine, n
    <3>. QED
      BY <1>11, <3>2
  <2> DEFINE g == [k \in 1 .. n |-> 2 + W + k]
             at == Before(KeyAt(lines, "Env"), End(lines))
  <2>5. at = {2 + W + j : j \in 1 .. n}
    <3>1. \A j \in 1 .. L : 2 + W + j < E
      BY <1>3, <1>4, <2>4
    <3>2. KeyAt(section, "Env") = 1 .. L
      BY <2>3 DEF KeyAt, L
    <3>. QED
      BY <1>2, <2>2, <3>1, <3>2 DEF Before, E, Shifted
  <2>6. Enumerates(g, n, at)
    <3>1. \A j, k \in 1 .. n : j < k => g[j] < g[k]
      BY <1>3, <1>5
    <3>2. g \in [1 .. n -> at]
      <4>. HIDE DEF at
      <4>. QED
        BY <2>5
    <3>3. \A p \in at : \E k \in 1 .. n : g[k] = p
      BY <2>5
    <3>. HIDE DEF g, at
    <3>. QED
      BY <1>5, <3>1, <3>2, <3>3 DEF Enumerates
  <2>7. Values(lines, "Env") = [k \in 1 .. n |-> lines[g[k]].value]
    <3>1. lines \in Seq(HeaderLine(token)) /\ End(lines) \in 1 .. Len(lines)
      BY <1>1, <1>6 DEF E
    <3>. HIDE DEF g
    <3>. QED
      BY <2>6, <3>1, ValuesAre
  <2>8. ASSUME NEW k \in 1 .. n PROVE lines[g[k]].value = <<entries[k].name, entries[k].value>>
    <3>1. lines[2 + W + k] = section[k]
      BY <1>1, <2>2 DEF LaidOut
    <3>2. section[k].value = <<entries[k].name, entries[k].value>>
      BY <2>1 DEF FirstLine
    <3>. QED
      BY <3>1, <3>2
  <2>. HIDE DEF g
  <2>. QED
    BY <2>7, <2>8
<1>15. ASSUME NoLine(entries, Blank), NoLine(entries, "Cp")
       PROVE  Values(lines, "Cp") = IF classpath # <<>> THEN <<classpath>> ELSE <<>>
  <2> DEFINE g == [k \in 1 .. c |-> 2 + W + L + 1]
             at == Before(KeyAt(lines, "Cp"), End(lines))
  <2>1. at = IF classpath # <<>> THEN {2 + W + L + 1} ELSE {}
    <3>1. c = 1 => 2 + W + L + 1 < E
      BY <1>3, <1>4, <1>11, <1>15
    <3>2. KeyAt(lines, "Cp") = IF classpath # <<>> THEN {2 + W + L + 1} ELSE {}
      BY <1>2, <1>8, <1>15
    <3>. QED
      BY <1>4, <3>1, <3>2 DEF Before, E
  <2>2. Enumerates(g, c, at)
    <3>1. g \in [1 .. c -> at] /\ \A j, k \in 1 .. c : ~(j < k)
      BY <1>4, <2>1
    <3>2. \A p \in at : \E k \in 1 .. c : g[k] = p
      <4>. SUFFICES ASSUME NEW p \in at PROVE \E k \in 1 .. c : g[k] = p
        OBVIOUS
      <4>1. p = 2 + W + L + 1 /\ c = 1
        BY <1>4, <2>1
      <4>2. 1 \in 1 .. c /\ g[1] = p
        BY <4>1
      <4>. QED
        BY <4>2
    <3>. HIDE DEF g, at
    <3>. QED
      BY <1>4, <3>1, <3>2 DEF Enumerates
  <2>3. Values(lines, "Cp") = [k \in 1 .. c |-> lines[g[k]].value]
    <3>1. lines \in Seq(HeaderLine(token)) /\ End(lines) \in 1 .. Len(lines)
      BY <1>1, <1>6 DEF E
    <3>. HIDE DEF g
    <3>. QED
      BY <2>2, <3>1, ValuesAre
  <2>4. CASE classpath # <<>>
    <3>1. lines[2 + W + L + 1].value = classpath
      BY <1>1, <2>4 DEF LaidOut
    <3>2. c = 1 /\ \A k \in 1 .. 1 : lines[g[k]].value = classpath
      BY <1>4, <2>4, <3>1
    <3>3. Values(lines, "Cp") = [k \in 1 .. 1 |-> classpath]
      <4>. HIDE DEF g
      <4>. QED
        BY <2>3, <3>2
    <3>. QED
      BY <2>4, <3>3
  <2>5. CASE classpath = <<>>
    <3>1. c = 0
      BY <1>4, <2>5
    <3>. QED
      BY <2>3, <2>5, <3>1
  <2>. QED
    BY <2>4, <2>5
<1>. QED
  BY <1>12, <1>13, <1>14, <1>15 DEF n, ReadAs, lines

-----------------------------------------------------------------------------
(* The steps of the request                                                *)

\* Behind the scan the client's part stays as it is.
LEMMA ClientStays ==
    ASSUME IInv, pc \notin {"scan", "error", "printed"}, pc' # "scan",
           UNCHANGED <<typed, argv, option>>
    PROVE  ClientInv'
<1>1. Len(typed) <= MaxArgs /\ Scanned(Len(typed) + 1)
  BY DEF IInv, ClientInv
<1>2. Scanned(Len(typed) + 1)'
  BY <1>1 DEF Scanned, Own, Behind, Value
<1>. QED
  BY <1>1, <1>2 DEF ClientInv

\* What is derived of the line stays with it.
LEMMA DerivedStays ==
    ASSUME typed' = typed
    PROVE  /\ Groovys' = Groovys
           /\ \A environment : AskedIn(environment)' = AskedIn(environment)
           /\ environ' = environ => Asked' = Asked /\ Entries' = Entries
           /\ Asked' = AskedIn(environ')
           /\ request' = request => Taken' = Taken /\ KeptAt' = KeptAt /\ GivenAt' = GivenAt
<1>1. Groovys' = Groovys
  BY DEF Groovys
<1>2. \A name : Selected(name)' = Selected(name)
  BY DEF Selected
<1>3. \A environment : AskedIn(environment)' = AskedIn(environment)
  BY <1>2 DEF AskedIn
<1>4. Asked' = AskedIn(environ')
  BY <1>2 DEF Asked, AskedIn
<1>5. environ' = environ => Asked' = Asked /\ Entries' = Entries
  BY <1>4 DEF Asked, Entries
<1>6. request' = request => Taken' = Taken
  BY DEF Taken
<1>. QED
  BY <1>1, <1>3, <1>4, <1>5, <1>6 DEF KeptAt, GivenAt

\* The steps of the client's main up to the sending keep it as well.
LEMMA ControlInductive ==
    ASSUME IInv, Control \/ NoTokenFile
    PROVE  IInv'
<1>1. /\ pc \in {"control", "send"} /\ pc' \in {"killed", "send", "error"}
      /\ UNCHANGED <<client, sent, server>>
  BY DEF Control, NoTokenFile
<1>2. UNCHANGED <<typed, argv, i, option>>
  BY <1>1 DEF client
<1>3. TypeOK'
  BY <1>1, <1>2 DEF IInv, TypeOK, sent, server, Ended
<1>4. ClientInv'
  BY <1>1, <1>2, ClientStays
<1>. QED
  BY <1>1, <1>2, <1>3, <1>4, NothingSentYet DEF IInv

\* What the data of the model are, in the terms used here.
LEMMA DataAre ==
    /\ Environs \subseteq Seq(Entry) /\ Classpaths \subseteq Seq(STRING)
    /\ \A w \in Words : Split(w) \in Seq(STRING)
BY DataAssumption DEF Entry

\* The client sends Groovy's words and the variables that its line selects.
LEMMA HeaderSent ==
    ASSUME TypeOK, ClientInv, pc \notin {"scan", "error", "printed"},
           NEW token, NEW environment \in Environs, NEW classpath
    PROVE  Header(token, environment, classpath)
             = HeaderOf(token, Groovys,
                        Section(Picked(environment, AskedIn(environment))), classpath)
<1> DEFINE words == Picked(argv, {n \in DOMAIN argv : argv[n] # NULL})
           propagated == Picked(environment,
                                {n \in DOMAIN environment : Propagated(environment[n])})
<1>1. words = Groovys
  BY WordsLeft
<1>2. propagated = Picked(environment, AskedIn(environment))
  <2>1. {n \in DOMAIN environment : Propagated(environment[n])} = AskedIn(environment)
    BY PropagatedIsSelected DEF AskedIn
  <2>. QED
    BY <2>1
<1>3. Header(token, environment, classpath) = HeaderOf(token, words, Section(propagated), classpath)
  BY DEF Header, HeaderOf, Section
<1>. HIDE DEF words, propagated
<1>. QED
  BY <1>1, <1>2, <1>3

\* The header that is sent is that of the words, the variables and the classpath.
LEMMA SendHeaderInductive ==
    ASSUME IInv, SendHeader
    PROVE  IInv'
<1>. USE DEF IInv
<1> DEFINE token == IF option.authtoken # None THEN option.authtoken ELSE ServerToken
<1>1. /\ pc = "send" /\ pc' = "parse" /\ environ' \in Environs /\ cp' \in Classpaths
      /\ wire' = Header(token, environ', cp') /\ UNCHANGED <<client, server>>
  BY DEF SendHeader
<1>2. /\ UNCHANGED <<typed, argv, i, option>>
      /\ request' = request /\ env' = env /\ paths' = paths /\ args' = args
  BY <1>1 DEF client, server
<1>3. pc \notin Parsed /\ pc' \notin Parsed /\ pc' \in Sent
  BY <1>1 DEF Parsed, Sent
<1>4. args = <<>> /\ paths = <<>>
  BY <1>1 DEF FilterInv
<1>5. TypeOK'
  BY <1>1, <1>2 DEF TypeOK
<1>6. ClientInv'
  BY <1>1, <1>2, ClientStays
<1>7. RequestInv'
  <2>1. token \in Words \cup {ServerToken}
    BY DEF TypeOK
  <2>. HIDE DEF token
  <2>2. wire' = HeaderOf(token, Groovys, Section(Picked(environ', AskedIn(environ'))), cp')
    BY <1>1, HeaderSent
  <2>3. Groovys' = Groovys /\ Asked' = AskedIn(environ')
    BY <1>2, DerivedStays
  <2>4. \E t \in Words \cup {ServerToken} :
            wire' = HeaderOf(t, Groovys', Section(Entries'), cp')
    BY <2>1, <2>2, <2>3 DEF Entries
  <2>. QED
    BY <1>1, <1>2, <1>3, <1>4, <2>4 DEF RequestInv
<1>8. EnvInv' /\ FilterInv' /\ ArgumentsArrive' /\ ClasspathArrives'
  BY <1>1, <1>2, <1>4 DEF EnvInv, FilterInv, ArgumentsArrive, ClasspathArrives
<1>. QED
  BY <1>5, <1>6, <1>7, <1>8

\* The entries of the client's environment that are asked for.
LEMMA EntriesAre ==
    ASSUME NEW environment \in Environs
    PROVE  /\ environment \in Seq(Entry)
           /\ AskedIn(environment) \in SUBSET (1 .. Len(environment))
           /\ Picked(environment, AskedIn(environment)) \in Seq(Entry)
           /\ Len(Picked(environment, AskedIn(environment))) <= Len(environment)
           /\ \A k \in 1 .. Len(Picked(environment, AskedIn(environment))) :
                 \E n \in AskedIn(environment) :
                    Picked(environment, AskedIn(environment))[k] = environment[n]
<1>1. environment \in Seq(Entry)
  BY DataAre
<1>2. AskedIn(environment) \in SUBSET (1 .. Len(environment))
  BY <1>1, LenProperties DEF AskedIn
<1>. QED
  BY <1>1, <1>2, PickedType

\* The server reads Groovy's words as they are, and the variables and the classpath
\* if no value has lines of their keys.
LEMMA ReadInductive ==
    ASSUME IInv, ReadInvocationRequest
    PROVE  IInv'
<1>. USE DEF IInv
<1> DEFINE words == Values(wire, "Arg")
           values == Values(wire, "Env")
           classpaths == Values(wire, "Cp")
<1>1. /\ pc = "parse" /\ pc' = "check" /\ Undecodable \notin Range(words)
      /\ request'.args = words
      /\ request'.envVars = [k \in 1 .. Len(values) |-> <<values[k][1], Trim(values[k][2])>>]
      /\ request'.classpath = IF classpaths = <<>> THEN <<>> ELSE classpaths[1]
      /\ UNCHANGED <<client, environ, cp, env, paths, args>>
  BY DEF ReadInvocationRequest, ReadHeaders
<1>2. UNCHANGED <<typed, argv, i, option>>
  BY <1>1 DEF client
<1>3. pc \notin Parsed /\ pc' \in Parsed /\ pc \in Sent /\ pc' \in Sent
  BY <1>1 DEF Parsed, Sent
<1>4. environ \in Environs /\ cp \in Classpaths
  BY <1>3 DEF RequestInv
<1>5. PICK token \in Words \cup {ServerToken} :
          wire = HeaderOf(token, Groovys, Section(Entries), cp)
  BY <1>1 DEF RequestInv
<1>6. Entries \in Seq(Entry)
  BY <1>4, EntriesAre DEF Asked, Entries
<1>. HIDE DEF words, values, classpaths
<1>7. /\ Section(Entries) \in Seq(HeaderLine(token))
      /\ SectionOf(Section(Entries), Entries, Len(Entries))
  BY <1>6, EnvironmentSection
<1>8. Groovys \in Seq(Words)
  BY WordsLeft
<1>9. ReadAs(wire, Groovys, Entries, cp)
  BY <1>4, <1>5, <1>6, <1>7, <1>8, HeaderRead
<1>10. \E more \in Seq(Words) : words = Groovys \o more /\ (NoLine(Entries, "Arg") => more = <<>>)
  <2>1. PICK more \in Seq(Words \cup {Undecodable}) :
            words = Groovys \o more /\ (NoLine(Entries, "Arg") => more = <<>>)
    BY <1>9 DEF ReadAs, words
  <2> DEFINE S == Words \cup {Undecodable}
  <2>2. Groovys \in Seq(S) /\ more \in Seq(S)
    BY <1>8, SeqMonotonic
  <2>. HIDE DEF S
  <2>3. /\ Groovys \o more \in Seq(S) /\ Len(Groovys \o more) = Len(Groovys) + Len(more)
        /\ \A k \in 1 .. Len(more) : (Groovys \o more)[Len(Groovys) + k] = more[k]
    BY <2>2, TwoParts
  <2>4. Len(Groovys) \in Nat /\ Len(more) \in Nat
    BY <2>2, LenProperties
  <2>5. ASSUME NEW k \in 1 .. Len(more) PROVE more[k] \in Words
    <3>1. Len(Groovys) + k \in DOMAIN words /\ words[Len(Groovys) + k] = more[k]
      <4>1. Len(Groovys) + k \in 1 .. Len(Groovys \o more)
        BY <2>3, <2>4
      <4>2. DOMAIN (Groovys \o more) = 1 .. Len(Groovys \o more)
        BY <2>3, LenProperties
      <4>. QED
        BY <2>1, <2>3, <4>1, <4>2
    <3>2. more[k] \in Range(words)
      BY <3>1 DEF Range
    <3>3. more[k] \in S
      BY <2>2, ElementOfSeq
    <3>. QED
      BY <1>1, <3>2, <3>3 DEF S
  <2>6. more \in Seq(Words)
    <3>1. more \in [1 .. Len(more) -> Words]
      BY <2>2, <2>5, LenProperties
    <3>. QED
      BY <2>4, <3>1
  <2>. QED
    BY <2>1, <2>6
<1>11. words \in Seq(Words)
  BY <1>8, <1>10, ConcatProperties
<1>12. request'.envVars \in Seq(STRING \X TextLine)
  <2>1. values \in Seq(STRING \X TextLine)
    BY <1>9 DEF ReadAs, values
  <2>2. ASSUME NEW k \in 1 .. Len(values)
        PROVE  <<values[k][1], Trim(values[k][2])>> \in STRING \X TextLine
    <3>1. values[k] \in STRING \X TextLine
      BY <2>1, ElementOfSeq
    <3>2. Trim(values[k][2]) \in TextLine
      BY <3>1 DEF TextLine, Trim
    <3>. QED
      BY <3>1, <3>2
  <2>3. Len(values) \in Nat
    BY <2>1, LenProperties
  <2>4. request'.envVars \in [1 .. Len(values) -> STRING \X TextLine]
    BY <1>1, <2>2
  <2>. QED
    BY <2>3, <2>4
<1>13. ASSUME SingleLines(Entries, Len(Entries))
       PROVE  request'.envVars = [k \in 1 .. Len(Entries) |-> Variable(Entries[k])]
  <2>1. values = [k \in 1 .. Len(Entries) |-> <<Entries[k].name, Entries[k].value>>]
    BY <1>9, <1>13 DEF ReadAs, values
  <2>2. Len(values) = Len(Entries)
    BY <1>6, <2>1, LenProperties
  <2>3. \A k \in 1 .. Len(Entries) : <<values[k][1], Trim(values[k][2])>> = Variable(Entries[k])
    BY <2>1 DEF Variable
  <2>. QED
    BY <1>1, <2>2, <2>3
<1>14. ASSUME NoLine(Entries, Blank), NoLine(Entries, "Cp") PROVE request'.classpath = cp
  <2>1. classpaths = IF cp # <<>> THEN <<cp>> ELSE <<>>
    BY <1>9, <1>14 DEF ReadAs, classpaths
  <2>2. <<cp>> # <<>> /\ <<cp>>[1] = cp
    OBVIOUS
  <2>. QED
    BY <1>1, <2>1, <2>2
<1>15. TypeOK'
  BY <1>1, <1>2, <1>11, <1>12 DEF TypeOK
<1>16. ClientInv'
  BY <1>1, <1>2, ClientStays
<1>17. RequestInv'
  <2>1. Groovys' = Groovys /\ Entries' = Entries
    BY <1>1, <1>2, DerivedStays
  <2>. QED
    BY <1>1, <1>3, <1>4, <1>10, <1>13, <1>14, <2>1 DEF RequestInv
<1>18. EnvInv' /\ FilterInv' /\ ArgumentsArrive' /\ ClasspathArrives'
  BY <1>1 DEF EnvInv, FilterInv, ArgumentsArrive, ClasspathArrives
<1>. QED
  BY <1>15, <1>16, <1>17, <1>18

\* An argument that cannot be decoded ends the invocation.
LEMMA UndecodableInductive ==
    ASSUME IInv, InvalidArgument
    PROVE  IInv'
<1>. USE DEF IInv
<1>1. /\ pc = "parse" /\ pc' = "invalidHeader"
      /\ UNCHANGED <<client, environ, cp, env, paths, args>> /\ request' = request
  BY DEF InvalidArgument, ReadHeaders
<1>2. UNCHANGED <<typed, argv, i, option>>
  BY <1>1 DEF client
<1>3. TypeOK'
  BY <1>1, <1>2 DEF TypeOK, Ended
<1>4. ClientInv'
  BY <1>1, <1>2, ClientStays
<1>5. RequestInv'
  BY <1>1 DEF RequestInv, Sent, Parsed
<1>6. EnvInv' /\ FilterInv' /\ ArgumentsArrive' /\ ClasspathArrives'
  BY <1>1, <1>2 DEF EnvInv, FilterInv, ArgumentsArrive, ClasspathArrives
<1>. QED
  BY <1>3, <1>4, <1>5, <1>6

\* Once it is read the request stays as it is.
LEMMA RequestStays ==
    ASSUME IInv, pc \in Parsed, pc' \in Parsed, UNCHANGED <<typed, environ, cp, wire, request>>
    PROVE  RequestInv'
<1>1. pc \in Sent /\ pc' \in Sent /\ pc' # "parse" /\ pc # "parse"
  BY DEF Parsed, Sent
<1>2. Groovys' = Groovys /\ Entries' = Entries
  BY DerivedStays
<1>. QED
  BY <1>1, <1>2 DEF RequestInv, IInv

\* The token is checked and the command looked at, nothing else.
LEMMA CheckInductive ==
    ASSUME IInv, Check \/ Run
    PROVE  IInv'
<1>. USE DEF IInv
<1>1. /\ pc \in {"check", "run"} /\ pc' \in {"run", "invalidToken", "command", "setup"}
      /\ UNCHANGED <<client, sent, server>>
  BY DEF Check, Run
<1>2. /\ UNCHANGED <<typed, argv, i, option>> /\ UNCHANGED <<environ, cp, wire>>
      /\ UNCHANGED <<request, env, paths, args>>
  BY <1>1 DEF client, sent, server
<1>3. TypeOK'
  BY <1>1, <1>2 DEF TypeOK, Ended
<1>4. ClientInv'
  BY <1>1, <1>2, ClientStays
<1>5. RequestInv'
  <2>1. pc \in Parsed /\ pc' \in Parsed
    BY <1>1 DEF Parsed, Sent
  <2>. QED
    BY <1>2, <2>1, RequestStays
<1>6. EnvInv' /\ FilterInv' /\ ArgumentsArrive' /\ ClasspathArrives'
  BY <1>1, <1>2 DEF EnvInv, FilterInv, ArgumentsArrive, ClasspathArrives
<1>. QED
  BY <1>3, <1>4, <1>5, <1>6

\* What the variables of a request leave: of each name the last.
LastOfEach(variables) ==
    {variables[k] : k \in {n \in 1 .. Len(variables) :
        \A m \in n + 1 .. Len(variables) : variables[m][1] # variables[n][1]}}

\* Of the entries that are asked for the last of each name is what remains.
LEMMA LastAskedRemains ==
    ASSUME NEW environment \in Seq(Entry), NEW asked \in SUBSET (1 .. Len(environment)),
           NEW variables, NEW entries, entries = Picked(environment, asked),
           variables = [k \in 1 .. Len(entries) |-> Variable(entries[k])]
    PROVE  LastOfEach(variables) = LastAsked(environment, asked)
<1>1. PICK N, g : Enumerates(g, N, asked) /\ entries = [k \in 1 .. N |-> environment[g[k]]]
  BY PickedEnumerates
<1>2. /\ N \in Nat /\ g \in [1 .. N -> asked]
      /\ \A j, k \in 1 .. N : j < k => g[j] < g[k]
      /\ \A p \in asked : \E k \in 1 .. N : g[k] = p
      /\ \A k \in 1 .. N : g[k] \in Nat
  <2>1. asked \in SUBSET Nat
    BY LenProperties
  <2>. QED
    BY <1>1, <2>1 DEF Enumerates
<1>3. Len(entries) = N /\ \A k \in 1 .. N : entries[k] = environment[g[k]]
  BY <1>1, <1>2
<1>4. Len(variables) = N /\ \A k \in 1 .. N : variables[k] = Variable(environment[g[k]])
  BY <1>2, <1>3
<1>5. \A k \in 1 .. N : variables[k][1] = environment[g[k]].name
  BY <1>4 DEF Variable
<1> DEFINE IsLast(k) == \A m \in k + 1 .. N : variables[m][1] # variables[k][1]
           Latest(n) == \A m \in asked : m > n => environment[m].name # environment[n].name
<1>6. ASSUME NEW k \in 1 .. N PROVE IsLast(k) <=> Latest(g[k])
  <2>1. ASSUME IsLast(k), NEW m \in asked, m > g[k] PROVE environment[m].name # environment[g[k]].name
    <3>1. PICK l \in 1 .. N : g[l] = m
      BY <1>2
    <3>2. l \in k + 1 .. N
      BY <1>2, <2>1, <3>1
    <3>. QED
      BY <1>5, <2>1, <3>1, <3>2
  <2>2. ASSUME Latest(g[k]), NEW m \in k + 1 .. N PROVE variables[m][1] # variables[k][1]
    <3>1. m \in 1 .. N /\ k < m
      BY <1>2
    <3>2. g[m] \in asked /\ g[m] > g[k]
      BY <1>2, <3>1
    <3>. QED
      BY <1>5, <2>2, <3>1, <3>2
  <2>. QED
    BY <2>1, <2>2
<1>7. LastOfEach(variables) = {variables[k] : k \in {n \in 1 .. N : IsLast(n)}}
  BY <1>4 DEF LastOfEach
<1>. HIDE DEF IsLast, Latest
<1>8. ASSUME NEW k \in 1 .. N, IsLast(k)
      PROVE  variables[k] \in {Variable(environment[n]) : n \in {n \in asked : Latest(n)}}
  <2>1. g[k] \in {n \in asked : Latest(n)}
    BY <1>2, <1>6, <1>8
  <2>. QED
    BY <1>4, <2>1
<1>9. ASSUME NEW n \in asked, Latest(n) PROVE Variable(environment[n]) \in LastOfEach(variables)
  <2>1. PICK k \in 1 .. N : g[k] = n
    BY <1>2
  <2>2. IsLast(k) /\ variables[k] = Variable(environment[n])
    BY <1>4, <1>6, <1>9, <2>1
  <2>. QED
    BY <1>7, <2>2
<1>. QED
  BY <1>7, <1>8, <1>9 DEF Latest, LastAsked

\* The environment is that of the request.
LEMMA SetupInductive ==
    ASSUME IInv, SetupEnvVars
    PROVE  IInv'
<1>. USE DEF IInv
<1>1. /\ pc = "setup" /\ pc' = "classpath" /\ i' = 1 /\ env' = LastOfEach(request.envVars)
      /\ UNCHANGED <<typed, argv, option>> /\ UNCHANGED <<environ, cp, wire>>
      /\ UNCHANGED <<request, paths, args>>
  BY DEF SetupEnvVars, sent, LastOfEach
<1>2. pc \in Parsed /\ pc' \in Parsed /\ pc \in Sent
  BY <1>1 DEF Parsed, Sent
<1>3. environ \in Seq(Entry) /\ Asked \in SUBSET (1 .. Len(environ))
  <2>1. environ \in Environs
    BY <1>2 DEF RequestInv
  <2>. QED
    BY <2>1, EntriesAre DEF Asked
<1>4. request.args \in Seq(Words) /\ request.envVars \in Seq(STRING \X TextLine)
  BY DEF TypeOK
<1>5. Taken' = Taken /\ KeptAt' = KeptAt /\ GivenAt' = GivenAt /\ Asked' = Asked /\ Entries' = Entries
  BY <1>1, DerivedStays
<1>6. TypeOK'
  <2>1. env' \subseteq STRING \X TextLine
    BY <1>1, <1>4, ElementOfSeq DEF LastOfEach
  <2>. QED
    BY <1>1, <2>1 DEF TypeOK
<1>7. ClientInv'
  BY <1>1, ClientStays
<1>8. RequestInv'
  BY <1>1, <1>2, RequestStays
<1>9. EnvInv'
  <2>1. ASSUME SingleLines(Entries, Len(Entries))
        PROVE  env' = LastAsked(environ, Asked)
    <3>1. request.envVars = [k \in 1 .. Len(Entries) |-> Variable(Entries[k])]
      BY <1>2, <2>1 DEF RequestInv
    <3>. QED
      BY <1>1, <1>3, <3>1, LastAskedRemains DEF Entries
  <2>2. LastAsked(environ, Asked)' = LastAsked(environ, Asked)
    BY <1>1, <1>5 DEF LastAsked, Variable
  <2>. QED
    BY <1>1, <1>5, <2>1, <2>2 DEF EnvInv
<1>10. FilterInv'
  <2>1. request.args \in Seq(Words) /\ Len(request.args) \in Nat
    BY <1>4, LenProperties
  <2>2. args = <<>> /\ paths = <<>>
    BY <1>1 DEF FilterInv
  <2>3. Taken \in [0 .. Len(request.args) -> BOOLEAN] /\ (1 <= Len(request.args) => ~Taken[1])
    BY <2>1, IsValueIs DEF Taken
  <2>4. Kept(1) = <<>> /\ Given(1) = <<>>
    <3>1. Before(KeptAt, 1) = {} /\ Before(GivenAt, 1) = {}
      BY <2>1, LenProperties DEF KeptAt, GivenAt, Before
    <3>. QED
      BY <2>1, <3>1, PickedNone DEF Kept, Given
  <2>5. Gathered(<<>>, PathsOf(<<>>))
    <3>1. PathsOf(<<>>) = <<>>
      <4>1. [k \in 1 .. Len(<<>>) |-> Split(<<>>[k])] = <<>>
        OBVIOUS
      <4>. QED
        BY <4>1, FlattenNone DEF PathsOf
    <3>2. Gathered(<<>>, <<>>)
      BY EmptySeq DEF Gathered
    <3>. QED
      BY <3>1, <3>2
  <2>6. args' = Kept(i)' /\ Gathered(paths', PathsOf(Given(i)'))
    <3>1. Kept(i)' = Kept(1) /\ Given(i)' = Given(1)
      BY <1>1, <1>5 DEF Kept, Given
    <3>. QED
      BY <1>1, <2>2, <2>4, <2>5, <3>1
  <2>7. Gathered(paths, PathsOf(Given(i)))'
    BY <2>6 DEF Gathered, PathsOf
  <2>. QED
    BY <1>1, <1>5, <2>1, <2>3, <2>6, <2>7 DEF FilterInv
<1>11. ArgumentsArrive' /\ ClasspathArrives'
  BY <1>1 DEF ArgumentsArrive, ClasspathArrives
<1>. QED
  BY <1>6, <1>7, <1>8, <1>9, <1>10, <1>11

\* One position further, one entry more is picked or none.
LEMMA PickedBelow ==
    ASSUME NEW S, NEW seq \in Seq(S), NEW positions \in SUBSET (1 .. Len(seq)),
           NEW j \in 1 .. Len(seq)
    PROVE  Picked(seq, Before(positions, j + 1)) =
             IF j \in positions THEN Append(Picked(seq, Before(positions, j)), seq[j])
             ELSE Picked(seq, Before(positions, j))
<1>1. Before(positions, j) \in SUBSET (1 .. Len(seq)) /\ \A p \in Before(positions, j) : p < j
  BY DEF Before
<1>2. Before(positions, j + 1) =
        IF j \in positions THEN Before(positions, j) \cup {j} ELSE Before(positions, j)
  <2>1. \A p \in positions : p < j + 1 <=> p < j \/ p = j
    BY LenProperties
  <2>. QED
    BY <2>1 DEF Before
<1>3. Picked(seq, Before(positions, j) \cup {j}) = Append(Picked(seq, Before(positions, j)), seq[j])
  BY <1>1, PickedAppend
<1>. QED
  BY <1>2, <1>3

\* The server's handler at its loop over the arguments.
LEMMA AtFilter ==
    ASSUME IInv, pc = "classpath"
    PROVE  /\ request.args \in Seq(Words)
           /\ Len(request.args) \in Nat /\ DOMAIN request.args = 1 .. Len(request.args)
           /\ i \in Nat /\ i >= 1 /\ i <= Len(request.args) + 1
           /\ KeptAt \in SUBSET (1 .. Len(request.args)) /\ GivenAt \in SUBSET (1 .. Len(request.args))
           /\ \A n \in 1 .. Len(request.args) :
                 Taken[n] <=> n > 1 /\ ~Taken[n - 1] /\ request.args[n - 1] \in CLASSPATH_OPTIONS
           /\ i <= Len(request.args) => ~Taken[i]
           /\ args = Kept(i) /\ Gathered(paths, PathsOf(Given(i)))
<1>1. TypeOK /\ FilterInv
  BY DEF IInv
<1>2. request.args \in Seq(Words)
  BY <1>1 DEF TypeOK
<1>3. Len(request.args) \in Nat /\ DOMAIN request.args = 1 .. Len(request.args)
  BY <1>2, LenProperties
<1>4. i \in Nat /\ i >= 1
  BY <1>1 DEF TypeOK
<1>5. \A n \in 1 .. Len(request.args) :
          Taken[n] <=> n > 1 /\ ~Taken[n - 1] /\ request.args[n - 1] \in CLASSPATH_OPTIONS
  <2>1. \A n \in 1 .. Len(request.args) : n \in 0 .. Len(request.args)
    OBVIOUS
  <2>. QED
    BY <1>2, <2>1, IsValueIs DEF Taken
<1>6. KeptAt \in SUBSET (1 .. Len(request.args)) /\ GivenAt \in SUBSET (1 .. Len(request.args))
  BY <1>3 DEF KeptAt, GivenAt
<1>. QED
  BY <1>1, <1>2, <1>3, <1>4, <1>5, <1>6 DEF FilterInv

\* The loop goes on with what it should have gathered.
LEMMA FilterStays ==
    ASSUME IInv, pc = "classpath", pc' = "classpath", UNCHANGED <<typed, argv, option>>,
           UNCHANGED <<environ, cp, wire>>, UNCHANGED <<request, env>>,
           NEW j, i' = j, j \in 1 .. Len(request.args) + 1, j <= Len(request.args) => ~Taken[j],
           args' = Kept(j), Gathered(paths', PathsOf(Given(j)))
    PROVE  IInv'
<1>1. Taken' = Taken /\ KeptAt' = KeptAt /\ GivenAt' = GivenAt /\ Asked' = Asked /\ Entries' = Entries
  BY DerivedStays
<1>2. args' \in Seq(Words)
  <2>1. Before(KeptAt, j) \in SUBSET (1 .. Len(request.args))
    BY AtFilter DEF Before
  <2>. QED
    BY <2>1, AtFilter, PickedType DEF Kept
<1>3. TypeOK'
  <2>1. i' \in Nat \ {0}
    BY AtFilter
  <2>. QED
    BY <1>2, <2>1 DEF IInv, TypeOK
<1>4. ClientInv'
  BY ClientStays
<1>5. RequestInv'
  BY RequestStays DEF Parsed, Sent
<1>6. EnvInv'
  <2>1. LastAsked(environ, Asked)' = LastAsked(environ, Asked)
    BY <1>1 DEF LastAsked, Variable
  <2>. QED
    BY <1>1, <2>1 DEF IInv, EnvInv
<1>7. FilterInv'
  <2>1. Kept(i)' = Kept(j) /\ Given(i)' = Given(j)
    BY <1>1 DEF Kept, Given
  <2>2. Gathered(paths, PathsOf(Given(i)))'
    <3>1. Gathered(paths', PathsOf(Given(i)'))
      BY <2>1
    <3>. QED
      BY <3>1 DEF Gathered, PathsOf
  <2>3. i' <= Len(request'.args) + 1 /\ (i' <= Len(request'.args) => ~Taken'[i'])
    BY <1>1, AtFilter
  <2>. QED
    BY <2>1, <2>2, <2>3 DEF FilterInv
<1>8. ArgumentsArrive' /\ ClasspathArrives'
  BY DEF ArgumentsArrive, ClasspathArrives
<1>. QED
  BY <1>3, <1>4, <1>5, <1>6, <1>7, <1>8 DEF IInv

\* An argument that is no classpath option is kept.
LEMMA KeepInductive ==
    ASSUME IInv, KeepArgument
    PROVE  IInv'
<1>1. /\ pc = "classpath" /\ pc' = "classpath" /\ i <= Len(request.args) /\ i' = i + 1
      /\ request.args[i] \notin CLASSPATH_OPTIONS /\ args' = Append(args, request.args[i])
      /\ UNCHANGED <<typed, argv, option>> /\ UNCHANGED <<environ, cp, wire>>
      /\ UNCHANGED <<request, env, paths>>
  BY DEF KeepArgument, Filtering, sent
<1>2. i \in 1 .. Len(request.args) /\ request.args[i] \notin CLASSPATH_OPTIONS /\ ~Taken[i] /\ i + 1 \in Nat
  BY <1>1, AtFilter
<1>3. Kept(i + 1) = Append(Kept(i), request.args[i])
  <2>1. i \in KeptAt
    BY <1>1, <1>2, AtFilter DEF KeptAt
  <2>. QED
    BY <1>1, <1>2, <2>1, AtFilter, PickedBelow DEF Kept
<1>4. Given(i + 1) = Given(i)
  <2>1. i \notin GivenAt
    BY <1>2 DEF GivenAt
  <2>2. request.args \in Seq(Words) /\ GivenAt \in SUBSET (1 .. Len(request.args))
    BY <1>1, AtFilter
  <2>. QED
    BY <1>2, <2>1, <2>2, PickedBelow DEF Given
<1>5. i + 1 <= Len(request.args) => ~Taken[i + 1]
  <2>. SUFFICES ASSUME i + 1 <= Len(request.args) PROVE ~Taken[i + 1]
    OBVIOUS
  <2>1. i + 1 \in 1 .. Len(request.args) /\ (i + 1) - 1 = i
    BY <1>1, <1>2, AtFilter
  <2>. QED
    BY <1>1, <1>2, <2>1, AtFilter
<1>. QED
  <2>1. i + 1 \in 1 .. Len(request.args) + 1
    BY <1>1, <1>2, AtFilter
  <2>2. args' = Kept(i + 1) /\ Gathered(paths', PathsOf(Given(i + 1)))
    BY <1>1, <1>2, <1>3, <1>4, AtFilter
  <2>. QED
    BY <1>1, <1>5, <2>1, <2>2, FilterStays

-----------------------------------------------------------------------------
(* The classpath                                                           *)

\* The paths of a list of values are a list of paths.
LEMMA PathsAre ==
    ASSUME NEW words \in Seq(Words)
    PROVE  /\ \A v \in Words : Split(v) \in Seq(Path)
           /\ [k \in 1 .. Len(words) |-> Split(words[k])] \in Seq(Seq(Path))
           /\ PathsOf(words) \in Seq(Path)
<1>1. \A v \in Words : Split(v) \in Seq(Path)
  <2>1. Seq(STRING) \subseteq Seq(Path)
    BY SeqMonotonic DEF Path
  <2>. QED
    BY <2>1, DataAssumption
<1> DEFINE lists == [k \in 1 .. Len(words) |-> Split(words[k])]
<1>2. Len(words) \in Nat /\ \A k \in 1 .. Len(words) : words[k] \in Words
  BY ElementOfSeq, LenProperties
<1>3. lists \in Seq(Seq(Path))
  <2>1. lists \in [1 .. Len(words) -> Seq(Path)]
    BY <1>1, <1>2
  <2>. HIDE DEF lists
  <2>. QED
    BY <1>2, <2>1
<1>4. FlattenSeq(lists) \in Seq(Path)
  <2>. HIDE DEF lists
  <2>. QED
    BY <1>3, EmptySeq, FlattenAppend
<1>. QED
  BY <1>1, <1>3, <1>4 DEF PathsOf

\* The paths of one value more come behind those of the others.
LEMMA PathsOfMore ==
    ASSUME NEW words \in Seq(Words), NEW w \in Words
    PROVE  /\ PathsOf(words) \in Seq(Path) /\ Split(w) \in Seq(Path)
           /\ PathsOf(Append(words, w)) = PathsOf(words) \o Split(w)
<1>1. \A v \in Words : Split(v) \in Seq(Path)
  BY PathsAre
<1> DEFINE n == Len(words)
           lists == [k \in 1 .. n |-> Split(words[k])]
           more == [k \in 1 .. Len(Append(words, w)) |-> Split(Append(words, w)[k])]
<1>2. n \in Nat /\ \A k \in 1 .. n : words[k] \in Words
  BY ElementOfSeq, LenProperties
<1>3. /\ Len(Append(words, w)) = n + 1 /\ Append(words, w)[n + 1] = w
      /\ \A k \in 1 .. n : Append(words, w)[k] = words[k]
  BY AppendProperties, LenProperties
<1>4. lists \in Seq(Seq(Path)) /\ Len(lists) = n
  <2>1. lists \in Seq(Seq(Path))
    BY PathsAre
  <2>. QED
    BY <1>2, <2>1
<1>5. more = Append(lists, Split(w))
  <2>1. Append(lists, Split(w)) = [k \in 1 .. n + 1 |-> IF k = n + 1 THEN Split(w) ELSE lists[k]]
    <3>1. Split(w) \in Seq(Path)
      BY <1>1
    <3>. HIDE DEF lists, n
    <3>2. /\ DOMAIN Append(lists, Split(w)) = 1 .. n + 1
          /\ Append(lists, Split(w)) \in Seq(Seq(Path))
          /\ \A k \in 1 .. n : Append(lists, Split(w))[k] = lists[k]
          /\ Append(lists, Split(w))[n + 1] = Split(w)
      BY <1>2, <1>4, <3>1, AppendProperties, LenProperties
    <3>3. \A k \in 1 .. n + 1 : k = n + 1 \/ k \in 1 .. n
      BY <1>2
    <3>4. Append(lists, Split(w)) = [k \in 1 .. n + 1 |-> Append(lists, Split(w))[k]]
      BY <3>2, LenProperties
    <3>. QED
      BY <1>2, <3>2, <3>3, <3>4
  <2>2. \A k \in 1 .. n + 1 : Split(Append(words, w)[k]) = IF k = n + 1 THEN Split(w) ELSE lists[k]
    BY <1>2, <1>3
  <2>3. more = [k \in 1 .. n + 1 |-> Split(Append(words, w)[k])]
    BY <1>3
  <2>. HIDE DEF more, lists, n
  <2>. QED
    BY <2>1, <2>2, <2>3
<1>6. PathsOf(words) = FlattenSeq(lists) /\ PathsOf(Append(words, w)) = FlattenSeq(more)
  BY DEF PathsOf
<1>. HIDE DEF lists, more
<1>. QED
  BY <1>1, <1>4, <1>5, <1>6, FlattenAppend

\* Adding paths to those gathered gathers those of both lists.
LEMMA GatheredMore ==
    ASSUME NEW all \in Seq(Path), NEW new \in Seq(Path), NEW list, Gathered(list, all)
    PROVE  Gathered(AddPaths(list, new), all \o new)
<1> DEFINE First(p) == new[p] \notin Range(list) /\ \A m \in 1 .. p - 1 : new[m] # new[p]
           at == {p \in DOMAIN new : First(p)}
           both == all \o new
           result == AddPaths(list, new)
           A == Len(all)
           L == Len(list)
<1>1. /\ list \in Seq(Path) /\ Range(list) = Range(all) /\ L \in Nat /\ A \in Nat
      /\ Len(new) \in Nat /\ DOMAIN new = 1 .. Len(new) 
      /\ DOMAIN all = 1 .. A /\ DOMAIN list = 1 .. L
      /\ \A k \in 1 .. L : \A m \in 1 .. k - 1 :
           /\ list[m] # list[k]
           /\ \E n \in 1 .. A : all[n] = list[m] /\ \A o \in 1 .. n : all[o] # list[k]
  BY LenProperties DEF Gathered
<1>2. at \in SUBSET (1 .. Len(new))
  BY <1>1
<1>3. \A p \in at : First(p)
  OBVIOUS
<1>. HIDE DEF at, First
<1>4. PICK n, g : Enumerates(g, n, at) /\ Picked(new, at) = [k \in 1 .. n |-> new[g[k]]]
  BY <1>2, PickedEnumerates
<1>5. /\ n \in Nat /\ g \in [1 .. n -> at] /\ \A k \in 1 .. n : g[k] \in 1 .. Len(new)
      /\ \A j, k \in 1 .. n : j < k => g[j] < g[k]
      /\ \A p \in at : \E k \in 1 .. n : g[k] = p
  BY <1>2, <1>4 DEF Enumerates
<1>6. /\ result \in Seq(Path) /\ Len(result) = L + n /\ DOMAIN result = 1 .. L + n
      /\ \A k \in 1 .. L : result[k] = list[k]
      /\ \A k \in 1 .. n : result[L + k] = new[g[k]]
  <2>1. Picked(new, at) \in Seq(Path) /\ Len(Picked(new, at)) = n
    <3>1. Picked(new, at) \in Seq(Path)
      BY <1>2, PickedType
    <3>. QED
      BY <1>4, <1>5, <3>1
  <2>2. result = list \o Picked(new, at)
    BY DEF AddPaths, at, First
  <2>. HIDE DEF result
  <2>. QED
    BY <1>1, <1>4, <1>5, <2>1, <2>2, ConcatProperties, LenProperties
<1>7. /\ both \in Seq(Path) /\ Len(both) = A + Len(new) /\ DOMAIN both = 1 .. A + Len(new)
      /\ \A k \in 1 .. A : both[k] = all[k]
      /\ \A k \in 1 .. Len(new) : both[A + k] = new[k]
  <2>. HIDE DEF both
  <2>. QED
    BY <1>1, ConcatProperties, LenProperties DEF both
<1>. HIDE DEF result, both
<1>8. \A k \in 1 .. A : all[k] \in Range(list)
  BY <1>1 DEF Range
<1>9. \A x \in Range(list) : \E k \in 1 .. A : all[k] = x
  BY <1>1 DEF Range
\* What is new was not there, and every new path is there once.
<1>10. \A k \in 1 .. n : new[g[k]] \notin Range(list) /\ \A m \in 1 .. g[k] - 1 : new[m] # new[g[k]]
  BY <1>3, <1>5 DEF First
<1>11. Range(result) = Range(both)
  <2>1. ASSUME NEW x \in Range(result) PROVE x \in Range(both)
    <3>1. PICK k \in 1 .. L + n : result[k] = x
      BY <1>6, <2>1 DEF Range
    <3>2. CASE k \in 1 .. L
      <4>1. x \in Range(list)
        BY <1>1, <1>6, <3>1, <3>2 DEF Range
      <4>2. PICK j \in 1 .. A : all[j] = x
        BY <1>9, <4>1
      <4>3. j \in 1 .. A + Len(new) /\ both[j] = x
        BY <1>1, <1>7, <4>2
      <4>. QED
        BY <1>7, <4>3 DEF Range
    <3>3. CASE k \notin 1 .. L
      <4>1. k - L \in 1 .. n /\ L + (k - L) = k
        BY <1>1, <1>5, <3>3
      <4>2. x = new[g[k - L]] /\ g[k - L] \in 1 .. Len(new)
        BY <1>5, <1>6, <3>1, <4>1
      <4>3. A + g[k - L] \in 1 .. A + Len(new) /\ both[A + g[k - L]] = x
        BY <1>1, <1>7, <4>2
      <4>. QED
        BY <1>7, <4>3 DEF Range
    <3>. QED
      BY <3>2, <3>3
  <2>2. ASSUME NEW x \in Range(both) PROVE x \in Range(result)
    <3>1. PICK k \in 1 .. A + Len(new) : both[k] = x
      BY <1>7, <2>2 DEF Range
    <3>2. CASE x \in Range(list)
      <4>1. PICK j \in 1 .. L : list[j] = x
        BY <1>1, <3>2 DEF Range
      <4>2. j \in 1 .. L + n /\ result[j] = x
        BY <1>1, <1>5, <1>6, <4>1
      <4>. QED
        BY <1>6, <4>2 DEF Range
    <3>3. CASE x \notin Range(list)
      <4> DEFINE same == {p \in 1 .. Len(new) : new[p] = x}
      <4>1. k - A \in same
        <5>1. k \notin 1 .. A
          BY <1>7, <1>8, <3>1, <3>3
        <5>2. k - A \in 1 .. Len(new) /\ A + (k - A) = k
          BY <1>1, <5>1
        <5>. QED
          BY <1>7, <3>1, <5>2
      <4>2. PICK p \in same : \A q \in same : p <= q
        <5>1. same \in SUBSET Nat /\ same # {}
          BY <4>1
        <5>. HIDE DEF same
        <5>. QED
          BY <5>1, LeastNatural
      <4>3. p \in 1 .. Len(new) /\ new[p] = x /\ \A m \in 1 .. p - 1 : new[m] # x
        BY <1>1, <4>2
      <4>4. p \in at
        BY <1>1, <3>3, <4>3 DEF at, First
      <4>5. PICK j \in 1 .. n : g[j] = p
        BY <1>5, <4>4
      <4>6. L + j \in 1 .. L + n
        BY <1>1, <1>5, <4>5
      <4>7. result[L + j] = new[p] /\ new[p] = x
        BY <1>6, <4>3, <4>5
      <4>. QED
        BY <1>6, <4>6, <4>7 DEF Range
    <3>. QED
      BY <3>2, <3>3
  <2>. QED
    BY <2>1, <2>2
<1>12. ASSUME NEW k \in 1 .. L + n, NEW m \in 1 .. k - 1
       PROVE  /\ result[m] # result[k]
              /\ \E j \in 1 .. Len(both) :
                    both[j] = result[m] /\ \A o \in 1 .. j : both[o] # result[k]
  <2>1. CASE k \in 1 .. L
    <3>1. m \in 1 .. L /\ result[k] = list[k] /\ result[m] = list[m]
      BY <1>1, <1>6, <2>1
    <3>2. PICK j \in 1 .. A : all[j] = list[m] /\ \A o \in 1 .. j : all[o] # list[k]
      BY <1>1, <2>1
    <3>3. j \in 1 .. Len(both) /\ both[j] = result[m]
      BY <1>1, <1>7, <3>1, <3>2
    <3>4. \A o \in 1 .. j : both[o] = all[o]
      BY <1>1, <1>7, <3>2
    <3>5. result[m] # result[k]
      BY <1>1, <2>1, <3>1
    <3>. QED
      BY <3>1, <3>2, <3>3, <3>4, <3>5
  <2>2. CASE k \notin 1 .. L
    <3>1. k - L \in 1 .. n /\ L + (k - L) = k
      BY <1>1, <1>5, <2>2
    <3> DEFINE p == g[k - L]
    <3>2. p \in 1 .. Len(new) /\ result[k] = new[p]
      BY <1>5, <1>6, <3>1
    <3>3. new[p] \notin Range(list) /\ \A q \in 1 .. p - 1 : new[q] # new[p]
      BY <1>10, <3>1
    <3>. HIDE DEF p
    <3>4. CASE m \in 1 .. L
      <4>1. result[m] = list[m] /\ list[m] \in Range(list)
        BY <1>1, <1>6, <3>4 DEF Range
      <4>2. PICK j \in 1 .. A : all[j] = list[m]
        BY <1>9, <4>1
      <4>3. j \in 1 .. Len(both) /\ both[j] = result[m]
        BY <1>1, <1>7, <4>1, <4>2
      <4>4. ASSUME NEW o \in 1 .. j PROVE both[o] # new[p]
        <5>1. o \in 1 .. A
          BY <1>1, <4>2
        <5>. QED
          BY <1>7, <1>8, <3>3, <5>1
      <4>. QED
        BY <3>2, <3>3, <4>1, <4>3, <4>4
    <3>5. CASE m \notin 1 .. L
      <4>1. m - L \in 1 .. n /\ L + (m - L) = m /\ m - L < k - L
        BY <1>1, <1>5, <3>5
      <4> DEFINE q == g[m - L]
      <4>2. q \in 1 .. Len(new) /\ result[m] = new[q]
        BY <1>5, <1>6, <4>1
      <4>3. q < p
        BY <1>5, <3>1, <4>1 DEF p
      <4>. HIDE DEF q
      <4>4. A + q \in 1 .. Len(both) /\ both[A + q] = new[q]
        BY <1>1, <1>7, <4>2
      <4>5. new[q] # new[p]
        BY <3>2, <3>3, <4>2, <4>3
      <4>6. ASSUME NEW o \in 1 .. A + q PROVE both[o] # new[p]
        <5>1. CASE o \in 1 .. A
          BY <1>7, <1>8, <3>3, <5>1
        <5>2. CASE o \notin 1 .. A
          <6>1. o - A \in 1 .. p - 1 /\ o - A \in 1 .. Len(new) /\ A + (o - A) = o
            BY <1>1, <3>2, <4>2, <4>3, <5>2
          <6>. QED
            BY <1>7, <3>3, <6>1
        <5>. QED
          BY <5>1, <5>2
      <4>. QED
        BY <3>2, <4>2, <4>4, <4>5, <4>6
    <3>. QED
      BY <3>4, <3>5
  <2>. QED
    BY <2>1, <2>2
<1>13. Gathered(result, both)
  BY <1>6, <1>11, <1>12 DEF Gathered
<1>. QED
  BY <1>13 DEF result, both

\* The value of a classpath option is taken with it.
LEMMA TakeInductive ==
    ASSUME IInv, TakeClasspath
    PROVE  IInv'
<1>1. /\ pc = "classpath" /\ pc' = "classpath" /\ i < Len(request.args) /\ i' = i + 2
      /\ request.args[i] \in CLASSPATH_OPTIONS
      /\ paths' = AddPaths(paths, Split(request.args[i + 1]))
      /\ UNCHANGED <<typed, argv, option>> /\ UNCHANGED <<environ, cp, wire>>
      /\ UNCHANGED <<request, env, args>>
  BY DEF TakeClasspath, Filtering, sent
<1>2. /\ i \in 1 .. Len(request.args) /\ i + 1 \in 1 .. Len(request.args) /\ i + 2 \in Nat
      /\ (i + 1) - 1 = i /\ (i + 2) - 1 = i + 1 /\ (i + 1) + 1 = i + 2
      /\ request.args[i] \in CLASSPATH_OPTIONS /\ ~Taken[i] /\ request.args[i + 1] \in Words
  <2>1. request.args \in Seq(Words)
    BY <1>1, AtFilter
  <2>2. i \in 1 .. Len(request.args) /\ i + 1 \in 1 .. Len(request.args)
    BY <1>1, AtFilter
  <2>. QED
    BY <1>1, <2>1, <2>2, AtFilter, ElementOfSeq
<1>3. Taken[i + 1] /\ (i + 2 <= Len(request.args) => ~Taken[i + 2])
  <2>1. Taken[i + 1]
    BY <1>1, <1>2, AtFilter
  <2>2. ASSUME i + 2 <= Len(request.args) PROVE ~Taken[i + 2]
    <3>1. i + 2 \in 1 .. Len(request.args)
      BY <1>1, <1>2, <2>2, AtFilter
    <3>. QED
      BY <1>1, <1>2, <2>1, <3>1, AtFilter
  <2>. QED
    BY <2>1, <2>2
<1>4. /\ request.args \in Seq(Words)
      /\ KeptAt \in SUBSET (1 .. Len(request.args)) /\ GivenAt \in SUBSET (1 .. Len(request.args))
  BY <1>1, AtFilter
<1>5. Kept(i + 2) = Kept(i)
  <2>1. i \notin KeptAt /\ i + 1 \notin KeptAt
    BY <1>2, <1>3 DEF KeptAt
  <2>2. Kept(i + 1) = Kept(i)
    BY <1>2, <1>4, <2>1, PickedBelow DEF Kept
  <2>3. Kept((i + 1) + 1) = Kept(i + 1)
    BY <1>2, <1>4, <2>1, PickedBelow DEF Kept
  <2>. QED
    BY <1>2, <2>2, <2>3
<1>6. Given(i + 2) = Append(Given(i), request.args[i + 1])
  <2>1. i \notin GivenAt
    BY <1>2 DEF GivenAt
  <2>2. i + 1 \in GivenAt
    BY <1>1, <1>2, <1>3, AtFilter DEF GivenAt
  <2>3. Given(i + 1) = Given(i)
    <3>1. Picked(request.args, Before(GivenAt, i + 1)) = Picked(request.args, Before(GivenAt, i))
      BY <1>2, <1>4, <2>1, PickedBelow
    <3>. QED
      BY <3>1 DEF Given
  <2>4. Given((i + 1) + 1) = Append(Given(i + 1), request.args[i + 1])
    <3>1. Picked(request.args, Before(GivenAt, (i + 1) + 1))
            = Append(Picked(request.args, Before(GivenAt, i + 1)), request.args[i + 1])
      BY <1>2, <1>4, <2>2, PickedBelow
    <3>. QED
      BY <3>1 DEF Given
  <2>. QED
    BY <1>2, <2>3, <2>4
<1>7. Gathered(paths', PathsOf(Given(i + 2)))
  <2> DEFINE words == Given(i)
             w == request.args[i + 1]
  <2>1. words \in Seq(Words) /\ w \in Words
    <3>1. Before(GivenAt, i) \in SUBSET (1 .. Len(request.args))
      BY <1>4 DEF Before
    <3>. QED
      BY <1>2, <1>4, <3>1, PickedType DEF Given
  <2>2. Gathered(paths, PathsOf(words)) /\ paths' = AddPaths(paths, Split(w))
    BY <1>1, AtFilter
  <2>3. Given(i + 2) = Append(words, w)
    BY <1>6
  <2>. HIDE DEF words, w
  <2>. QED
    BY <2>1, <2>2, <2>3, PathsOfMore, GatheredMore
<1>. QED
  <2>1. i + 2 \in 1 .. Len(request.args) + 1
    BY <1>1, <1>2, AtFilter
  <2>2. args' = Kept(i + 2)
    BY <1>1, <1>5, AtFilter
  <2>. QED
    BY <1>1, <1>3, <1>7, <2>1, <2>2, FilterStays

\* A classpath option without a value ends the invocation.
LEMMA InvalidInductive ==
    ASSUME IInv, InvalidClasspath
    PROVE  IInv'
<1>1. /\ pc = "classpath" /\ pc' = "invalidHeader"
      /\ UNCHANGED <<typed, argv, i, option>> /\ UNCHANGED <<environ, cp, wire>>
      /\ UNCHANGED <<request, env, paths, args>>
  BY DEF InvalidClasspath, Filtering, client, sent, server
<1>2. TypeOK'
  BY <1>1 DEF IInv, TypeOK, Ended
<1>3. ClientInv'
  BY <1>1, ClientStays
<1>4. RequestInv'
  BY <1>1 DEF IInv, RequestInv, Parsed, Sent
<1>5. EnvInv' /\ FilterInv' /\ ArgumentsArrive' /\ ClasspathArrives'
  BY <1>1 DEF EnvInv, FilterInv, ArgumentsArrive, ClasspathArrives
<1>. QED
  BY <1>2, <1>3, <1>4, <1>5 DEF IInv

\* With the current directory the paths are gathered that the options give.
LEMMA DotAdded ==
    ASSUME NEW list, NEW all \in Seq(Path), Gathered(list, all)
    PROVE  /\ Range(AddPaths(list, <<".">>)) = Range(all) \cup {"."}
           /\ "." \in Range(all)
              \/ AddPaths(list, <<".">>)[Len(AddPaths(list, <<".">>))] = "."
           /\ LET result == AddPaths(list, <<".">>) IN
              \A k \in 1 .. Len(result) : \A m \in 1 .. k - 1 :
                 /\ result[m] # result[k]
                 /\ result[k] \in Range(all) =>
                      \E n \in 1 .. Len(all) : /\ all[n] = result[m]
                                               /\ \A o \in 1 .. n : all[o] # result[k]
<1> DEFINE dot == "."
           result == AddPaths(list, <<dot>>)
           A == Len(all)
           both == Append(all, dot)
<1>1. dot \in Path
  BY DEF Path
<1>. HIDE DEF dot
<1>2. <<dot>> \in Seq(Path) /\ both = all \o <<dot>>
  BY <1>1, AppendIsConcat
<1>3. Gathered(result, both)
  <2>. HIDE DEF result, both
  <2>. QED
    BY <1>2, GatheredMore DEF result
<1>4. Range(both) = Range(all) \cup {dot}
  BY <1>1, RangeAppend
<1>5. /\ A \in Nat /\ Len(both) = A + 1 /\ DOMAIN all = 1 .. A
      /\ \A k \in 1 .. A : both[k] = all[k]
  BY <1>1, AppendProperties, LenProperties
<1>. HIDE DEF result, both
<1>6. ASSUME NEW k \in 1 .. Len(result), NEW m \in 1 .. k - 1
      PROVE  /\ result[m] # result[k]
             /\ result[k] \in Range(all) =>
                  \E n \in 1 .. A : /\ all[n] = result[m]
                                    /\ \A o \in 1 .. n : all[o] # result[k]
  <2>1. result[m] # result[k]
    BY <1>3, <1>6 DEF Gathered
  <2>2. PICK n \in 1 .. Len(both) : both[n] = result[m] /\ \A o \in 1 .. n : both[o] # result[k]
    BY <1>3, <1>6 DEF Gathered
  <2>3. ASSUME result[k] \in Range(all) PROVE n \in 1 .. A
    <3>1. PICK x \in 1 .. A : all[x] = result[k]
      BY <1>5, <2>3 DEF Range
    <3>2. x \notin 1 .. n
      BY <1>5, <2>2, <3>1
    <3>. QED
      BY <1>5, <3>1, <3>2
  <2>4. ASSUME n \in 1 .. A
        PROVE  all[n] = result[m] /\ \A o \in 1 .. n : all[o] # result[k]
    <3>1. \A o \in 1 .. n : o \in 1 .. A /\ both[o] = all[o] /\ o \in 1 .. n
      BY <1>5, <2>4
    <3>. QED
      BY <1>5, <2>2, <2>4, <3>1
  <2>. QED
    BY <2>1, <2>3, <2>4
<1>7. Range(result) = Range(all) \cup {dot}
  BY <1>3, <1>4 DEF Gathered
<1>8. ASSUME dot \notin Range(all) PROVE result[Len(result)] = dot
  <2> DEFINE R == Len(result)
             last == result[R]
  <2>1. R \in Nat /\ \A k \in 1 .. R : result[k] \in Range(both)
    BY <1>3, LenProperties DEF Gathered, Range
  <2>2. PICK m \in 1 .. R : result[m] = dot
    <3>1. dot \in Range(result)
      BY <1>7
    <3>2. DOMAIN result = 1 .. R
      BY <1>3, LenProperties DEF Gathered
    <3>. HIDE DEF R
    <3>. QED
      BY <3>1, <3>2 DEF Range
  <2>3. \A k \in 1 .. R - 1 : k \in 1 .. R /\
            \E n \in 1 .. Len(both) : both[n] = result[k] /\ \A o \in 1 .. n : both[o] # last
    <3>1. R \in 1 .. R \/ R = 0
      <4>. HIDE DEF R
      <4>. QED
        BY <2>1
    <3>2. \A k \in 1 .. R - 1 : k \in 1 .. R /\ R # 0
      <4>. HIDE DEF R
      <4>. QED
        BY <2>1
    <3>. QED
      BY <1>3, <3>1, <3>2 DEF Gathered
  <2>4. R \in 1 .. R => \E x \in 1 .. Len(both) : both[x] = last
    <3>1. DOMAIN both = 1 .. Len(both)
      BY <1>1, AppendProperties, LenProperties DEF both
    <3>. QED
      BY <2>1, <3>1 DEF Range
  <2>. HIDE DEF R, last
  <2>5. ASSUME m # R PROVE FALSE
    <3>1. R \in 1 .. R /\ m \in 1 .. R - 1
      BY <2>1, <2>5
    <3>2. PICK n \in 1 .. Len(both) : both[n] = dot /\ \A o \in 1 .. n : both[o] # last
      BY <2>2, <2>3, <3>1
    <3>3. PICK x \in 1 .. Len(both) : both[x] = last
      BY <2>4, <3>1
    <3>4. n = A + 1
      <4>1. n \in 1 .. A => all[n] = dot
        BY <1>5, <3>2
      <4>2. n \in 1 .. A => dot \in Range(all)
        BY <1>5, <4>1 DEF Range
      <4>. QED
        BY <1>5, <1>8, <4>2
    <3>. QED
      BY <1>5, <3>2, <3>3, <3>4
  <2>. QED
    BY <2>2, <2>5 DEF R
<1>. QED
  BY <1>6, <1>7, <1>8 DEF result, dot

\* Where all arguments were looked at, all are kept that the handler leaves, and
\* the values gathered are those of the line.
LEMMA AllFiltered ==
    ASSUME IInv, pc = "classpath", i > Len(request.args)
    PROVE  /\ args = Without(request.args, CLASSPATH_OPTIONS, CLASSPATH_OPTIONS)
           /\ ValuesOf(request.args, CLASSPATH_OPTIONS, CLASSPATH_OPTIONS) \in Seq(Words)
           /\ Gathered(paths, PathsOf(ValuesOf(request.args, CLASSPATH_OPTIONS, CLASSPATH_OPTIONS)))
<1>1. i = Len(request.args) + 1
  BY AtFilter
<1>2. Before(KeptAt, i) = KeptAt /\ Before(GivenAt, i) = GivenAt
  BY <1>1, AtFilter DEF Before
<1>3. /\ Without(request.args, CLASSPATH_OPTIONS, CLASSPATH_OPTIONS) = Picked(request.args, KeptAt)
      /\ ValuesOf(request.args, CLASSPATH_OPTIONS, CLASSPATH_OPTIONS) = Picked(request.args, GivenAt)
  BY DEF Without, ValuesOf, KeptAt, GivenAt, Taken
<1>4. Picked(request.args, GivenAt) \in Seq(Words)
  BY AtFilter, PickedType
<1>. QED
  BY <1>2, <1>3, <1>4, AtFilter DEF Kept, Given

\* A list of paths holds what a classpath option gives or the client's CLASSPATH.
Arrived(list, all, classpath) ==
    LET fromOption == Range(all) # {}
    IN  /\ Range(list) = (IF fromOption THEN Range(all) ELSE Range(classpath)) \cup {"."}
        /\ "." \in Range(all) \/ list[Len(list)] = "."
        /\ fromOption => \A k \in 1 .. Len(list) : \A m \in 1 .. k - 1 :
             /\ list[m] # list[k]
             /\ list[k] \in Range(all) =>
                  \E n \in 1 .. Len(all) : /\ all[n] = list[m]
                                           /\ \A o \in 1 .. n : all[o] # list[k]

\* A list has no entries if it is empty, and only then.
LEMMA RangeOfNone ==
    /\ Range(<<>>) = {}
    /\ \A list \in Seq(Path) : Range(list) = {} => list = <<>>
<1>1. Range(<<>>) = {}
  BY DEF Range
<1>2. ASSUME NEW list \in Seq(Path), list # <<>> PROVE Range(list) # {}
  <2>1. Len(list) \in Nat \ {0} /\ DOMAIN list = 1 .. Len(list)
    BY <1>2, EmptySeq, LenProperties
  <2>2. 1 \in DOMAIN list
    BY <2>1
  <2>. QED
    BY <2>2 DEF Range
<1>. QED
  BY <1>1, <1>2

\* What the handler keeps of the words does not depend on what follows them.
LEMMA WithoutPrefix ==
    ASSUME NEW words \in Seq(Words), NEW more \in Seq(Words), NEW options
    PROVE  IsPrefix(Without(words, options, options), Without(words \o more, options, options))
<1> DEFINE line == words \o more
           W == Len(words)
           L == Len(line)
           v == IsValue(words, options)
           u == IsValue(line, options)
           at == {n \in DOMAIN words : ~v[n] /\ words[n] \notin options}
           all == {n \in DOMAIN line : ~u[n] /\ line[n] \notin options}
           later == {n \in all : n > W}
<1>1. /\ line \in Seq(Words) /\ L = W + Len(more) /\ W \in Nat /\ Len(more) \in Nat
      /\ \A k \in 1 .. W : line[k] = words[k]
  BY TwoParts, LenProperties
<1>. HIDE DEF line
<1>2. DOMAIN words = 1 .. W /\ DOMAIN line = 1 .. L /\ L \in Nat /\ W <= L
  BY <1>1, LenProperties
<1>3. /\ \A n \in 0 .. W : v[n] <=> n > 1 /\ ~v[n - 1] /\ words[n - 1] \in options
      /\ \A n \in 0 .. L : u[n] <=> n > 1 /\ ~u[n - 1] /\ line[n - 1] \in options
  BY <1>1, IsValueIs
<1>. HIDE DEF W, L, v, u
<1>4. \A n \in Nat : n <= W => (v[n] <=> u[n])
  <2> DEFINE T == {n \in Nat : n <= W => (v[n] <=> u[n])}
  <2>1. 0 \in T
    <3>1. 0 \in 0 .. W /\ 0 \in 0 .. L
      BY <1>1, <1>2
    <3>. QED
      BY <1>3, <3>1
  <2>2. ASSUME NEW n \in Nat, n \in T PROVE n + 1 \in T
    <3>. SUFFICES ASSUME n + 1 <= W PROVE v[n + 1] <=> u[n + 1]
      OBVIOUS
    <3>1. n <= W /\ n + 1 \in 0 .. W /\ n + 1 \in 0 .. L /\ (n + 1) - 1 = n
          /\ (n + 1 > 1 => n \in 1 .. W)
      BY <1>1, <1>2
    <3>2. (v[n] <=> u[n]) /\ (n + 1 > 1 => line[n] = words[n])
      BY <1>1, <2>2, <3>1
    <3>3. v[n + 1] <=> n + 1 > 1 /\ ~v[n] /\ words[n] \in options
      BY <1>3, <3>1
    <3>4. u[n + 1] <=> n + 1 > 1 /\ ~u[n] /\ line[n] \in options
      BY <1>3, <3>1
    <3>. QED
      BY <3>3, <3>4, <3>2
  <2>. HIDE DEF T
  <2>3. \A n \in Nat : n \in T
    BY <2>1, <2>2, Induction
  <2>. QED
    BY <2>3 DEF T
<1>5. /\ at \in SUBSET (1 .. W) /\ all \in SUBSET (1 .. L) /\ later \in SUBSET (1 .. L)
      /\ all = at \cup later
  <2>1. \A n \in 1 .. W : n \in at <=> n \in all
    BY <1>1, <1>2, <1>4
  <2>2. \A n \in 1 .. L : n > W \/ n \in 1 .. W
    BY <1>1, <1>2
  <2>3. at \subseteq 1 .. W /\ all \subseteq 1 .. L
    BY <1>2
  <2>. HIDE DEF at, all
  <2>. QED
    BY <2>1, <2>2, <2>3
<1>6. /\ Without(words, options, options) = Picked(words, at)
      /\ Without(line, options, options) = Picked(line, all)
  BY DEF Without, v, u
<1>. HIDE DEF at, all, later
<1>7. PICK m, g : Enumerates(g, m, at) /\ Picked(words, at) = [k \in 1 .. m |-> words[g[k]]]
  BY <1>5, PickedEnumerates DEF W
<1>8. PICK n, h : Enumerates(h, n, later)
  BY <1>1, <1>5, PickedEnumerates DEF L
<1> DEFINE f == [k \in 1 .. m + n |-> IF k <= m THEN g[k] ELSE h[k - m]]
           own == Picked(words, at)
           result == Picked(line, all)
<1>9. Enumerates(f, m + n, all)
  <2>1. at \in SUBSET Nat /\ later \in SUBSET Nat
    BY <1>1, <1>2, <1>5
  <2>2. \A p \in at : \A q \in later : p < q
    BY <1>1, <1>2, <1>5 DEF later
  <2>3. Enumerates(f, m + n, at \cup later)
    BY <1>7, <1>8, <2>1, <2>2, EnumeratesBoth
  <2>. QED
    BY <1>5, <2>3
<1>10. result = [k \in 1 .. m + n |-> line[f[k]]]
  <2> DEFINE size == m + n
  <2>1. all \in SUBSET (1 .. Len(line)) /\ line \in Seq(Words)
    BY <1>1, <1>5 DEF L
  <2>2. Enumerates(f, size, all)
    BY <1>9
  <2>. HIDE DEF f, size
  <2>3. Picked(line, all) = [k \in 1 .. size |-> line[f[k]]]
    BY <2>1, <2>2, PickedIs
  <2>. QED
    BY <2>3 DEF size
<1>11. m \in Nat /\ n \in Nat /\ \A k \in 1 .. m : g[k] \in at
  BY <1>7, <1>8 DEF Enumerates
<1>12. own \in Seq(Words) /\ result \in Seq(Words)
  BY <1>1, <1>5, PickedType DEF W, L
<1>13. Len(own) = m /\ Len(result) = m + n
  <2>1. own = [k \in 1 .. m |-> words[g[k]]]
    BY <1>7
  <2>2. m + n \in Nat
    BY <1>11
  <2>. HIDE DEF own, result, f
  <2>. QED
    BY <1>10, <1>11, <1>12, <2>1, <2>2, LenProperties
<1>14. \A k \in 1 .. m : k \in 1 .. m + n /\ own[k] = result[k]
  <2>. SUFFICES ASSUME NEW k \in 1 .. m PROVE k \in 1 .. m + n /\ own[k] = result[k]
    OBVIOUS
  <2>1. k \in 1 .. m + n /\ k <= m
    BY <1>11
  <2>2. g[k] \in 1 .. W
    BY <1>5, <1>11
  <2>3. f[k] = g[k]
    BY <2>1
  <2>4. result[k] = line[g[k]]
    <3>. HIDE DEF f, result
    <3>. QED
      BY <1>10, <2>1, <2>3
  <2>5. own[k] = words[g[k]]
    BY <1>7
  <2>. QED
    BY <1>1, <2>1, <2>4, <2>5, <2>2
<1>. HIDE DEF own, result
<1>15. SubSeq(own, 1, m) = SubSeq(result, 1, m)
  <2>1. SubSeq(own, 1, m) = own
    BY <1>12, <1>13, SubSeqFull
  <2>2. /\ SubSeq(result, 1, m) \in Seq(Words) /\ Len(SubSeq(result, 1, m)) = m
        /\ \A k \in 1 .. m : SubSeq(result, 1, m)[k] = result[k]
    <3>1. \A k \in 1 .. m : result[k] \in Words
      BY <1>12, <1>13, <1>14, ElementOfSeq
    <3>2. 1 \in Int /\ m \in Int /\ m - 1 + 1 = m /\ \A k \in 1 .. m : 1 + k - 1 = k
      BY <1>11
    <3>3. /\ SubSeq(result, 1, m) \in Seq(Words)
          /\ Len(SubSeq(result, 1, m)) = IF 1 <= m THEN m - 1 + 1 ELSE 0
          /\ \A k \in 1 .. m - 1 + 1 : SubSeq(result, 1, m)[k] = result[1 + k - 1]
      BY <3>1, <3>2, SubSeqProperties
    <3>4. Len(SubSeq(result, 1, m)) = m
      BY <1>11, <3>3
    <3>. QED
      BY <3>2, <3>3, <3>4
  <2> DEFINE t == SubSeq(result, 1, m)
  <2>. HIDE DEF t
  <2>3. t \in Seq(Words) /\ Len(t) = m /\ \A k \in 1 .. m : t[k] = own[k]
    BY <1>14, <2>2 DEF t
  <2>4. t = own
    BY <1>12, <1>13, <2>3, LenProperties
  <2>. QED
    BY <2>1, <2>4 DEF t
<1>16. IsPrefix(own, result)
  BY <1>11, <1>13, <1>15 DEF IsPrefix
<1>. QED
  BY <1>6, <1>16 DEF own, result, line

\* Where no variable that is sent has lines of some keys, the header has none of it.
LEMMA HarmlessMeans ==
    ASSUME environ \in Seq(Entry), NEW keys, Harmless(keys), NEW key \in keys
    PROVE  NoLine(Entries, key)
<1>1. Asked \in SUBSET (1 .. Len(environ)) /\ \A n \in Asked : Selected(environ[n].name)
  BY LenProperties DEF Asked, AskedIn
<1>2. \A k \in 1 .. Len(Entries) : \E n \in Asked : Entries[k] = environ[n]
  BY <1>1, PickedType DEF Entries
<1>3. \A n \in Asked : \A m \in 1 .. Len(environ[n].rest) : environ[n].rest[m].key # key
  BY <1>1 DEF Harmless
<1>. QED
  BY <1>2, <1>3 DEF NoLine, HasLine

\* What is harmless stays so with the line and the environment.
LEMMA HarmlessStays ==
    ASSUME typed' = typed, environ' = environ, NEW keys
    PROVE  Harmless(keys)' <=> Harmless(keys)
<1>1. \A name : Selected(name)' = Selected(name)
  BY DEF Selected
<1>. QED
  BY <1>1 DEF Harmless

\* What is handed to the script is what the line asks for.
LEMMA InvokeInductive ==
    ASSUME IInv, InvokeGroovy
    PROVE  IInv'
<1>1. /\ pc = "classpath" /\ pc' = "script" /\ i > Len(request.args)
      /\ paths' = IF paths = <<>> /\ request.classpath # <<>> THEN Append(request.classpath, ".")
                  ELSE AddPaths(paths, <<".">>)
      /\ UNCHANGED <<typed, argv, i, option>> /\ UNCHANGED <<environ, cp, wire>>
      /\ UNCHANGED <<request, env, args>>
  BY DEF InvokeGroovy, client, sent
<1> DEFINE own == Without(Groovys, CLASSPATH_OPTIONS, CLASSPATH_OPTIONS)
           words == ValuesOf(Groovys, CLASSPATH_OPTIONS, CLASSPATH_OPTIONS)
           all == PathsOf(words)
<1>2. PICK more \in Seq(Words) :
          request.args = Groovys \o more /\ (NoLine(Entries, "Arg") => more = <<>>)
  <2>1. pc \in Parsed
    BY <1>1 DEF Parsed, Sent
  <2>. QED
    BY <2>1 DEF IInv, RequestInv
<1>3. /\ args = Without(request.args, CLASSPATH_OPTIONS, CLASSPATH_OPTIONS)
      /\ ValuesOf(request.args, CLASSPATH_OPTIONS, CLASSPATH_OPTIONS) \in Seq(Words)
      /\ Gathered(paths, PathsOf(ValuesOf(request.args, CLASSPATH_OPTIONS, CLASSPATH_OPTIONS)))
  BY <1>1, AllFiltered
<1>4. Groovys \in Seq(Words)
  BY WordsLeft DEF IInv
<1>5. environ \in Environs /\ environ \in Seq(Entry) /\ cp \in Classpaths
  <2>1. environ \in Environs /\ cp \in Classpaths
    BY <1>1 DEF IInv, RequestInv, Sent
  <2>. QED
    BY <2>1, DataAre
<1>6. Groovys' = Groovys /\ Asked' = Asked /\ Entries' = Entries
  BY <1>1, DerivedStays
<1>7. ASSUME Harmless({"Arg"}) PROVE request.args = Groovys
  <2>1. NoLine(Entries, "Arg")
    BY <1>5, <1>7, HarmlessMeans
  <2>2. Groovys \o <<>> = Groovys
    BY <1>4, ConcatEmptySeq
  <2>. QED
    BY <1>2, <2>1, <2>2
<1>8. TypeOK'
  BY <1>1 DEF IInv, TypeOK, Ended
<1>9. ClientInv'
  BY <1>1, ClientStays
<1>10. RequestInv'
  BY <1>1, RequestStays DEF Parsed, Sent
<1>11. EnvInv'
  <2>1. LastAsked(environ, Asked)' = LastAsked(environ, Asked)
    BY <1>1, <1>6 DEF LastAsked, Variable
  <2>. QED
    BY <1>1, <1>6, <2>1 DEF IInv, EnvInv
<1>12. FilterInv'
  BY <1>1 DEF FilterInv
<1>13. ArgumentsArrive'
  <2>1. IsPrefix(own, args)
    BY <1>2, <1>3, <1>4, WithoutPrefix
  <2>2. Harmless({"Arg"}) => args = own
    BY <1>3, <1>7
  <2>3. Harmless({"Arg"})' <=> Harmless({"Arg"})
    BY <1>1, HarmlessStays
  <2>4. IsPrefix(own, args)' /\ (Harmless({"Arg"})' => args' = own')
    BY <1>1, <1>6, <2>1, <2>2, <2>3
  <2>. QED
    BY <2>4 DEF ArgumentsArrive
<1>14. ASSUME Harmless({"Arg"}) PROVE words \in Seq(Words) /\ Gathered(paths, all)
  BY <1>3, <1>7, <1>14
<1>15. ASSUME Harmless({"Arg"}), Range(all) # {} \/ Harmless({"", "Cp"})
       PROVE  Arrived(paths', all, cp)
  <2>1. all \in Seq(Path) /\ Gathered(paths, all)
    BY <1>14, <1>15, PathsAre
  <2>. HIDE DEF words, all
  <2>2. CASE Range(all) # {}
    <3>1. paths # <<>>
      <4>1. Range(paths) = Range(all)
        BY <2>1 DEF Gathered
      <4>. QED
        BY <2>2, <4>1, RangeOfNone
    <3>2. paths' = AddPaths(paths, <<".">>)
      BY <1>1, <3>1
    <3>. QED
      BY <2>1, <2>2, <3>2, DotAdded DEF Arrived
  <2>3. CASE Range(all) = {}
    <3>1. paths = <<>>
      <4>1. Range(paths) = {} /\ paths \in Seq(Path)
        BY <2>1, <2>3 DEF Gathered
      <4>. QED
        BY <4>1, RangeOfNone
    <3>2. request.classpath = cp /\ cp \in Seq(Path)
      <4>1. Harmless({"", "Cp"})
        BY <1>15, <2>3
      <4>2. Blank \in {"", "Cp"} /\ "Cp" \in {"", "Cp"}
        BY DEF Blank
      <4>3. NoLine(Entries, Blank) /\ NoLine(Entries, "Cp")
        BY <1>5, <4>1, <4>2, HarmlessMeans
      <4>4. request.classpath = cp
        BY <1>1, <4>3 DEF IInv, RequestInv, Parsed, Sent
      <4>5. Classpaths \subseteq Seq(STRING)
        BY DataAssumption
      <4>. QED
        BY <1>5, <4>4, <4>5, SeqMonotonic DEF Path
    <3>3. Range(paths') = Range(cp) \cup {"."} /\ paths'[Len(paths')] = "."
      <4>1. CASE cp = <<>>
        <5>1. paths' = AddPaths(paths, <<".">>)
          BY <1>1, <3>2, <4>1
        <5>2. /\ Range(paths') = Range(all) \cup {"."}
              /\ "." \in Range(all) \/ paths'[Len(paths')] = "."
          BY <2>1, <5>1, DotAdded
        <5>. QED
          BY <2>3, <4>1, <5>2, RangeOfNone
      <4>2. CASE cp # <<>>
        <5> DEFINE dot == "."
        <5>1. paths' = Append(cp, dot)
          BY <1>1, <3>1, <3>2, <4>2
        <5>2. dot \in Path
          BY DEF Path
        <5>. HIDE DEF dot
        <5>3. Range(paths') = Range(cp) \cup {dot}
          BY <3>2, <5>1, <5>2, RangeAppend
        <5>4. paths'[Len(paths')] = dot
          BY <3>2, <5>1, <5>2, AppendProperties
        <5>. QED
          BY <5>3, <5>4 DEF dot
      <4>. QED
        BY <4>1, <4>2
    <3>. QED
      BY <2>3, <3>3 DEF Arrived
  <2>. QED
    BY <2>2, <2>3
<1>16. ClasspathArrives'
  <2>1. /\ Harmless({"Arg"})' <=> Harmless({"Arg"})
        /\ Harmless({"", "Cp"})' <=> Harmless({"", "Cp"})
    BY <1>1, HarmlessStays
  <2>2. all' = all /\ cp' = cp
    BY <1>1, <1>6 DEF PathsOf
  <2>. HIDE DEF words, all
  <2>3. Harmless({"Arg"})' /\ (Range(all') # {} \/ Harmless({"", "Cp"})') =>
            Arrived(paths', all', cp')
    BY <1>15, <2>1, <2>2
  <2>4. (Harmless({"Arg"}) /\ (Range(all) # {} \/ Harmless({"", "Cp"})) =>
            Arrived(paths, all, cp))'
    BY <2>3 DEF Arrived
  <2>. QED
    BY <2>4 DEF ClasspathArrives, Arrived, PathsOf, words, all
<1>. QED
  BY <1>8, <1>9, <1>10, <1>11, <1>12, <1>13, <1>16 DEF IInv

-----------------------------------------------------------------------------
(* The theorems                                                            *)

\* Every step keeps the invariant.
LEMMA Step == IInv /\ [Next]_vars => IInv'
<1>. SUFFICES ASSUME IInv, [Next]_vars PROVE IInv'
  OBVIOUS
<1>1. CASE Scan
  BY <1>1, ScanInductive
<1>2. CASE Control \/ NoTokenFile
  BY <1>2, ControlInductive
<1>3. CASE SendHeader
  BY <1>3, SendHeaderInductive
<1>4. CASE ReadInvocationRequest \/ InvalidArgument
  BY <1>4, ReadInductive, UndecodableInductive
<1>5. CASE Check \/ Run
  BY <1>5, CheckInductive
<1>6. CASE Invoke
  BY <1>6, SetupInductive, TakeInductive, InvalidInductive, KeepInductive, InvokeInductive
     DEF Invoke
<1>7. CASE UNCHANGED vars
  <2>1. /\ UNCHANGED <<typed, argv, i, option>> /\ UNCHANGED <<environ, cp, wire>>
        /\ UNCHANGED <<request, env, paths, args>> /\ pc' = pc
    BY <1>7 DEF vars, client, sent, server
  <2>2. /\ Groovys' = Groovys /\ Asked' = Asked /\ Entries' = Entries
        /\ Taken' = Taken /\ KeptAt' = KeptAt /\ GivenAt' = GivenAt
    BY <2>1, DerivedStays
  <2>3. \A keys : Harmless(keys)' <=> Harmless(keys)
    BY <2>1, HarmlessStays
  <2>4. TypeOK'
    BY <2>1 DEF IInv, TypeOK
  <2>5. ClientInv'
    <3>1. \A end : Scanned(end)' = Scanned(end)
      BY <2>1 DEF Scanned, Own, Behind, Value
    <3>. QED
      BY <2>1, <3>1 DEF IInv, ClientInv, Value
  <2>6. RequestInv'
    BY <2>1, <2>2 DEF IInv, RequestInv
  <2>7. EnvInv'
    <3>1. LastAsked(environ, Asked)' = LastAsked(environ, Asked)
      BY <2>1, <2>2 DEF LastAsked, Variable
    <3>. QED
      BY <2>1, <2>2, <3>1 DEF IInv, EnvInv
  <2>8. FilterInv'
    <3>1. Kept(i)' = Kept(i) /\ Given(i)' = Given(i)
      BY <2>1, <2>2 DEF Kept, Given
    <3>2. Gathered(paths, PathsOf(Given(i)))' = Gathered(paths, PathsOf(Given(i)))
      BY <2>1, <3>1 DEF Gathered, PathsOf
    <3>. QED
      BY <2>1, <2>2, <3>1, <3>2 DEF IInv, FilterInv
  <2>9. ArgumentsArrive'
    <3> DEFINE own == Without(Groovys, CLASSPATH_OPTIONS, CLASSPATH_OPTIONS)
    <3>1. pc = "script" => IsPrefix(own, args) /\ (Harmless({"Arg"}) => args = own)
      BY DEF IInv, ArgumentsArrive
    <3>2. own' = own
      BY <2>2
    <3>. HIDE DEF own
    <3>3. (pc = "script" => IsPrefix(own, args) /\ (Harmless({"Arg"}) => args = own))'
      BY <2>1, <2>3, <3>1, <3>2
    <3>. QED
      BY <3>3 DEF ArgumentsArrive, own
  <2>10. ClasspathArrives'
    <3> DEFINE all == PathsOf(ValuesOf(Groovys, CLASSPATH_OPTIONS, CLASSPATH_OPTIONS))
    <3>1. pc = "script" /\ Harmless({"Arg"}) /\ (Range(all) # {} \/ Harmless({"", "Cp"})) =>
              Arrived(paths, all, cp)
      BY DEF IInv, ClasspathArrives, Arrived, PathsOf
    <3>2. all' = all
      BY <2>2 DEF PathsOf
    <3>. HIDE DEF all
    <3>3. Arrived(paths, all, cp)' = Arrived(paths, all, cp)
      BY <2>1, <3>2 DEF Arrived
    <3>4. (pc = "script" /\ Harmless({"Arg"}) /\ (Range(all) # {} \/ Harmless({"", "Cp"})) =>
              Arrived(paths, all, cp))'
      BY <2>1, <2>3, <3>1, <3>2, <3>3
    <3>. QED
      BY <3>4 DEF ClasspathArrives, Arrived, PathsOf, all
  <2>. QED
    BY <2>4, <2>5, <2>6, <2>7, <2>8, <2>9, <2>10 DEF IInv
<1>8. CASE Over
  BY <1>7, <1>8 DEF Over
<1>. QED
  BY <1>1, <1>2, <1>3, <1>4, <1>5, <1>6, <1>7, <1>8 DEF Next

\* So it always holds.
LEMMA Invariant == Spec => []IInv
BY Initial, Step, PTL DEF Spec

\* The client's masks stay within its room for them, what the handler has are words
\* and variables (option.c, set_mask_option; ClientProtocols.decodeArgs).
THEOREM Typing == Spec => []TypeOK
<1>1. IInv => TypeOK
  BY DEF IInv
<1>. QED
  BY <1>1, Invariant, PTL

\* The script gets the words that belong neither to the client nor to the classpath,
\* first and in order: option.c's scan, the header and its parsing, and the handler's
\* filter leave out the options and their values, and nothing else. Nothing follows
\* them unless the value of a variable that is sent has a line that is an argument's.
THEOREM ArgumentsReachTheScript == Spec => []ArgumentsArrive
<1>1. IInv => ArgumentsArrive
  BY DEF IInv
<1>. QED
  BY <1>1, Invariant, PTL

\* What make_env_headers sends and setupEnvVars puts are the variables that the
\* command line selects, the later of two entries of one name, with their values,
\* if these have a single line.
THEOREM EnvironmentReachesTheScript == Spec => []EnvironmentArrives
<1>1. IInv => EnvironmentArrives
  <2>. SUFFICES ASSUME IInv, pc = "script", \A n \in Asked : environ[n].rest = <<>>
                PROVE  env = LastAsked(environ, Asked)
    <3>1. Asked = {n \in 1 .. Len(environ) : Selected(environ[n].name)}
      <4>1. IInv /\ pc = "script" => DOMAIN environ = 1 .. Len(environ)
        BY DataAre, LenProperties DEF IInv, RequestInv, Sent
      <4>. QED
        BY <4>1 DEF Asked, AskedIn
    <3>. QED
      BY <3>1 DEF EnvironmentArrives, LastAsked, Variable
  <2>1. environ \in Environs
    BY DEF IInv, RequestInv, Sent
  <2>2. \A k \in 1 .. Len(Entries) : \E n \in Asked : Entries[k] = environ[n]
    BY <2>1, EntriesAre DEF Entries, Asked
  <2>3. SingleLines(Entries, Len(Entries))
    BY <2>2 DEF SingleLines
  <2>. QED
    BY <2>3 DEF IInv, EnvInv
<1>. QED
  BY <1>1, Invariant, PTL

\* The script's classpath is that of its options in the order of their first mention
\* or else the client's CLASSPATH, and has the current directory, last unless an option
\* names it; provided that no variable that is sent has a line in its value that is an
\* argument's or, if CLASSPATH counts, a classpath's or the header's end.
THEOREM ClasspathReachesTheScript == Spec => []ClasspathArrives
<1>1. IInv => ClasspathArrives
  BY DEF IInv
<1>. QED
  BY <1>1, Invariant, PTL
=============================================================================
