--------------------------- MODULE SendHeaderProof ---------------------------
(***************************************************************************)
(* Base64 for arguments of any length, and SendHeader for strings of any   *)
(* length, any number of them and any size of the buffer.                  *)
(*                                                                         *)
(* Base64: the allocation suffices, and what is encoded decodes to the     *)
(* argument.  The bits read are the bits encoded and those available; the  *)
(* available ones are the lower bits of the working buffer, whatever       *)
(* overflowed above them; so each digit is six bits of the argument.       *)
(*                                                                         *)
(* SendHeader: what is sent is what was put together.  Between two calls   *)
(* the buffer is the content, a NUL and the rest; so buf_strnlen finds the *)
(* end of the content, garbage or not, and a call in progress leaves what  *)
(* is before its offset alone. For the arguments, the invariant of Base64  *)
(* is kept by every step, and an argument's digits have no NUL among them. *)
(***************************************************************************)
EXTENDS SendHeader, SequenceTheorems, TLAPS

-----------------------------------------------------------------------------
(* Base64: the invariant                                                   *)

\* The argument, and zeros behind it.
Byte(k) == IF k \in 1 .. Len(original) THEN original[k] ELSE 0

\* The six bits that digit j stands for: they lie in two bytes.
SixBitsOf(first, second, r) == ((256 * first + second) \div 2 ^ (10 - r)) % 64
SixBits(j) == LET k == (6 * (j - 1)) \div 8 + 1 IN
              SixBitsOf(Byte(k), Byte(k + 1), (6 * (j - 1)) % 8)

\* The bits that are available.
Pending ==
    /\ wb_available_length = 2 => work_buff % 4 = Byte(read) % 4
    /\ wb_available_length = 4 => work_buff % 16 = Byte(read) % 16
    /\ wb_available_length = 6 => work_buff % 64 = Byte(read) % 64
    /\ wb_available_length = 8 => work_buff % 256 = Byte(read)
    /\ wb_available_length = 10 =>
         work_buff % 1024 = 256 * (Byte(read - 1) % 4) + Byte(read)
    /\ wb_available_length = 12 =>
         work_buff % 4096 = 256 * (Byte(read - 1) % 16) + Byte(read)

Reading ==
    /\ 6 * Len(encoded) + wb_available_length = 8 * read
    /\ pc = "read" => wb_available_length \in {0, 2, 4}
    /\ Pending

RoundedUp(n) == ((n + 3) \div 4) * 4

Ending ==
    /\ DigitCount <= Len(encoded)
    /\ \A i \in 1 .. Len(encoded) : i > DigitCount => encoded[i] \notin Digits
    /\ pc = "pad" => 6 * RoundedUp(Len(encoded)) <= 8 * Len(original) + 22
    /\ pc = "done" => /\ FitsAllocation
                      /\ Len(encoded) % 4 = 1 /\ encoded[Len(encoded)] = Nul

DigitsAreBits == \A j \in 1 .. Len(encoded) : j <= DigitCount => encoded[j] = SixBits(j)

IInv == /\ TypeOK
        /\ pc \in {"read", "digits"} => Reading
        /\ pc \in {"pad", "done"} => Ending
        /\ DigitsAreBits

-----------------------------------------------------------------------------
(* Arithmetic                                                              *)

\* Taking the remainder of a multiple first changes nothing.
LEMMA RemainderOfMultiple ==
    ASSUME NEW x \in Int, NEW w \in Int, w > 0, NEW m \in Int, w = 4096 * m
    PROVE  x % w \in 0 .. w - 1 /\ (x % w) % 4096 = x % 4096
<1> DEFINE q == x \div w
<1>1. x % w \in 0 .. w - 1
  OBVIOUS
<1>2. q \in Int /\ x % w = x - w * q
  OBVIOUS
<1> HIDE DEF q
<1>3. PICK t \in Int : x % w = x - 4096 * t
  BY <1>2
<1>4. (x % w) % 4096 = x % 4096
  BY <1>3
<1>. QED
  BY <1>1, <1>4

\* What is left of a number modulo Word has the same lower twelve bits.
LEMMA LowerBits ==
    ASSUME NEW x \in Int
    PROVE  x % Word \in 0 .. Word - 1 /\ (x % Word) % 4096 = x % 4096
<1>1. Word \in Int /\ Word > 0 /\ Word % 4096 = 0
  BY ConstantsAssumption
<1>2. Word \div 4096 \in Int /\ Word = 4096 * (Word \div 4096)
  BY <1>1
<1>. QED
  BY <1>1, <1>2, RemainderOfMultiple

\* The powers that occur.
LEMMA Powers ==
    2 ^ 0 = 1 /\ 2 ^ 2 = 4 /\ 2 ^ 4 = 16 /\ 2 ^ 6 = 64 /\ 2 ^ 8 = 256 /\ 2 ^ 10 = 1024
OBVIOUS

\* A digit in terms of its two bytes, in each of its four positions.
LEMMA Positions ==
    ASSUME NEW a \in 0 .. 255, NEW b \in 0 .. 255
    PROVE  /\ SixBitsOf(a, b, 0) = a \div 4
           /\ SixBitsOf(a, b, 2) = a % 64
           /\ SixBitsOf(a, b, 4) = 4 * (a % 16) + b \div 64
           /\ SixBitsOf(a, b, 6) = 16 * (a % 4) + b \div 16
<1>1. SixBitsOf(a, b, 0) = a \div 4
  BY Powers DEF SixBitsOf
<1>2. SixBitsOf(a, b, 2) = a % 64
  BY Powers DEF SixBitsOf
<1>3. SixBitsOf(a, b, 4) = 4 * (a % 16) + b \div 64
  BY Powers DEF SixBitsOf
<1>4. SixBitsOf(a, b, 6) = 16 * (a % 4) + b \div 16
  BY Powers DEF SixBitsOf
<1>. QED
  BY <1>1, <1>2, <1>3, <1>4

\* The digit that is left over at the end, filled up with zeros.
LEMMA LastDigit ==
    ASSUME NEW x \in Int, NEW w \in Nat, NEW a \in 0 .. 255,
           \/ x = w * 16 /\ w % 4 = a % 4
           \/ x = w * 4 /\ w % 16 = a % 16
    PROVE  /\ x % Word \in 0 .. Word - 1
           /\ (x % Word) % 64 \in Digits
           /\ x = w * 16 /\ w % 4 = a % 4 => (x % Word) % 64 = SixBitsOf(a, 0, 6)
           /\ x = w * 4 /\ w % 16 = a % 16 => (x % Word) % 64 = SixBitsOf(a, 0, 4)
<1>1. x % Word \in 0 .. Word - 1 /\ (x % Word) % 4096 = x % 4096
  BY LowerBits
<1>2. PICK y \in Int : y = x % Word
  BY <1>1, ConstantsAssumption
<1>3. y % 4096 = x % 4096
  BY <1>1, <1>2
<1>4. y % 64 = x % 64 /\ y % 64 \in 0 .. 63
  BY <1>3
<1>5. SixBitsOf(a, 0, 6) = 16 * (a % 4) /\ SixBitsOf(a, 0, 4) = 4 * (a % 16)
  BY Powers DEF SixBitsOf
<1>6. ASSUME x = w * 16, w % 4 = a % 4 PROVE x % 64 = 16 * (a % 4)
  BY <1>6
<1>7. ASSUME x = w * 4, w % 16 = a % 16 PROVE x % 64 = 4 * (a % 16)
  BY <1>7
<1>. QED
  BY <1>1, <1>2, <1>4, <1>5, <1>6, <1>7 DEF Digits

\* The lower bits of the working buffer after another byte has entered it.
ByteEntered(after, before, byte) ==
    /\ after % 256 = byte
    /\ after % 1024 = 256 * (before % 4) + byte
    /\ after % 4096 = 256 * (before % 16) + byte

\* That is what AppendByte's shift makes of it, although bits are lost above.
LEMMA ByteEnters ==
    ASSUME NEW w \in Nat, NEW b \in 0 .. 255
    PROVE  /\ (256 * w + b) % Word \in 0 .. Word - 1
           /\ ByteEntered((256 * w + b) % Word, w, b)
<1>0. PICK x \in Int : x = 256 * w + b
  OBVIOUS
<1>1. PICK y \in Int : y = x % Word /\ y \in 0 .. Word - 1 /\ y % 4096 = x % 4096
  <2>1. x % Word \in 0 .. Word - 1 /\ (x % Word) % 4096 = x % 4096
    BY LowerBits
  <2>2. x % Word \in Int
    BY <2>1, ConstantsAssumption
  <2>. QED
    BY <2>1, <2>2
<1>2. y % 256 = x % 256 /\ y % 1024 = x % 1024
  BY <1>1
<1>3. y % 256 = b
  BY <1>0, <1>2
<1>4. y % 1024 = 256 * (w % 4) + b
  BY <1>0, <1>2
<1>5. y % 4096 = 256 * (w % 16) + b
  BY <1>0, <1>1
<1>6. (256 * w + b) % Word = y
  BY <1>0, <1>1
<1>7. ByteEntered(y, w, b)
  BY <1>3, <1>4, <1>5 DEF ByteEntered
<1>. QED
  BY <1>1, <1>6, <1>7

\* A byte of the argument, or the zero behind it, has eight bits.
LEMMA ByteRange == ASSUME TypeOK PROVE \A k : Byte(k) \in 0 .. 255
<1>. SUFFICES ASSUME NEW k PROVE Byte(k) \in 0 .. 255
  OBVIOUS
<1>1. CASE k \in 1 .. Len(original)
  <2>1. original[k] \in Bytes
    BY <1>1, ElementOfSeq DEF TypeOK
  <2>2. \A x \in Bytes : x \in 1 .. 255
    BY ConstantsAssumption
  <2>. QED
    BY <1>1, <2>1, <2>2 DEF Byte
<1>2. CASE k \notin 1 .. Len(original)
  BY <1>2 DEF Byte
<1>. QED
  BY <1>1, <1>2

\* Digit j begins at bit r of byte k.
LEMMA SixBitsAt ==
    ASSUME NEW j \in Int, NEW k \in Int, NEW r \in {0, 2, 4, 6}, 6 * (j - 1) = 8 * (k - 1) + r
    PROVE  SixBits(j) = SixBitsOf(Byte(k), Byte(k + 1), r)
<1>1. (6 * (j - 1)) \div 8 + 1 = k /\ (6 * (j - 1)) % 8 = r
  OBVIOUS
<1>. QED
  BY <1>1 DEF SixBits

\* The numbers are numbers.
LEMMA Lengths == ASSUME TypeOK
                 PROVE  /\ Len(original) \in Nat /\ Len(encoded) \in Nat
                        /\ read \in Nat /\ work_buff \in Nat
BY ConstantsAssumption DEF TypeOK

-----------------------------------------------------------------------------
(* The invariant                                                           *)

\* Before the first byte nothing is encoded and nothing available.
LEMMA Initial == Init => IInv
<1>. SUFFICES ASSUME Init PROVE IInv
  OBVIOUS
<1>1. PICK n \in 0 .. MaxLength : original \in [1 .. n -> Bytes]
  BY DEF Init
<1>2. original \in Seq(Bytes)
  BY <1>1, IsASeq, ConstantsAssumption
<1>3. Len(original) \in Nat
  BY <1>2
<1>4. encoded = <<>> /\ Len(encoded) = 0
  BY DEF Init
<1>5. TypeOK
  BY <1>2, <1>3, <1>4, ConstantsAssumption DEF Init, TypeOK
<1>6. Reading
  BY <1>4 DEF Init, Reading, Pending
<1>. QED
  BY <1>4, <1>5, <1>6 DEF Init, IInv, DigitsAreBits

\* What is appended leaves the digits before it alone.
LEMMA Appended ==
    ASSUME TypeOK, NEW d \in Digits \cup {Padding, Nul}, encoded' = Append(encoded, d)
    PROVE  /\ encoded' \in Seq(Digits \cup {Padding, Nul})
           /\ Len(encoded') = Len(encoded) + 1
           /\ \A i \in 1 .. Len(encoded) : encoded'[i] = encoded[i]
           /\ encoded'[Len(encoded) + 1] = d
BY AppendProperties DEF TypeOK

\* A byte that enters leaves the available bits before it as they were.
LEMMA AppendByteStep == IInv /\ AppendByte => IInv'
<1>. SUFFICES ASSUME IInv, AppendByte PROVE IInv'
  OBVIOUS
<1>a. /\ pc = "read" /\ pc' = "digits" /\ read < Len(original)
      /\ read' = read + 1 /\ wb_available_length' = wb_available_length + 8
      /\ original' = original /\ encoded' = encoded
      /\ work_buff' = (256 * work_buff + original[read + 1]) % Word
  BY DEF AppendByte
<1>b. TypeOK /\ Reading /\ wb_available_length \in {0, 2, 4}
  BY <1>a DEF IInv, Reading
<1>c. /\ Len(original) \in Nat /\ Len(encoded) \in Nat
      /\ read \in Nat /\ work_buff \in Nat
  BY <1>b, Lengths
<1>d. PICK b \in 0 .. 255 : b = Byte(read + 1) /\ b = original[read + 1]
  <2>1. read + 1 \in 1 .. Len(original)
    BY <1>a, <1>c
  <2>2. Byte(read + 1) = original[read + 1]
    BY <2>1 DEF Byte
  <2>. QED
    BY <1>b, <2>2, ByteRange
<1>e. work_buff' \in 0 .. Word - 1 /\ ByteEntered(work_buff', work_buff, b)
  <2>1. work_buff' = (256 * work_buff + b) % Word
    BY <1>a, <1>d
  <2>2. work_buff \in Nat
    BY <1>c
  <2>. QED
    BY <2>1, <2>2, ByteEnters, Zenon
<1>f. Byte(read)' = b /\ Byte(read - 1)' = Byte(read)
  BY <1>a, <1>c, <1>d DEF Byte
<1>1. TypeOK'
  BY <1>a, <1>b, <1>c, <1>e DEF TypeOK
<1>2. Pending'
  <2>1. CASE wb_available_length = 0
    BY <1>a, <1>f, <1>e, <2>1 DEF Pending, ByteEntered
  <2>2. CASE wb_available_length = 2
    <3>1. work_buff % 4 = Byte(read) % 4
      BY <1>b, <2>2 DEF Reading, Pending
    <3>. QED
      BY <1>a, <1>e, <1>f, <2>2, <3>1 DEF Pending, ByteEntered
  <2>3. CASE wb_available_length = 4
    <3>1. work_buff % 16 = Byte(read) % 16
      BY <1>b, <2>3 DEF Reading, Pending
    <3>. QED
      BY <1>a, <1>e, <1>f, <2>3, <3>1 DEF Pending, ByteEntered
  <2>. QED
    BY <1>b, <2>1, <2>2, <2>3
<1>3. Reading'
  BY <1>a, <1>b, <1>c, <1>2 DEF Reading
<1>4. DigitsAreBits'
  BY <1>a DEF IInv, DigitsAreBits, SixBits, Byte, DigitCount
<1>. QED
  BY <1>a, <1>1, <1>3, <1>4 DEF IInv

\* The available bits are those of the digit they are for.
LEMMA DigitIsBits ==
    ASSUME TypeOK, Reading, wb_available_length >= 6
    PROVE  /\ (work_buff \div 2 ^ (wb_available_length - 6)) % 64 = SixBits(Len(encoded) + 1)
           /\ Len(encoded) + 1 <= DigitCount
<1> DEFINE z == Byte(read - 1)  a == Byte(read)  b == Byte(read + 1)  j == Len(encoded) + 1
<1>a. /\ Len(original) \in Nat /\ Len(encoded) \in Nat
      /\ read \in Nat /\ work_buff \in Nat /\ read <= Len(original)
  BY Lengths DEF TypeOK
<1>b. z \in 0 .. 255 /\ a \in 0 .. 255 /\ b \in 0 .. 255
  BY ByteRange
<1>c. 6 * Len(encoded) + wb_available_length = 8 * read /\ Pending
  BY DEF Reading
<1>d. wb_available_length \in {6, 8, 10, 12}
  BY DEF TypeOK
<1>e. j <= DigitCount
  BY <1>a, <1>c, <1>d DEF DigitCount
<1>f. /\ read - 1 + 1 = read /\ read - 1 \in Int /\ read \in Int /\ j \in Int
  BY <1>a
<1>1. CASE wb_available_length = 6
  <2>1. SixBits(j) = SixBitsOf(a, b, 2)
    BY <1>a, <1>c, <1>1, SixBitsAt
  <2>2. SixBits(j) = a % 64 /\ work_buff % 64 = a % 64
    <3>1. SixBits(j) = a % 64
      BY <1>b, <2>1, Positions
    <3>2. work_buff % 64 = a % 64
      BY <1>c, <1>1 DEF Pending
    <3>. QED
      BY <3>1, <3>2
  <2>3. (work_buff \div 2 ^ 0) % 64 = work_buff % 64
    BY <1>a, Powers
  <2>. QED
    BY <1>1, <1>e, <2>2, <2>3
<1>2. CASE wb_available_length = 8
  <2>1. SixBits(j) = SixBitsOf(a, b, 0)
    BY <1>a, <1>c, <1>2, SixBitsAt
  <2>2. SixBits(j) = a \div 4 /\ work_buff % 256 = a
    <3>1. SixBits(j) = a \div 4
      BY <1>b, <2>1, Positions
    <3>2. work_buff % 256 = a
      BY <1>c, <1>2 DEF Pending
    <3>. QED
      BY <3>1, <3>2
  <2>3. (work_buff \div 2 ^ 2) % 64 = (work_buff % 256) \div 4
    BY <1>a, Powers
  <2>. QED
    BY <1>2, <1>e, <2>2, <2>3
<1>3. CASE wb_available_length = 10
  <2>1. SixBits(j) = SixBitsOf(z, Byte(read - 1 + 1), 6)
    BY <1>a, <1>c, <1>f, <1>3, SixBitsAt
  <2>2. SixBits(j) = 16 * (z % 4) + a \div 16 /\ work_buff % 1024 = 256 * (z % 4) + a
    <3>1. SixBits(j) = 16 * (z % 4) + a \div 16
      BY <1>b, <1>f, <2>1, Positions
    <3>2. work_buff % 1024 = 256 * (z % 4) + a
      BY <1>c, <1>3 DEF Pending
    <3>. QED
      BY <3>1, <3>2
  <2>3. (work_buff \div 2 ^ 4) % 64 = (work_buff % 1024) \div 16
    BY <1>a, Powers
  <2>4. (256 * (z % 4) + a) \div 16 = 16 * (z % 4) + a \div 16
    BY <1>b
  <2>. QED
    BY <1>3, <1>e, <2>2, <2>3, <2>4
<1>4. CASE wb_available_length = 12
  <2>1. SixBits(j) = SixBitsOf(z, Byte(read - 1 + 1), 4)
    BY <1>a, <1>c, <1>f, <1>4, SixBitsAt
  <2>2. SixBits(j) = 4 * (z % 16) + a \div 64 /\ work_buff % 4096 = 256 * (z % 16) + a
    <3>1. SixBits(j) = 4 * (z % 16) + a \div 64
      BY <1>b, <1>f, <2>1, Positions
    <3>2. work_buff % 4096 = 256 * (z % 16) + a
      BY <1>c, <1>4 DEF Pending
    <3>. QED
      BY <3>1, <3>2
  <2>3. (work_buff \div 2 ^ 6) % 64 = (work_buff % 4096) \div 64
    BY <1>a, Powers
  <2>4. (256 * (z % 16) + a) \div 64 = 4 * (z % 16) + a \div 64
    BY <1>b
  <2>. QED
    BY <1>4, <1>e, <2>2, <2>3, <2>4
<1>. QED
  BY <1>d, <1>1, <1>2, <1>3, <1>4

\* A digit is taken from the upper end of the available bits.
LEMMA EmitDigitStep == IInv /\ EmitDigit => IInv'
<1>. SUFFICES ASSUME IInv, EmitDigit PROVE IInv'
  OBVIOUS
<1> DEFINE d == (work_buff \div 2 ^ (wb_available_length - 6)) % 64
<1>a. /\ pc = "digits" /\ wb_available_length >= 6
      /\ encoded' = Append(encoded, d)
      /\ wb_available_length' = wb_available_length - 6
      /\ original' = original /\ read' = read /\ work_buff' = work_buff /\ pc' = pc
  BY DEF EmitDigit
<1>b. TypeOK /\ Reading /\ DigitsAreBits
  BY <1>a DEF IInv
<1>c. /\ Len(original) \in Nat /\ Len(encoded) \in Nat
      /\ read \in Nat /\ work_buff \in Nat
  BY <1>b, Lengths
<1>d. wb_available_length \in {6, 8, 10, 12}
  BY <1>a, <1>b DEF TypeOK
<1>e. d = SixBits(Len(encoded) + 1) /\ Len(encoded) + 1 <= DigitCount
  BY <1>a, <1>b, DigitIsBits
<1>f. d \in Digits
  <2>1. CASE wb_available_length = 6
    BY <1>c, <2>1, Powers DEF Digits
  <2>2. CASE wb_available_length = 8
    BY <1>c, <2>2, Powers DEF Digits
  <2>3. CASE wb_available_length = 10
    BY <1>c, <2>3, Powers DEF Digits
  <2>4. CASE wb_available_length = 12
    BY <1>c, <2>4, Powers DEF Digits
  <2>. QED
    BY <1>d, <2>1, <2>2, <2>3, <2>4
<1> HIDE DEF d
<1>g. /\ encoded' \in Seq(Digits \cup {Padding, Nul})
      /\ Len(encoded') = Len(encoded) + 1
      /\ \A i \in 1 .. Len(encoded) : encoded'[i] = encoded[i]
      /\ encoded'[Len(encoded) + 1] = d
  BY <1>a, <1>b, <1>f, Appended
<1>1. TypeOK'
  BY <1>a, <1>b, <1>d, <1>g DEF TypeOK
<1>2. Pending'
  <2>0. Byte(read)' = Byte(read) /\ Byte(read - 1)' = Byte(read - 1)
    BY <1>a DEF Byte
  <2>b. PICK a \in 0 .. 255, z \in 0 .. 255, w \in Nat :
          a = Byte(read) /\ z = Byte(read - 1) /\ w = work_buff
    BY <1>b, <1>c, ByteRange
  <2>p. Pending
    BY <1>b DEF Reading
  <2>1. CASE wb_available_length = 6
    BY <1>a, <2>1 DEF Pending
  <2>2. CASE wb_available_length = 8
    <3>1. w % 256 = a
      BY <2>b, <2>p, <2>2 DEF Pending
    <3>2. w % 4 = a % 4
      BY <3>1
    <3>. QED
      BY <1>a, <2>0, <2>b, <2>2, <3>2 DEF Pending
  <2>3. CASE wb_available_length = 10
    <3>1. w % 1024 = 256 * (z % 4) + a
      BY <2>b, <2>p, <2>3 DEF Pending
    <3>2. w % 16 = a % 16
      BY <3>1
    <3>. QED
      BY <1>a, <2>0, <2>b, <2>3, <3>2 DEF Pending
  <2>4. CASE wb_available_length = 12
    <3>1. w % 4096 = 256 * (z % 16) + a
      BY <2>b, <2>p, <2>4 DEF Pending
    <3>2. w % 64 = a % 64
      BY <3>1
    <3>. QED
      BY <1>a, <2>0, <2>b, <2>4, <3>2 DEF Pending
  <2>. QED
    BY <1>d, <2>1, <2>2, <2>3, <2>4
<1>3. Reading'
  BY <1>a, <1>b, <1>c, <1>d, <1>g, <1>2 DEF Reading
<1>4. DigitsAreBits'
  <2>1. DigitCount' = DigitCount /\ \A j : SixBits(j)' = SixBits(j)
    BY <1>a DEF DigitCount, SixBits, Byte
  <2>2. ASSUME NEW j \in 1 .. Len(encoded'), j <= DigitCount PROVE encoded'[j] = SixBits(j)
    BY <1>b, <1>c, <1>e, <1>g, <2>2 DEF DigitsAreBits
  <2>. QED
    BY <2>1, <2>2 DEF DigitsAreBits
<1>. QED
  BY <1>a, <1>1, <1>3, <1>4 DEF IInv

\* Fewer than six bits are kept for the next byte.
LEMMA NextByteStep == IInv /\ NextByte => IInv'
<1>. SUFFICES ASSUME IInv, NextByte PROVE IInv'
  OBVIOUS
<1>1. TypeOK'
  BY DEF IInv, NextByte, TypeOK
<1>2. Reading'
  BY DEF IInv, NextByte, Reading, Pending, Byte, TypeOK
<1>3. DigitsAreBits'
  BY DEF IInv, NextByte, DigitsAreBits, SixBits, Byte, DigitCount
<1>. QED
  BY <1>1, <1>2, <1>3 DEF IInv, NextByte

\* The end of the argument: its last digit is filled up with zeros.
LEMMA EmitRestStep == IInv /\ EmitRest => IInv'
<1>. SUFFICES ASSUME IInv, EmitRest PROVE IInv'
  OBVIOUS
<1>a. /\ pc = "read" /\ pc' = "pad" /\ read = Len(original)
      /\ original' = original /\ read' = read
      /\ wb_available_length' = wb_available_length
  BY DEF EmitRest
<1>b. TypeOK /\ Reading /\ DigitsAreBits /\ wb_available_length \in {0, 2, 4}
  BY <1>a DEF IInv, Reading
<1>c. /\ Len(original) \in Nat /\ Len(encoded) \in Nat
      /\ read \in Nat /\ work_buff \in Nat
  BY <1>b, Lengths
<1>d. 6 * Len(encoded) + wb_available_length = 8 * Len(original) /\ Pending
  BY <1>a, <1>b DEF Reading
<1>e. DigitCount' = DigitCount /\ \A j : SixBits(j)' = SixBits(j)
  BY <1>a DEF DigitCount, SixBits, Byte
<1>1. CASE wb_available_length = 0
  <2>1. work_buff' = work_buff /\ encoded' = encoded
    BY <1>1 DEF EmitRest
  <2>2. DigitCount = Len(encoded)
    BY <1>c, <1>d, <1>1 DEF DigitCount
  <2>3. TypeOK'
    BY <1>a, <1>b, <2>1 DEF TypeOK
  <2>4. Ending'
    <3>1. 6 * RoundedUp(Len(encoded)) <= 8 * Len(original) + 22
      BY <1>c, <1>d, <1>1 DEF RoundedUp
    <3>. QED
      BY <1>a, <1>c, <1>e, <2>1, <2>2, <3>1 DEF Ending
  <2>5. DigitsAreBits'
    BY <1>b, <1>e, <2>1 DEF DigitsAreBits
  <2>. QED
    BY <1>a, <2>3, <2>4, <2>5 DEF IInv
<1>2. CASE wb_available_length \in {2, 4}
  <2> DEFINE d == work_buff' % 64
  <2>1. /\ work_buff' = (work_buff * 2 ^ (6 - wb_available_length)) % Word
        /\ encoded' = Append(encoded, d)
    BY <1>2 DEF EmitRest
  <2>2. DigitCount = Len(encoded) + 1
    BY <1>c, <1>d, <1>2 DEF DigitCount
  <2>3. PICK a \in 0 .. 255 : a = Byte(read) /\ Byte(read + 1) = 0
    <3>1. Byte(read + 1) = 0
      BY <1>a, <1>c DEF Byte
    <3>. QED
      BY <1>b, <3>1, ByteRange
  <2>4. work_buff' \in 0 .. Word - 1 /\ d \in Digits /\ d = SixBits(Len(encoded) + 1)
    <3>1. CASE wb_available_length = 2
      <4>1. PICK w \in Nat : w = work_buff /\ w % 4 = a % 4
        BY <1>c, <1>d, <2>3, <3>1 DEF Pending
      <4>2. PICK x \in Int : x = w * 16
        OBVIOUS
      <4>3. work_buff' = x % Word
        BY <2>1, <3>1, <4>1, <4>2, Powers
      <4>4. /\ x % Word \in 0 .. Word - 1 /\ (x % Word) % 64 \in Digits
            /\ (x % Word) % 64 = SixBitsOf(a, 0, 6)
        BY <4>1, <4>2, LastDigit, Zenon
      <4>5. SixBits(Len(encoded) + 1) = SixBitsOf(a, 0, 6)
        BY <1>a, <1>c, <1>d, <2>3, <3>1, SixBitsAt
      <4>. QED
        BY <4>3, <4>4, <4>5
    <3>2. CASE wb_available_length = 4
      <4>1. PICK w \in Nat : w = work_buff /\ w % 16 = a % 16
        BY <1>c, <1>d, <2>3, <3>2 DEF Pending
      <4>2. PICK x \in Int : x = w * 4
        OBVIOUS
      <4>3. work_buff' = x % Word
        BY <2>1, <3>2, <4>1, <4>2, Powers
      <4>4. /\ x % Word \in 0 .. Word - 1 /\ (x % Word) % 64 \in Digits
            /\ (x % Word) % 64 = SixBitsOf(a, 0, 4)
        BY <4>1, <4>2, LastDigit, Zenon
      <4>5. SixBits(Len(encoded) + 1) = SixBitsOf(a, 0, 4)
        BY <1>a, <1>c, <1>d, <2>3, <3>2, SixBitsAt
      <4>. QED
        BY <4>3, <4>4, <4>5
    <3>. QED
      BY <1>2, <3>1, <3>2
  <2> HIDE DEF d
  <2>5. /\ encoded' \in Seq(Digits \cup {Padding, Nul})
        /\ Len(encoded') = Len(encoded) + 1
        /\ \A i \in 1 .. Len(encoded) : encoded'[i] = encoded[i]
        /\ encoded'[Len(encoded) + 1] = d
    BY <1>b, <2>1, <2>4, Appended
  <2>6. TypeOK'
    BY <1>a, <1>b, <2>4, <2>5 DEF TypeOK
  <2>7. Ending'
    <3>1. 6 * RoundedUp(Len(encoded) + 1) <= 8 * Len(original) + 22
      BY <1>c, <1>d, <1>2 DEF RoundedUp
    <3>. QED
      BY <1>a, <1>c, <1>e, <2>2, <2>5, <3>1 DEF Ending
  <2>8. DigitsAreBits'
    <3>1. ASSUME NEW j \in 1 .. Len(encoded'), j <= DigitCount PROVE encoded'[j] = SixBits(j)
      BY <1>b, <1>c, <2>2, <2>4, <2>5, <3>1 DEF DigitsAreBits
    <3>. QED
      BY <1>e, <3>1 DEF DigitsAreBits
  <2>. QED
    BY <1>a, <2>6, <2>7, <2>8 DEF IInv
<1>. QED
  BY <1>b, <1>1, <1>2

\* What comes after the digits is not one.
LEMMA NoDigitAppended ==
    ASSUME TypeOK, Ending, DigitsAreBits, original' = original,
           NEW d \in {Padding, Nul}, encoded' = Append(encoded, d)
    PROVE  /\ DigitCount' = DigitCount /\ DigitCount <= Len(encoded')
           /\ \A i \in 1 .. Len(encoded') : i > DigitCount => encoded'[i] \notin Digits
           /\ DigitsAreBits'
           /\ encoded' \in Seq(Digits \cup {Padding, Nul})
           /\ Len(encoded') = Len(encoded) + 1
           /\ encoded'[Len(encoded) + 1] = d
<1>1. /\ encoded' \in Seq(Digits \cup {Padding, Nul})
      /\ Len(encoded') = Len(encoded) + 1
      /\ \A i \in 1 .. Len(encoded) : encoded'[i] = encoded[i]
      /\ encoded'[Len(encoded) + 1] = d
  BY Appended
<1>2. DigitCount' = DigitCount /\ \A j : SixBits(j)' = SixBits(j)
  BY DEF DigitCount, SixBits, Byte
<1>3. Len(original) \in Nat /\ Len(encoded) \in Nat /\ DigitCount \in Int
  BY Lengths DEF DigitCount
<1>4. d \notin Digits
  BY DEF Padding, Nul, Digits
<1>5. DigitCount <= Len(encoded)
  BY DEF Ending
<1>6. ASSUME NEW i \in 1 .. Len(encoded'), i > DigitCount PROVE encoded'[i] \notin Digits
  <2>1. CASE i \in 1 .. Len(encoded)
    BY <1>1, <1>6, <2>1 DEF Ending
  <2>2. CASE i = Len(encoded) + 1
    BY <1>1, <1>4, <2>2
  <2>. QED
    BY <1>1, <1>3, <2>1, <2>2
<1>7. ASSUME NEW j \in 1 .. Len(encoded'), j <= DigitCount PROVE encoded'[j] = SixBits(j)
  BY <1>1, <1>3, <1>5, <1>7 DEF DigitsAreBits
<1>8. DigitsAreBits'
  BY <1>2, <1>7 DEF DigitsAreBits
<1>. QED
  BY <1>1, <1>2, <1>3, <1>5, <1>6, <1>8

\* Padding does not change the multiple of four that the output is rounded up to.
LEMMA PadStep == IInv /\ Pad => IInv'
<1>. SUFFICES ASSUME IInv, Pad PROVE IInv'
  OBVIOUS
<1>a. /\ pc = "pad" /\ Len(encoded) % 4 > 0
      /\ encoded' = Append(encoded, Padding)
      /\ pc' = pc /\ original' = original /\ read' = read /\ work_buff' = work_buff
      /\ wb_available_length' = wb_available_length
  BY DEF Pad
<1>b. TypeOK /\ Ending /\ DigitsAreBits
  BY <1>a DEF IInv
<1>c. Len(original) \in Nat /\ Len(encoded) \in Nat
  BY <1>b, Lengths
<1>1. /\ DigitCount' = DigitCount /\ DigitCount <= Len(encoded')
      /\ \A i \in 1 .. Len(encoded') : i > DigitCount => encoded'[i] \notin Digits
      /\ DigitsAreBits'
      /\ encoded' \in Seq(Digits \cup {Padding, Nul})
      /\ Len(encoded') = Len(encoded) + 1
  BY <1>a, <1>b, NoDigitAppended
<1>2. RoundedUp(Len(encoded) + 1) = RoundedUp(Len(encoded))
  BY <1>a, <1>c DEF RoundedUp
<1>3. TypeOK'
  BY <1>a, <1>b, <1>1 DEF TypeOK
<1>4. Ending'
  BY <1>a, <1>b, <1>1, <1>2 DEF Ending
<1>. QED
  BY <1>a, <1>1, <1>3, <1>4 DEF IInv

\* The NUL still fits: the output is rounded up to at most a third more and a NUL.
LEMMA TerminateStep == IInv /\ Terminate => IInv'
<1>. SUFFICES ASSUME IInv, Terminate PROVE IInv'
  OBVIOUS
<1>a. /\ pc = "pad" /\ Len(encoded) % 4 = 0
      /\ encoded' = Append(encoded, Nul)
      /\ pc' = "done" /\ original' = original /\ read' = read /\ work_buff' = work_buff
      /\ wb_available_length' = wb_available_length
  BY DEF Terminate
<1>b. TypeOK /\ Ending /\ DigitsAreBits
  BY <1>a DEF IInv
<1>c. Len(original) \in Nat /\ Len(encoded) \in Nat
  BY <1>b, Lengths
<1>1. /\ DigitCount' = DigitCount /\ DigitCount <= Len(encoded')
      /\ \A i \in 1 .. Len(encoded') : i > DigitCount => encoded'[i] \notin Digits
      /\ DigitsAreBits'
      /\ encoded' \in Seq(Digits \cup {Padding, Nul})
      /\ Len(encoded') = Len(encoded) + 1
      /\ encoded'[Len(encoded) + 1] = Nul
  BY <1>a, <1>b, NoDigitAppended
<1>2. Len(encoded) + 1 <= (3 * Len(original)) \div 2 + 5
  <2>1. RoundedUp(Len(encoded)) = Len(encoded)
    BY <1>a, <1>c DEF RoundedUp
  <2>2. 6 * Len(encoded) <= 8 * Len(original) + 22
    BY <1>a, <1>b, <2>1 DEF Ending
  <2>. QED
    BY <1>a, <1>c, <2>2
<1>3. TypeOK'
  BY <1>a, <1>b, <1>1 DEF TypeOK
<1>4. Ending'
  BY <1>a, <1>c, <1>1, <1>2 DEF Ending, FitsAllocation, Allocated
<1>. QED
  BY <1>a, <1>1, <1>3, <1>4 DEF IInv

\* Whatever the argument, base64_encode keeps the invariant to its end.
LEMMA Invariance == Spec => []IInv
<1>1. IInv /\ [Next]_vars => IInv'
  <2>. SUFFICES ASSUME IInv, [Next]_vars PROVE IInv'
    OBVIOUS
  <2>1. CASE UNCHANGED vars
    BY <2>1 DEF vars, IInv, TypeOK, Reading, Pending, Ending, DigitsAreBits, DigitCount,
                SixBits, Byte, FitsAllocation, Allocated
  <2>. QED
    BY <2>1, AppendByteStep, EmitDigitStep, NextByteStep, EmitRestStep, PadStep, TerminateStep
    DEF Next, Done
<1>. QED
  BY Initial, <1>1, PTL DEF Spec

-----------------------------------------------------------------------------
(* The theorems                                                            *)

\* The type invariant, whatever the argument and the width of the buffer.
THEOREM TypeCorrect == Spec => []TypeOK
<1>1. IInv => TypeOK
  BY DEF IInv
<1>. QED
  BY <1>1, Invariance, PTL

\* The bits of an argument bound its digits and their padding.
LEMMA InvariantFits == IInv => FitsAllocation
<1>. SUFFICES ASSUME IInv PROVE FitsAllocation
  OBVIOUS
<1>a. TypeOK /\ Len(original) \in Nat /\ Len(encoded) \in Nat
  BY Lengths DEF IInv
<1>1. CASE pc \in {"read", "digits"}
  <2>1. /\ 6 * Len(encoded) + wb_available_length = 8 * read
        /\ wb_available_length >= 0 /\ read \in Nat /\ read <= Len(original)
    BY <1>a, <1>1 DEF IInv, Reading, TypeOK
  <2>. QED
    BY <1>a, <2>1 DEF FitsAllocation, Allocated, TypeOK
<1>2. CASE pc = "pad"
  <2>1. 6 * RoundedUp(Len(encoded)) <= 8 * Len(original) + 22
    BY <1>2 DEF IInv, Ending
  <2>2. PICK e \in Nat, l \in Nat : e = Len(encoded) /\ l = Len(original)
    BY <1>a
  <2>3. e <= RoundedUp(e) /\ RoundedUp(e) % 4 = 0 /\ RoundedUp(e) \in Nat
    BY DEF RoundedUp
  <2>4. 6 * RoundedUp(e) <= 8 * l + 22
    BY <2>1, <2>2
  <2>5. e <= (3 * l) \div 2 + 5
    BY <2>3, <2>4
  <2>. QED
    BY <2>2, <2>5 DEF FitsAllocation, Allocated
<1>3. CASE pc = "done"
  BY <1>3 DEF IInv, Ending
<1>. QED
  BY <1>a, <1>1, <1>2, <1>3 DEF TypeOK

\* What send_header allocates suffices at every length of the argument.
THEOREM Fits == Spec => []FitsAllocation
BY InvariantFits, Invariance, PTL

\* Digits that are the bits of an argument decode to it.
LEMMA InvariantDecodes == IInv => RoundTrip
<1>. SUFFICES ASSUME IInv, pc = "done" PROVE RoundTrip
  BY DEF RoundTrip
<1>a. TypeOK /\ Ending /\ DigitsAreBits
  BY DEF IInv
<1>b. Len(original) \in Nat /\ Len(encoded) \in Nat /\ DigitCount \in Nat
  BY <1>a, Lengths DEF DigitCount
<1>c. DigitCount <= Len(encoded)
  BY <1>a DEF Ending
<1>1. ASSUME NEW k \in 1 .. Len(original) PROVE Decoded(encoded, k) = original[k]
  <2>a. PICK z \in 0 .. 255, a \in 0 .. 255, b \in 0 .. 255 :
          z = Byte(k - 1) /\ a = Byte(k) /\ b = Byte(k + 1)
    BY <1>a, ByteRange
  <2>b. a = original[k]
    BY <2>a DEF Byte
  <2>c. k \in Int /\ k >= 1 /\ k <= Len(original) /\ k - 1 + 1 = k /\ k - 1 \in Int
    BY <1>b
  <2>d. PICK q \in Nat, r \in {0, 2, 4} : /\ 8 * (k - 1) = 6 * q + r
                                          /\ q = (8 * (k - 1)) \div 6 /\ r = (8 * (k - 1)) % 6
    <3>1. PICK i \in Nat : i = k - 1
      BY <2>c
    <3>2. PICK n \in Nat : n = 8 * i
      OBVIOUS
    <3>3. n \div 6 \in Nat /\ n % 6 = n - 6 * (n \div 6)
      OBVIOUS
    <3>4. n % 6 \in {0, 2, 4}
      BY <3>2
    <3>5. n = 8 * (k - 1)
      BY <3>1, <3>2
    <3>. QED
      BY <3>3, <3>4, <3>5
  <2>e. q + 1 \in 1 .. DigitCount /\ q + 2 \in 1 .. DigitCount
    BY <1>b, <2>c, <2>d DEF DigitCount
  <2>f. encoded[q + 1] = SixBits(q + 1) /\ encoded[q + 2] = SixBits(q + 2)
    BY <1>a, <1>b, <1>c, <2>e DEF DigitsAreBits
  <2>h. PICK d \in Int, e \in Int : d = SixBits(q + 1) /\ e = SixBits(q + 2)
    <3>1. /\ encoded[q + 1] \in Digits \cup {Padding, Nul}
          /\ encoded[q + 2] \in Digits \cup {Padding, Nul}
      BY <1>a, <1>b, <1>c, <2>e, ElementOfSeq DEF TypeOK
    <3>3. \A x \in Digits \cup {Padding, Nul} : x \in Int
      BY DEF Digits, Padding, Nul
    <3>2. SixBits(q + 1) \in Int /\ SixBits(q + 2) \in Int
      BY <2>f, <3>1, <3>3, Zenon
    <3>. QED
      BY <3>2
  <2>g. Decoded(encoded, k) = ((64 * d + e) \div 2 ^ (4 - r)) % 256
    BY <2>d, <2>f, <2>h DEF Decoded
  <2>1. CASE r = 0
    <3>1. SixBits(q + 1) = SixBitsOf(a, b, 0)
      BY <2>a, <2>c, <2>d, <2>1, SixBitsAt
    <3>2. SixBits(q + 2) = SixBitsOf(a, b, 6)
      BY <2>a, <2>c, <2>d, <2>1, SixBitsAt
    <3>3. d = a \div 4 /\ e = 16 * (a % 4) + b \div 16
      BY <2>h, <3>1, <3>2, Positions
    <3>4. 2 ^ (4 - r) = 16
      BY <2>1, Powers
    <3>5. ((64 * d + e) \div 16) % 256 = a
      BY <3>3
    <3>. QED
      BY <2>b, <2>g, <3>4, <3>5
  <2>2. CASE r = 2
    <3>1. SixBits(q + 1) = SixBitsOf(z, a, 6)
      BY <2>a, <2>c, <2>d, <2>2, SixBitsAt
    <3>2. SixBits(q + 2) = SixBitsOf(a, b, 4)
      BY <2>a, <2>c, <2>d, <2>2, SixBitsAt
    <3>3. d = 16 * (z % 4) + a \div 16 /\ e = 4 * (a % 16) + b \div 64
      BY <2>h, <3>1, <3>2, Positions
    <3>4. 2 ^ (4 - r) = 4
      BY <2>2, Powers
    <3>5. ((64 * d + e) \div 4) % 256 = a
      BY <3>3
    <3>. QED
      BY <2>b, <2>g, <3>4, <3>5
  <2>3. CASE r = 4
    <3>1. SixBits(q + 1) = SixBitsOf(z, a, 4)
      BY <2>a, <2>c, <2>d, <2>3, SixBitsAt
    <3>2. SixBits(q + 2) = SixBitsOf(a, b, 2)
      BY <2>a, <2>c, <2>d, <2>3, SixBitsAt
    <3>3. d = 4 * (z % 16) + a \div 64 /\ e = a % 64
      BY <2>h, <3>1, <3>2, Positions
    <3>4. 2 ^ (4 - r) = 1
      BY <2>3, Powers
    <3>5. ((64 * d + e) \div 1) % 256 = a
      BY <3>3
    <3>. QED
      BY <2>b, <2>g, <3>4, <3>5
  <2>. QED
    BY <2>1, <2>2, <2>3
<1>2. ASSUME NEW i \in 1 .. Len(encoded), i <= DigitCount PROVE encoded[i] \in Digits
  <2>1. encoded[i] = SixBits(i)
    BY <1>a, <1>2 DEF DigitsAreBits
  <2>2. PICK k \in Int, r \in {0, 2, 4, 6} : 6 * (i - 1) = 8 * (k - 1) + r
    <3>1. PICK h \in Nat : h = i - 1
      BY <1>b
    <3>2. PICK n \in Nat : n = 6 * h
      OBVIOUS
    <3>3. PICK m \in Int : m = n \div 8 + 1
      OBVIOUS
    <3>4. n % 8 = n - 8 * (m - 1) /\ n % 8 \in {0, 2, 4, 6}
      BY <3>2, <3>3
    <3>5. n = 6 * (i - 1)
      BY <3>1, <3>2
    <3>. QED
      BY <3>4, <3>5
  <2>3. SixBits(i) = SixBitsOf(Byte(k), Byte(k + 1), r)
    BY <1>b, <2>2, SixBitsAt
  <2>4. PICK a \in 0 .. 255, b \in 0 .. 255 : SixBits(i) = SixBitsOf(a, b, r)
    BY <1>a, <2>3, ByteRange
  <2>5. SixBitsOf(a, b, r) \in 0 .. 63
    <3>1. CASE r = 0
      BY <3>1, Powers DEF SixBitsOf
    <3>2. CASE r = 2
      BY <3>2, Powers DEF SixBitsOf
    <3>3. CASE r = 4
      BY <3>3, Powers DEF SixBitsOf
    <3>4. CASE r = 6
      BY <3>4, Powers DEF SixBitsOf
    <3>. QED
      BY <3>1, <3>2, <3>3, <3>4
  <2>. QED
    BY <2>1, <2>4, <2>5 DEF Digits
<1>3. \A i \in 1 .. Len(encoded) : encoded[i] \in Digits <=> i <= DigitCount
  BY <1>a, <1>b, <1>2 DEF Ending
<1>4. Len(encoded) % 4 = 1 /\ encoded[Len(encoded)] = Nul
  BY <1>a DEF Ending
<1>. QED
  BY <1>1, <1>3, <1>4 DEF RoundTrip

\* What is sent decodes to the argument, at every length and width.
THEOREM Decodes == Spec => []RoundTrip
BY InvariantDecodes, Invariance, PTL

-----------------------------------------------------------------------------
(* SendHeader: the invariant                                               *)

\* The content, up to what the call in progress adds.
Holds(n) == n <= Len(buffer) /\ \A k \in 1 .. n : buffer[k] = content[k]

BufInv ==
    /\ BufTypeOK
    /\ op = "none" => \/ size = 0 /\ content = <<>>
                      \/ size = Len(content) + 1 /\ buffer[size] = NUL /\ Holds(size - 1)
    /\ op # "none" => /\ Len(content) = offs + Len(text) /\ Holds(offs)
                      /\ \A k \in 1 .. Len(text) : content[offs + k] = text[k]

\* The digits so far, without the NUL.
EncodedIsText ==
    /\ pc # "done" => encoded \in Seq(Digits \cup {Padding})
    /\ pc = "done" => SubSeq(encoded, 1, Len(encoded) - 1) \in Seq(Digits \cup {Padding})

HeaderInv == /\ IInv /\ EncodedIsText
             /\ BufInv
             /\ at = "over" => op = "none" /\ sent = content

Cells == Chars \cup {NUL, Garbage}

-----------------------------------------------------------------------------
(* The memory                                                              *)

\* A function on 1 .. n is a sequence of length n.
LEMMA Sequence ==
    ASSUME NEW S, NEW n \in Nat, NEW f \in [1 .. n -> S]
    PROVE  f \in Seq(S) /\ Len(f) = n
OBVIOUS

\* A write that fits changes nothing but what it writes.
LEMMA WriteThatFits ==
    ASSUME NEW b \in Seq(Cells), NEW s \in Seq(Cells), NEW o \in Nat, o + Len(s) <= Len(b)
    PROVE  /\ Written(b, o, s) \in Seq(Cells) /\ Len(Written(b, o, s)) = Len(b)
           /\ \A k \in 1 .. o : Written(b, o, s)[k] = b[k]
           /\ \A k \in 1 .. Len(s) : Written(b, o, s)[o + k] = s[k]
<1> DEFINE w == Written(b, o, s)
<1>1. Len(b) \in Nat /\ Len(s) \in Nat
  BY LenProperties
<1>2. w = [k \in 1 .. Len(b) |-> IF k \in o + 1 .. o + Len(s) THEN s[k - o] ELSE b[k]]
  BY <1>1 DEF Written
<1>3. \A k \in 1 .. Len(b) : (IF k \in o + 1 .. o + Len(s) THEN s[k - o] ELSE b[k]) \in Cells
  BY <1>1
<1>4. w \in [1 .. Len(b) -> Cells]
  BY <1>2, <1>3
<1>5. w \in Seq(Cells) /\ Len(w) = Len(b)
  BY <1>1, <1>4, Sequence
<1>6. \A k \in 1 .. o : w[k] = b[k]
  BY <1>1, <1>2
<1>7. \A k \in 1 .. Len(s) : w[o + k] = s[k]
  BY <1>1, <1>2
<1>. QED
  BY <1>5, <1>6, <1>7

\* A buffer that grows keeps what it holds.
LEMMA ReallocThatGrows ==
    ASSUME NEW b \in Seq(Cells), NEW n \in Nat, Len(b) <= n
    PROVE  /\ Realloc(b, n) \in Seq(Cells) /\ Len(Realloc(b, n)) = n
           /\ \A k \in 1 .. Len(b) : Realloc(b, n)[k] = b[k]
<1>1. Len(b) \in Nat
  BY LenProperties
<1>2. \A k \in 1 .. n : (IF k <= Len(b) THEN b[k] ELSE Garbage) \in Cells
  BY <1>1 DEF Cells
<1>3. Realloc(b, n) \in [1 .. n -> Cells]
  BY <1>2 DEF Realloc
<1>. QED
  BY <1>1, <1>3, Sequence DEF Realloc

-----------------------------------------------------------------------------
(* The calls                                                               *)

\* At the outset the buffer is garbage and holds nothing.
LEMMA BufInitial == BufInit => BufInv
<1>. SUFFICES ASSUME BufInit PROVE BufInv
  OBVIOUS
<1>1. buffer \in [1 .. BUFFER_SIZE -> Cells]
  BY DEF BufInit, Fresh, Cells
<1>2. buffer \in Seq(Cells) /\ Len(buffer) = BUFFER_SIZE
  BY <1>1, Sequence, BufAssumption
<1>. QED
  BY <1>2, BufAssumption DEF BufInit, BufInv, BufTypeOK, CString, Cells

\* buf_strnlen finds the end of the content.
LEMMA FoundEnd ==
    ASSUME BufInv, op = "none"
    PROVE  /\ buf_strnlen(size) \subseteq {Len(content)}
           /\ Len(content) \in Nat /\ Len(content) <= Len(buffer) /\ Holds(Len(content))
<1>1. /\ Len(buffer) \in Nat /\ Len(content) \in Nat
      /\ \A k \in 1 .. Len(content) : content[k] \in Chars
  BY LenProperties, ElementOfSeq DEF BufInv, BufTypeOK, CString
<1>2. CASE size = 0 /\ content = <<>>
  BY <1>1, <1>2 DEF buf_strnlen, Holds
<1>3. CASE size = Len(content) + 1 /\ buffer[size] = NUL /\ Holds(size - 1)
  <2>1. \A k \in 1 .. Len(content) : buffer[k] \notin {NUL, Garbage}
    BY <1>1, <1>3, BufAssumption DEF Holds
  <2>2. ASSUME NEW j \in buf_strnlen(size) PROVE j = Len(content)
    <3>1. j \in 0 .. size /\ (\A k \in 1 .. j : buffer[k] # NUL) /\ (j = size \/ buffer[j + 1] \in {NUL, Garbage})
      BY <2>2 DEF buf_strnlen
    <3>2. j # size
      BY <1>1, <1>3, <3>1
    <3>3. ~(j + 1 \in 1 .. Len(content))
      BY <2>1, <3>1, <3>2
    <3>. QED
      BY <1>1, <1>3, <3>1, <3>2, <3>3
  <2>3. size <= Len(buffer)
    BY <1>1 DEF BufInv, BufTypeOK
  <2>. QED
    BY <1>1, <1>3, <2>2, <2>3
<1>. QED
  BY <1>2, <1>3 DEF BufInv

\* A call begins with what is already there before its offset.
LEMMA CallBegins ==
    ASSUME BufInv, NEW which \in {"copy", "printf"}, NEW s \in CString, Call(which, s)
    PROVE  BufInv'
<1>1. /\ op = "none" /\ op' = which /\ text' = s /\ content' = content \o s
      /\ buffer' = buffer /\ buffer_size' = buffer_size /\ size' = size
      /\ offs' \in buf_strnlen(size)
  BY DEF Call
<1>2. /\ offs' = Len(content) /\ Len(content) \in Nat /\ Len(content) <= Len(buffer)
      /\ Holds(Len(content))
  BY <1>1, FoundEnd
<1>3. content \in Seq(Chars) /\ s \in Seq(Chars) /\ Len(s) \in Nat /\ Len(buffer) \in Nat
  BY LenProperties DEF BufInv, BufTypeOK, CString
<1>4. /\ content' \in Seq(Chars) /\ Len(content') = Len(content) + Len(s)
      /\ \A k \in 1 .. Len(content) + Len(s) :
           content'[k] = IF k <= Len(content) THEN content[k] ELSE s[k - Len(content)]
  BY <1>1, <1>3, ConcatProperties
<1>5. \A k \in 1 .. Len(text') : content'[offs' + k] = text'[k]
  BY <1>1, <1>2, <1>3, <1>4
<1>6. Holds(offs)'
  BY <1>1, <1>2, <1>4, <1>3 DEF Holds
<1>7. BufTypeOK'
  BY <1>1, <1>2, <1>3, <1>4 DEF BufTypeOK, BufInv, CString
<1>. QED
  BY <1>1, <1>2, <1>3, <1>4, <1>5, <1>6, <1>7 DEF BufInv

\* While a copy grows only buffer_size changes.
LEMMA CopyGrowsStep == ASSUME BufInv, CopyGrows PROVE BufInv'
BY DEF BufInv, BufTypeOK, CopyGrows, Holds

\* What a call has written, with its NUL, is the content.
LEMMA CallEnds ==
    ASSUME BufInv, op # "none", op' = "none",
           NEW b \in Seq(Cells), Len(b) = buffer_size, Len(buffer) <= Len(b),
           \A k \in 1 .. offs : b[k] = buffer[k],
           offs + Len(text) + 1 <= buffer_size,
           buffer' = Written(b, offs, Append(text, NUL)),
           size' = offs + Len(text) + 1,
           UNCHANGED <<buffer_size, offs, text, content>>
    PROVE  BufInv'
<1> DEFINE s == Append(text, NUL)
<1>1. /\ text \in Seq(Chars) /\ Len(text) \in Nat /\ offs \in Nat /\ buffer_size \in Nat
      /\ content \in Seq(Chars) /\ Len(content) = offs + Len(text) /\ Len(buffer) \in Nat
  BY LenProperties DEF BufInv, BufTypeOK, CString
<1>2. /\ s \in Seq(Cells) /\ Len(s) = Len(text) + 1 /\ s[Len(text) + 1] = NUL
      /\ \A k \in 1 .. Len(text) : s[k] = text[k]
  <2>1. text \in Seq(Cells) /\ NUL \in Cells
    BY <1>1, SeqMonotonic DEF Cells
  <2>. QED
    BY <2>1, AppendProperties
<1>a. buffer' = Written(b, offs, s)
  OBVIOUS
<1>. HIDE DEF s
<1>3. /\ buffer' \in Seq(Cells) /\ Len(buffer') = Len(b)
      /\ \A k \in 1 .. offs : buffer'[k] = b[k]
      /\ \A k \in 1 .. Len(s) : buffer'[offs + k] = s[k]
  BY <1>1, <1>2, <1>a, WriteThatFits
<1>4. buffer'[size'] = NUL
  BY <1>1, <1>2, <1>3
<1>5. Holds(size - 1)'
  <2>1. ASSUME NEW k \in 1 .. Len(content) PROVE buffer'[k] = content[k]
    <3>1. CASE k \in 1 .. offs
      BY <1>1, <1>3, <3>1 DEF BufInv, Holds
    <3>2. CASE k \notin 1 .. offs
      <4>1. PICK l \in 1 .. Len(text) : k = offs + l
        <5>1. k - offs \in 1 .. Len(text) /\ k = offs + (k - offs)
          BY <1>1, <3>2
        <5>. QED
          BY <5>1
      <4>2. buffer'[offs + l] = text[l]
        <5>1. l \in 1 .. Len(s) /\ s[l] = text[l]
          BY <1>1, <1>2
        <5>. QED
          BY <1>3, <5>1
      <4>. QED
        BY <4>1, <4>2 DEF BufInv
    <3>. QED
      BY <3>1, <3>2
  <2>. QED
    BY <1>1, <1>3, <2>1 DEF Holds
<1>6. BufTypeOK'
  BY <1>1, <1>3 DEF BufInv, BufTypeOK, Cells
<1>. QED
  BY <1>1, <1>4, <1>5, <1>6 DEF BufInv

LEMMA CopyStep == ASSUME BufInv, Copy PROVE BufInv'
<1>1. /\ op = "copy" /\ op' = "none" /\ offs + Len(text) + 1 <= buffer_size
      /\ buffer' = Written(Realloc(buffer, buffer_size), offs, Append(text, NUL))
      /\ size' = offs + Len(text) + 1
      /\ UNCHANGED <<buffer_size, offs, text, content>>
  BY LenProperties DEF BufInv, BufTypeOK, Copy, NeedsRoom, CString
<1>2. /\ buffer \in Seq(Cells) /\ buffer_size \in Nat /\ Len(buffer) <= buffer_size
      /\ offs <= Len(buffer) /\ offs \in Nat
  BY LenProperties DEF BufInv, BufTypeOK, Cells
<1>3. /\ Realloc(buffer, buffer_size) \in Seq(Cells)
      /\ Len(Realloc(buffer, buffer_size)) = buffer_size
      /\ \A k \in 1 .. Len(buffer) : Realloc(buffer, buffer_size)[k] = buffer[k]
  BY <1>2, ReallocThatGrows
<1>4. \A k \in 1 .. offs : Realloc(buffer, buffer_size)[k] = buffer[k]
  BY <1>2, <1>3, LenProperties
<1>. QED
  BY <1>1, <1>2, <1>3, <1>4, CallEnds

LEMMA PrintfFitsStep == ASSUME BufInv, PrintfFits PROVE BufInv'
<1>1. /\ op = "printf" /\ op' = "none"
      /\ buffer' = Written(buffer, offs, Append(text, NUL))
      /\ size' = offs + Len(text) + 1
      /\ UNCHANGED <<buffer_size, offs, text, content>>
  BY DEF PrintfFits
<1>2. offs + Len(text) + 1 <= buffer_size /\ Len(buffer) = buffer_size /\ Len(buffer) \in Nat
  BY LenProperties DEF BufInv, BufTypeOK, PrintfFits, rest, CString
<1>3. buffer \in Seq(Cells)
  BY DEF BufInv, BufTypeOK, Cells
<1>. QED
  BY <1>1, <1>2, <1>3, CallEnds

\* What is printed in vain lies behind the offset.
LEMMA PrintfGrowsStep == ASSUME BufInv, PrintfGrows PROVE BufInv'
<1> DEFINE part == Append(SubSeq(text, 1, rest - 1), NUL)
           truncated == IF rest = 0 THEN buffer ELSE Written(buffer, offs, part)
<1>1. /\ op = "printf" /\ Len(text) >= rest /\ buffer' = Realloc(truncated, 2 * buffer_size)
      /\ buffer_size' = 2 * buffer_size
      /\ UNCHANGED <<size, op, offs, text, content>>
  BY DEF PrintfGrows
<1>2. /\ buffer \in Seq(Cells) /\ Len(buffer) = buffer_size /\ buffer_size \in Nat \ {0}
      /\ offs \in 0 .. Len(buffer) /\ text \in Seq(Chars) /\ Len(text) \in Nat
      /\ rest = buffer_size - offs /\ rest \in Nat
  BY <1>1, LenProperties DEF BufInv, BufTypeOK, Cells, CString, rest
<1>3. /\ truncated \in Seq(Cells) /\ Len(truncated) = buffer_size
      /\ \A k \in 1 .. offs : truncated[k] = buffer[k]
  <2>1. CASE rest = 0
    BY <1>2, <2>1
  <2>2. CASE rest # 0
    <3>1. rest - 1 \in Int /\ \A k \in 1 .. rest - 1 : text[k] \in Cells
      BY <1>1, <1>2 DEF Cells
    <3>2. /\ SubSeq(text, 1, rest - 1) \in Seq(Cells)
          /\ Len(SubSeq(text, 1, rest - 1)) = IF 1 <= rest - 1 THEN rest - 1 - 1 + 1 ELSE 0
      BY <3>1, SubSeqProperties
    <3>3. part \in Seq(Cells) /\ Len(part) = rest
      BY <1>2, <2>2, <3>2, AppendProperties DEF Cells
    <3>4. truncated = Written(buffer, offs, part) /\ offs + Len(part) <= Len(buffer)
      BY <1>2, <2>2, <3>3
    <3>. HIDE DEF part
    <3>5. truncated = Written(buffer, offs, part)
      BY <3>4
    <3>. HIDE DEF truncated
    <3>. QED
      BY <1>2, <3>3, <3>4, <3>5, WriteThatFits
  <2>. QED
    BY <2>1, <2>2
<1>4. /\ buffer' \in Seq(Cells) /\ Len(buffer') = 2 * buffer_size
      /\ \A k \in 1 .. buffer_size : buffer'[k] = truncated[k]
  <2>. HIDE DEF truncated
  <2>1. 2 * buffer_size \in Nat /\ Len(truncated) <= 2 * buffer_size
    BY <1>2, <1>3
  <2>. QED
    BY <1>1, <1>2, <1>3, <2>1, ReallocThatGrows
<1>5. Holds(offs)'
  <2>. HIDE DEF truncated
  <2>. QED
    BY <1>1, <1>2, <1>3, <1>4 DEF Holds, BufInv
<1>6. BufTypeOK'
  BY <1>1, <1>2, <1>4 DEF BufInv, BufTypeOK, Cells
<1>. QED
  BY <1>1, <1>5, <1>6 DEF BufInv

\* Every step of the buffer keeps its invariant.
LEMMA BufSteps == ASSUME BufInv, BufStep PROVE BufInv'
BY CopyGrowsStep, CopyStep, PrintfGrowsStep, PrintfFitsStep DEF BufStep

-----------------------------------------------------------------------------
(* The header                                                              *)

\* A line is a string.
LEMMA LineIsText ==
    ASSUME NEW name \in {"Cwd", "AuthToken", "Arg", "Env", "Cp"}, NEW value \in CString
    PROVE  Key(name) \in CString /\ Line(name, value) \in CString /\ <<LF>> \in CString
<1>1. {66, 67, 68, 69, 70, 71} \subseteq Chars
  BY HeaderAssumption DEF LF
<1>2. Key(name) \in Seq(Chars) /\ <<LF>> \in Seq(Chars)
  BY <1>1 DEF Key, LF
<1>3. Line(name, value) \in Seq(Chars)
  BY <1>2, ConcatProperties DEF Line, CString
<1>. QED
  BY <1>2, <1>3 DEF CString

\* Whatever send_header hands to the buffer, the buffer's invariant is kept.
LEMMA Calls ==
    ASSUME BufInv, NEW s \in CString, buf_add(s) \/ buf_printf(s)
    PROVE  BufInv'
BY CallBegins DEF buf_add, buf_printf

\* base64_encode keeps its invariant, and writes its NUL last.
LEMMA EncodeStep ==
    ASSUME IInv, EncodedIsText, Encode
    PROVE  IInv' /\ EncodedIsText'
<1>1. TypeOK /\ Len(encoded) \in Nat /\ work_buff \in Nat
  BY Lengths DEF IInv
<1>2. IInv'
  BY AppendByteStep, EmitDigitStep, NextByteStep, EmitRestStep, PadStep, TerminateStep DEF Encode
<1>3. CASE AppendByte \/ NextByte
  <2>1. pc # "done" /\ pc' # "done" /\ encoded' = encoded
    BY <1>3 DEF AppendByte, NextByte
  <2>. QED
    BY <1>2, <2>1 DEF EncodedIsText
<1>4. CASE EmitDigit \/ EmitRest \/ Pad
  <2>1. pc # "done" /\ pc' # "done"
    BY <1>4 DEF EmitDigit, EmitRest, Pad
  <2>2. encoded \in Seq(Digits \cup {Padding})
    BY <2>1 DEF EncodedIsText
  <2>3. \E d \in Digits \cup {Padding} : encoded' \in {encoded, Append(encoded, d)}
    <3>1. CASE EmitDigit
      <4>1. wb_available_length \in {6, 8, 10, 12}
        BY <1>1, <3>1 DEF EmitDigit, TypeOK
      <4>2. (work_buff \div 2 ^ (wb_available_length - 6)) % 64 \in Digits
        <5>1. CASE wb_available_length = 6
          BY <1>1, <5>1, Powers DEF Digits
        <5>2. CASE wb_available_length = 8
          BY <1>1, <5>2, Powers DEF Digits
        <5>3. CASE wb_available_length = 10
          BY <1>1, <5>3, Powers DEF Digits
        <5>4. CASE wb_available_length = 12
          BY <1>1, <5>4, Powers DEF Digits
        <5>. QED
          BY <4>1, <5>1, <5>2, <5>3, <5>4
      <4>. QED
        BY <3>1, <4>2 DEF EmitDigit
    <3>2. CASE EmitRest
      <4>1. CASE wb_available_length > 0
        <5>1. work_buff' \in Nat
          BY <1>2, ConstantsAssumption DEF IInv, TypeOK
        <5>2. ASSUME NEW x \in Nat PROVE x % 64 \in Digits
          BY DEF Digits
        <5>. QED
          BY <3>2, <4>1, <5>1, <5>2 DEF EmitRest
      <4>. QED
        BY <3>2, <4>1 DEF EmitRest
    <3>3. CASE Pad
      BY <3>3 DEF Pad
    <3>. QED
      BY <1>4, <3>1, <3>2, <3>3
  <2>4. encoded' \in Seq(Digits \cup {Padding})
    BY <2>2, <2>3, AppendProperties
  <2>. QED
    BY <1>2, <2>1, <2>4 DEF EncodedIsText
<1>5. CASE Terminate
  <2>1. encoded \in Seq(Digits \cup {Padding}) /\ encoded' = Append(encoded, Nul) /\ pc' = "done"
    BY <1>5 DEF EncodedIsText, Terminate
  <2>2. encoded \in Seq(Digits \cup {Padding, Nul})
    BY <1>1 DEF TypeOK
  <2>3. /\ encoded' # <<>> /\ Len(encoded') = Len(encoded) + 1
        /\ \A k \in 1 .. Len(encoded) : encoded'[k] = encoded[k]
    BY <2>1, <2>2, AppendProperties
  <2>4. \A k \in 1 .. Len(encoded') - 1 : encoded'[k] \in Digits \cup {Padding}
    BY <1>1, <2>1, <2>3, ElementOfSeq
  <2>5. Len(encoded') - 1 \in Int
    BY <1>1, <2>3
  <2>6. SubSeq(encoded', 1, Len(encoded') - 1) \in Seq(Digits \cup {Padding})
    BY <2>4, <2>5, SubSeqProperties
  <2>. QED
    BY <1>2, <2>1, <2>3, <2>6 DEF EncodedIsText
<1>. QED
  BY <1>2, <1>3, <1>4, <1>5 DEF Encode

LEMMA HeaderInitial == HeaderInit => HeaderInv
<1>. SUFFICES ASSUME HeaderInit PROVE HeaderInv
  OBVIOUS
<1>1. IInv /\ BufInv
  BY Initial, BufInitial DEF HeaderInit
<1>2. EncodedIsText
  BY DEF HeaderInit, Init, EncodedIsText
<1>. QED
  BY <1>1, <1>2 DEF HeaderInit, HeaderInv

\* An argument begins as Base64 does.
LEMMA ArgumentBegins == Init' => IInv' /\ EncodedIsText'
<1>1. Init => IInv /\ EncodedIsText
  BY Initial DEF Init, EncodedIsText
<1>. QED
  BY <1>1, PTL

\* Base64's part of the invariant is about Base64's variables.
LEMMA Base64Unchanged ==
    ASSUME IInv, EncodedIsText, UNCHANGED vars
    PROVE  IInv' /\ EncodedIsText'
BY DEF vars, IInv, TypeOK, Reading, Pending, Ending, DigitsAreBits, DigitCount, SixBits, Byte,
       FitsAllocation, Allocated, EncodedIsText

LEMMA BufUnchanged == ASSUME BufInv, UNCHANGED bufVars PROVE BufInv'
BY DEF bufVars, BufInv, BufTypeOK, Holds

\* Every step of send_header keeps the invariant.
LEMMA HeaderInductive == HeaderInv /\ [HeaderNext]_allVars => HeaderInv'
<1>. SUFFICES ASSUME HeaderInv, [HeaderNext]_allVars PROVE HeaderInv'
  OBVIOUS
<1>. USE DEF HeaderInv
<1>1. CASE \/ CwdKey \/ CwdValue \/ CwdEnd \/ AuthToken \/ Variable \/ Classpath \/ EmptyLine
  <2>1. \E s \in CString : buf_add(s) \/ buf_printf(s)
    <3>1. \A v \in Values : v \in CString
      BY HeaderAssumption
    <3>2. Key("Cwd") \in CString /\ <<LF>> \in CString
      BY LineIsText, EmptySeq DEF CString
    <3>3. CASE CwdKey \/ CwdValue \/ CwdEnd \/ EmptyLine
      BY <3>1, <3>2, <3>3 DEF CwdKey, CwdValue, CwdEnd, EmptyLine
    <3>4. CASE AuthToken \/ Variable \/ Classpath
      BY <3>1, <3>4, LineIsText DEF AuthToken, Variable, Classpath
    <3>. QED
      BY <1>1, <3>3, <3>4
  <2>2. UNCHANGED vars /\ at' # "over"
    BY <1>1
    DEF CwdKey, CwdValue, CwdEnd, AuthToken, Variable, Classpath, EmptyLine, Goto
  <2>. QED
    BY <2>1, <2>2, Calls, Base64Unchanged
<1>2. CASE Argument
  <2>1. SubSeq(encoded, 1, Len(encoded) - 1) \in CString
    <3>1. SubSeq(encoded, 1, Len(encoded) - 1) \in Seq(Digits \cup {Padding})
      BY <1>2 DEF Argument, EncodedIsText
    <3>2. Digits \cup {Padding} \subseteq Chars
      BY HeaderAssumption
    <3>. QED
      BY <3>1, <3>2, SeqMonotonic DEF CString
  <2>2. \E s \in CString : buf_printf(s)
    BY <1>2, <2>1, LineIsText DEF Argument
  <2>. QED
    BY <1>2, <2>2, Calls, Base64Unchanged DEF Argument
<1>3. CASE NextArgument
  <2>1. Init'
    BY <1>3 DEF NextArgument, Init
  <2>. QED
    BY <1>3, <2>1, ArgumentBegins, BufUnchanged DEF NextArgument
<1>4. CASE Encode
  BY <1>4, EncodeStep, BufUnchanged DEF Encode, headerVars
<1>5. CASE NoMoreArguments \/ NoMoreVariables \/ NoClasspath
  BY <1>5, Base64Unchanged, BufUnchanged DEF NoMoreArguments, NoMoreVariables, NoClasspath, Goto
<1>6. CASE Write
  <2>1. BufInv' /\ IInv' /\ EncodedIsText'
    BY <1>6, Base64Unchanged, BufUnchanged DEF Write
  <2>2. SubSeq(buffer, 1, size - 1) = content
    <3>1. op = "none" /\ content \in Seq(Chars) /\ Len(content) \in Nat
      BY <1>6, LenProperties DEF Write, BufInv, BufTypeOK, CString
    <3>2. CASE size = 0 /\ content = <<>>
      BY <3>2, SubSeqEmpty
    <3>3. CASE size = Len(content) + 1 /\ Holds(size - 1)
      <4>1. Len(content) \in Int /\ \A k \in 1 .. Len(content) : buffer[k] = content[k] /\ buffer[k] \in Chars
        BY <3>1, <3>3, ElementOfSeq DEF Holds
      <4>2. /\ SubSeq(buffer, 1, Len(content)) \in Seq(Chars)
            /\ Len(SubSeq(buffer, 1, Len(content))) = IF 1 <= Len(content) THEN Len(content) - 1 + 1 ELSE 0
            /\ \A k \in 1 .. Len(content) : SubSeq(buffer, 1, Len(content))[k] = content[k]
        BY <3>1, <4>1, SubSeqProperties
      <4>3. Len(SubSeq(buffer, 1, Len(content))) = Len(content)
        BY <3>1, <4>2
      <4>4. SubSeq(buffer, 1, Len(content)) = content
        BY <3>1, <4>2, <4>3, SeqEqual
      <4>. QED
        BY <3>1, <3>3, <4>4
    <3>. QED
      BY <3>1, <3>2, <3>3 DEF BufInv
  <2>. QED
    BY <1>6, <2>1, <2>2 DEF Write, bufVars
<1>7. CASE Grow
  <2>1. BufInv' /\ IInv' /\ EncodedIsText'
    BY <1>7, Base64Unchanged, BufSteps DEF Grow
  <2>2. op # "none" /\ at' = at
    BY <1>7 DEF Grow, BufStep, CopyGrows, Copy, PrintfGrows, PrintfFits, headerVars
  <2>. QED
    BY <2>1, <2>2
<1>8. CASE UNCHANGED allVars
  BY <1>8, Base64Unchanged, BufUnchanged DEF allVars, headerVars, bufVars
<1>. QED
  BY <1>1, <1>2, <1>3, <1>4, <1>5, <1>6, <1>7, <1>8 DEF HeaderNext

LEMMA HeaderInvariance == HeaderSpec => []HeaderInv
BY HeaderInitial, HeaderInductive, PTL DEF HeaderSpec

-----------------------------------------------------------------------------
(* The theorems                                                            *)

\* The buffer stays in its memory, whatever is put into it.
THEOREM BufferTypeCorrect == HeaderSpec => []BufTypeOK
<1>1. HeaderInv => BufTypeOK
  BY DEF HeaderInv, BufInv
<1>. QED
  BY <1>1, HeaderInvariance, PTL

\* The header is sent as a whole, however often the buffer had to grow.
THEOREM SentIsWhole == HeaderSpec => []HeaderIsWhole
<1>1. HeaderInv => HeaderIsWhole
  BY DEF HeaderInv, HeaderIsWhole
<1>. QED
  BY <1>1, HeaderInvariance, PTL

\* Each argument of a request is encoded within its allocation, and decodes to
\* what was typed.
THEOREM ArgumentsDecode == HeaderSpec => [](TypeOK /\ FitsAllocation /\ RoundTrip)
<1>1. HeaderInv => TypeOK /\ FitsAllocation /\ RoundTrip
  BY InvariantFits, InvariantDecodes DEF HeaderInv, IInv
<1>. QED
  BY <1>1, HeaderInvariance, PTL
=============================================================================
