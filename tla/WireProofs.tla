----------------------------- MODULE WireProofs -----------------------------
(***************************************************************************)
(* Theorems about Frame and Wire, for every base of the bytes, every table *)
(* of packets and everything the game may send.                            *)
(***************************************************************************)
EXTENDS Wire, SequenceTheorems, WellFoundedInduction, TLAPS

(* Numbers.                                                                *)

LEMMA Sizes ==
    /\ Radix \in Nat /\ Radix > 3
    /\ Size16 \in Nat /\ Size16 > 3 /\ Size32 \in Nat /\ Size32 > 3
    /\ Size64 \in Nat /\ Size64 > 3
<1>1. \A n \in Nat : n > 3 => n * n \in Nat /\ n * n > 3
    OBVIOUS
<1>2. Radix \in Nat /\ Radix > 3
    BY RadixAssumption
<1>3. Size16 \in Nat /\ Size16 > 3
    BY <1>1, <1>2 DEF Size16
<1>4. Size32 \in Nat /\ Size32 > 3
    BY <1>1, <1>3 DEF Size32
<1>5. QED
    BY <1>1, <1>2, <1>3, <1>4 DEF Size64

\* The halves of a number below m * m.
LEMMA Halves ==
    ASSUME NEW m \in Nat, m > 0, NEW n \in 0 .. m * m - 1
    PROVE  /\ n % m \in 0 .. m - 1 /\ n \div m \in 0 .. m - 1
           /\ (n % m) + m * (n \div m) = n
<1>1. n % m \in 0 .. m - 1 /\ n \div m \in Nat /\ (n % m) + m * (n \div m) = n
    OBVIOUS
<1>2. n \div m < m
    <2> DEFINE q == n \div m
    <2> SUFFICES ASSUME q >= m PROVE FALSE
        BY <1>1
    <2>1. q \in Nat /\ n >= m * q /\ n < m * m
        BY <1>1
    <2> HIDE DEF q
    <2>2. m * q >= m * m
        BY <2>1
    <2>3. QED
        BY <2>1, <2>2
<1>3. QED
    BY <1>1, <1>2
-----------------------------------------------------------------------------
(* Parts of sequences.                                                     *)

\* b stands in s, from the place at on.
Holds(s, at, b) ==
    /\ at + Len(b) - 1 <= Len(s)
    /\ \A i \in 1 .. Len(b) : s[at + i - 1] = b[i]

LEMMA HoldsSubSeq ==
    ASSUME NEW S, NEW s \in Seq(S), NEW b \in Seq(S), NEW at \in Nat \ {0}, Holds(s, at, b)
    PROVE  SubSeq(s, at, at + Len(b) - 1) = b
<1> DEFINE e == at + Len(b) - 1
           c == SubSeq(s, at, e)
<1>1. Len(b) \in Nat /\ Len(s) \in Nat /\ e \in Int /\ e <= Len(s)
    BY LenProperties DEF Holds
<1>2. \A i \in at .. e : s[i] \in S
    <2>1. \A i \in at .. e : i \in 1 .. Len(s)
        BY <1>1
    <2>2. QED
        BY <2>1, ElementOfSeq
<1>3. /\ c \in Seq(S) /\ Len(c) = (IF at <= e THEN e - at + 1 ELSE 0)
      /\ \A i \in 1 .. e - at + 1 : c[i] = s[at + i - 1]
    BY <1>1, <1>2, SubSeqProperties
<1>4. Len(c) = Len(b) /\ \A i \in 1 .. Len(c) : c[i] = b[i]
    BY <1>1, <1>3 DEF Holds
<1> HIDE DEF c
<1>5. c = b
    BY <1>3, <1>4, SeqEqual
<1>6. QED
    BY <1>5 DEF c

\* What stands in a sequence stands in every longer one.
LEMMA HoldsConcat ==
    ASSUME NEW S, NEW a \in Seq(S), NEW b \in Seq(S)
    PROVE  /\ a \o b \in Seq(S) /\ Len(a \o b) = Len(a) + Len(b)
           /\ Len(a) \in Nat /\ Len(b) \in Nat
           /\ Holds(a \o b, Len(a) + 1, b)
           /\ \A at \in Nat \ {0} : \A x \in Seq(S) : Holds(a, at, x) => Holds(a \o b, at, x)
<1>1. Len(a) \in Nat /\ Len(b) \in Nat
    BY LenProperties
<1>2. /\ a \o b \in Seq(S) /\ Len(a \o b) = Len(a) + Len(b)
      /\ \A i \in 1 .. Len(a) + Len(b) : (a \o b)[i] = IF i <= Len(a) THEN a[i] ELSE b[i - Len(a)]
    BY ConcatProperties
<1>3. Holds(a \o b, Len(a) + 1, b)
    BY <1>1, <1>2 DEF Holds
<1>4. ASSUME NEW at \in Nat \ {0}, NEW x \in Seq(S), Holds(a, at, x)
      PROVE  Holds(a \o b, at, x)
    <2>1. Len(x) \in Nat
        BY LenProperties
    <2>2. \A i \in 1 .. Len(x) : at + i - 1 \in 1 .. Len(a)
        BY <1>1, <1>4, <2>1 DEF Holds
    <2>3. QED
        BY <1>1, <1>2, <1>4, <2>1, <2>2 DEF Holds
<1>5. QED
    BY <1>1, <1>2, <1>3, <1>4

LEMMA HoldsAll ==
    ASSUME NEW S, NEW a \in Seq(S) PROVE Holds(a, 1, a)
BY LenProperties DEF Holds

\* The two parts of a concatenation.
LEMMA Parts ==
    ASSUME NEW S, NEW a \in Seq(S), NEW b \in Seq(S)
    PROVE  /\ a \o b \in Seq(S) /\ Len(a \o b) = Len(a) + Len(b)
           /\ Len(a) \in Nat /\ Len(b) \in Nat
           /\ SubSeq(a \o b, 1, Len(a)) = a
           /\ SubSeq(a \o b, Len(a) + 1, Len(a) + Len(b)) = b
           /\ \A i \in 1 .. Len(a) : (a \o b)[i] = a[i]
<1>1. /\ a \o b \in Seq(S) /\ Len(a \o b) = Len(a) + Len(b)
      /\ Len(a) \in Nat /\ Len(b) \in Nat
      /\ Holds(a \o b, Len(a) + 1, b) /\ Holds(a \o b, 1, a)
    BY HoldsConcat, HoldsAll
<1>2. SubSeq(a \o b, 1, 1 + Len(a) - 1) = a
    BY <1>1, HoldsSubSeq
<1>3. SubSeq(a \o b, Len(a) + 1, Len(a) + 1 + Len(b) - 1) = b
    BY <1>1, HoldsSubSeq
<1>4. 1 + Len(a) - 1 = Len(a) /\ Len(a) + 1 + Len(b) - 1 = Len(a) + Len(b)
    BY <1>1
<1>5. \A i \in 1 .. Len(a) : (a \o b)[i] = a[i]
    BY <1>1 DEF Holds
<1>6. QED
    BY <1>1, <1>2, <1>3, <1>4, <1>5

LEMMA SecondPart ==
    ASSUME NEW S, NEW a \in Seq(S), NEW b \in Seq(S)
    PROVE  SubSeq(a \o b, Len(a) + 1, Len(a) + Len(b)) = b
BY Parts
-----------------------------------------------------------------------------
(* A number comes back from its bytes.                                     *)

LEMMA RoundTrip16 ==
    ASSUME NEW n \in 0 .. Size16 - 1
    PROVE  /\ PutUint16(n) \in Seq(Byte) /\ Len(PutUint16(n)) = 2
           /\ Uint16(PutUint16(n)) = n
<1>1. /\ n % Radix \in 0 .. Radix - 1 /\ n \div Radix \in 0 .. Radix - 1
      /\ (n % Radix) + Radix * (n \div Radix) = n
    BY Sizes, Halves DEF Size16
<1>2. (n \div Radix) % Radix = n \div Radix
    BY <1>1, Sizes
<1>3. PutUint16(n) = <<n % Radix, n \div Radix>>
    BY <1>2 DEF PutUint16
<1>4. n % Radix \in Byte /\ n \div Radix \in Byte
    BY <1>1 DEF Byte
<1>5. QED
    BY <1>1, <1>3, <1>4 DEF Uint16

LEMMA RoundTrip32 ==
    ASSUME NEW n \in 0 .. Size32 - 1
    PROVE  /\ PutUint32(n) \in Seq(Byte) /\ Len(PutUint32(n)) = 4
           /\ Uint32(PutUint32(n)) = n
<1> DEFINE lo == n % Size16
           hi == n \div Size16
           a  == PutUint16(lo)
           b  == PutUint16(hi)
<1>1. lo \in 0 .. Size16 - 1 /\ hi \in 0 .. Size16 - 1 /\ lo + Size16 * hi = n
    BY Sizes, Halves DEF Size32
<1> HIDE DEF lo, hi
<1>2. /\ a \in Seq(Byte) /\ Len(a) = 2 /\ Uint16(a) = lo
      /\ b \in Seq(Byte) /\ Len(b) = 2 /\ Uint16(b) = hi
    BY <1>1, RoundTrip16
<1> HIDE DEF a, b
<1>3. /\ a \o b \in Seq(Byte) /\ Len(a \o b) = 4 /\ SubSeq(a \o b, 3, 4) = b
      /\ (a \o b)[1] = a[1] /\ (a \o b)[2] = a[2]
    <2>1. /\ a \o b \in Seq(Byte) /\ Len(a \o b) = Len(a) + Len(b)
          /\ SubSeq(a \o b, Len(a) + 1, Len(a) + Len(b)) = b
          /\ \A i \in 1 .. Len(a) : (a \o b)[i] = a[i]
        <3>1. a \o b \in Seq(Byte) /\ Len(a \o b) = Len(a) + Len(b)
            BY <1>2, Parts
        <3>2. SubSeq(a \o b, Len(a) + 1, Len(a) + Len(b)) = b
            BY <1>2, SecondPart
        <3>3. \A i \in 1 .. Len(a) : (a \o b)[i] = a[i]
            BY <1>2, Parts
        <3>4. QED
            BY <3>1, <3>2, <3>3
    <2>2. Len(a) + 1 = 3 /\ Len(a) + Len(b) = 4 /\ 1 \in 1 .. Len(a) /\ 2 \in 1 .. Len(a)
        BY <1>2
    <2>3. QED
        BY <2>1, <2>2
<1>4. Uint32(a \o b) = n
    BY <1>1, <1>2, <1>3 DEF Uint32, Uint16
<1>5. QED
    BY <1>3, <1>4 DEF PutUint32, a, b, lo, hi

LEMMA RoundTrip64 ==
    ASSUME NEW n \in 0 .. Size64 - 1
    PROVE  /\ PutUint64(n) \in Seq(Byte) /\ Len(PutUint64(n)) = 8
           /\ Uint64(PutUint64(n)) = n
<1> DEFINE lo == n % Size32
           hi == n \div Size32
           a  == PutUint32(lo)
           b  == PutUint32(hi)
<1>1. lo \in 0 .. Size32 - 1 /\ hi \in 0 .. Size32 - 1 /\ lo + Size32 * hi = n
    BY Sizes, Halves DEF Size64
<1> HIDE DEF lo, hi
<1>2. /\ a \in Seq(Byte) /\ Len(a) = 4 /\ Uint32(a) = lo
      /\ b \in Seq(Byte) /\ Len(b) = 4 /\ Uint32(b) = hi
    BY <1>1, RoundTrip32
<1> HIDE DEF a, b
<1>3. /\ a \o b \in Seq(Byte) /\ Len(a \o b) = 8 /\ SubSeq(a \o b, 5, 8) = b
      /\ \A i \in 1 .. 4 : (a \o b)[i] = a[i]
    <2>1. /\ a \o b \in Seq(Byte) /\ Len(a \o b) = Len(a) + Len(b)
          /\ SubSeq(a \o b, Len(a) + 1, Len(a) + Len(b)) = b
          /\ \A i \in 1 .. Len(a) : (a \o b)[i] = a[i]
        <3>1. a \o b \in Seq(Byte) /\ Len(a \o b) = Len(a) + Len(b)
            BY <1>2, Parts
        <3>2. SubSeq(a \o b, Len(a) + 1, Len(a) + Len(b)) = b
            BY <1>2, SecondPart
        <3>3. \A i \in 1 .. Len(a) : (a \o b)[i] = a[i]
            BY <1>2, Parts
        <3>4. QED
            BY <3>1, <3>2, <3>3
    <2>2. Len(a) + 1 = 5 /\ Len(a) + Len(b) = 8
        BY <1>2
    <2>3. QED
        BY <1>2, <2>1, <2>2
<1>4. SubSeq(a \o b, 3, 4) = SubSeq(a, 3, 4)
    <2>1. 3 \in 1 .. Len(a) /\ 4 \in 1 .. Len(a)
        BY <1>2
    <2>2. QED
        BY <1>2, <2>1, SubSeqOfConcat1
<1>5. Uint32(a \o b) = Uint32(a)
    BY <1>3, <1>4 DEF Uint32, Uint16
<1>6. Uint64(a \o b) = n
    BY <1>1, <1>2, <1>3, <1>5 DEF Uint64
<1>7. QED
    BY <1>3, <1>6 DEF PutUint64, a, b, lo, hi
-----------------------------------------------------------------------------
(* A frame comes back from its bytes.                                      *)

\* The frames whose lengths fit into their fields.
FrameSet ==
    {f \in [type : DOMAIN FrameType, connID : 0 .. Size64 - 1, timestamp : 0 .. Size64 - 1,
            dir : Direction, clientAddr : Seq(Byte), serverAddr : Seq(Byte), data : Seq(Byte)] :
        /\ Len(f.clientAddr) < Radix /\ Len(f.serverAddr) < Radix
        /\ 24 + Len(f.clientAddr) + Len(f.serverAddr) + Len(f.data) < Size32}

\* Whatever stands in a stands in b.
Keeps(a, b) ==
    \A at \in Nat \ {0} : \A x \in Seq(Byte) : Holds(a, at, x) => Holds(b, at, x)

LEMMA Joined ==
    ASSUME NEW a \in Seq(Byte), NEW b \in Seq(Byte)
    PROVE  /\ a \o b \in Seq(Byte) /\ Len(a \o b) = Len(a) + Len(b)
           /\ Len(a) \in Nat /\ Len(b) \in Nat
           /\ Holds(a \o b, Len(a) + 1, b) /\ Keeps(a, a \o b)
BY HoldsConcat DEF Keeps

\* b takes the places at to to.
Spans(at, to, b) == at \in Nat \ {0} /\ to = at + Len(b) - 1

\* What a sequence holds is what reading as many bytes there gives.
LEMMA Read ==
    ASSUME NEW s \in Seq(Byte), NEW b \in Seq(Byte), NEW at, NEW to, Spans(at, to, b), Holds(s, at, b)
    PROVE  SubSeq(s, at, to) = b
BY HoldsSubSeq DEF Spans

LEMMA ReadOne ==
    ASSUME NEW s \in Seq(Byte), NEW b \in Byte, NEW at \in Nat \ {0}, Holds(s, at, <<b>>)
    PROVE  s[at] = b
<1>1. Len(<<b>>) = 1 /\ <<b>>[1] = b /\ 1 \in 1 .. 1
    OBVIOUS
<1>2. s[at + 1 - 1] = <<b>>[1]
    BY <1>1 DEF Holds
<1>3. QED
    BY <1>1, <1>2

\* Where each field stands in the body of a frame.
LEMMA Layout ==
    ASSUME NEW f \in FrameSet
    PROVE  LET lc == Len(f.clientAddr)
               ls == Len(f.serverAddr)
           IN  \E body \in Seq(Byte) :
                  /\ Encode(f) = PutUint16(MagicNumber) \o <<Version>> \o PutUint32(Len(body)) \o body
                  /\ Len(body) = 24 + lc + ls + Len(f.data)
                  /\ Holds(body, 1, <<FrameType[f.type]>>)
                  /\ Holds(body, 2, PutUint64(f.connID)) /\ Holds(body, 10, PutUint64(f.timestamp))
                  /\ Holds(body, 18, <<IF f.dir = "s2c" THEN 1 ELSE 0>>)
                  /\ Holds(body, 19, <<lc>>) /\ Holds(body, 20, f.clientAddr)
                  /\ Holds(body, 20 + lc, <<ls>>) /\ Holds(body, 21 + lc, f.serverAddr)
                  /\ Holds(body, 21 + lc + ls, PutUint32(Len(f.data)))
                  /\ Holds(body, 25 + lc + ls, f.data)
<1> DEFINE lc == Len(f.clientAddr)
           ls == Len(f.serverAddr)
           ld == Len(f.data)
           x1 == <<FrameType[f.type]>>
           x2 == PutUint64(f.connID)
           x3 == PutUint64(f.timestamp)
           x4 == <<IF f.dir = "s2c" THEN 1 ELSE 0>>
           x5 == <<lc % Radix>>
           x6 == f.clientAddr
           x7 == <<ls % Radix>>
           x8 == f.serverAddr
           x9 == PutUint32(ld)
           x10 == f.data
           p2 == x1 \o x2
           p3 == p2 \o x3
           p4 == p3 \o x4
           p5 == p4 \o x5
           p6 == p5 \o x6
           p7 == p6 \o x7
           p8 == p7 \o x8
           p9 == p8 \o x9
           body == p9 \o x10
<1>1. Encode(f) = PutUint16(MagicNumber) \o <<Version>> \o PutUint32(Len(body)) \o body
    BY DEF Encode
<1>2. /\ x6 \in Seq(Byte) /\ x8 \in Seq(Byte) /\ x10 \in Seq(Byte)
      /\ lc \in Nat /\ ls \in Nat /\ ld \in Nat
      /\ lc < Radix /\ ls < Radix /\ ld < Size32
      /\ lc % Radix = lc /\ ls % Radix = ls
    <2>1. /\ x6 \in Seq(Byte) /\ x8 \in Seq(Byte) /\ x10 \in Seq(Byte)
          /\ lc < Radix /\ ls < Radix /\ 24 + lc + ls + ld < Size32
        BY DEF FrameSet
    <2>2. lc \in Nat /\ ls \in Nat /\ ld \in Nat
        BY <2>1, LenProperties
    <2> HIDE DEF lc, ls, ld
    <2>3. lc % Radix = lc /\ ls % Radix = ls /\ ld < Size32
        BY <2>1, <2>2, Sizes
    <2>4. QED
        BY <2>1, <2>2, <2>3
<1>3. /\ x2 \in Seq(Byte) /\ Len(x2) = 8 /\ x3 \in Seq(Byte) /\ Len(x3) = 8
      /\ x9 \in Seq(Byte) /\ Len(x9) = 4
    <2>1. f.connID \in 0 .. Size64 - 1 /\ f.timestamp \in 0 .. Size64 - 1 /\ ld \in 0 .. Size32 - 1
        BY <1>2, Sizes DEF FrameSet
    <2>2. QED
        BY <2>1, RoundTrip32, RoundTrip64
<1>4. /\ x1 \in Seq(Byte) /\ Len(x1) = 1 /\ x4 \in Seq(Byte) /\ Len(x4) = 1
      /\ x5 \in Seq(Byte) /\ Len(x5) = 1 /\ x7 \in Seq(Byte) /\ Len(x7) = 1
      /\ x5 = <<lc>> /\ x7 = <<ls>>
    <2>1. FrameType[f.type] \in Byte
        BY Sizes DEF FrameSet, FrameType, Byte
    <2>2. (IF f.dir = "s2c" THEN 1 ELSE 0) \in Byte /\ lc \in Byte /\ ls \in Byte
        BY <1>2, Sizes DEF Byte
    <2>3. QED
        BY <1>2, <2>1, <2>2
<1> HIDE DEF x1, x2, x3, x4, x5, x6, x7, x8, x9, x10
<1>5. /\ p2 \in Seq(Byte) /\ Len(p2) = 9
      /\ Holds(p2, 2, x2) /\ Keeps(x1, p2)
    <2>1. /\ p2 \in Seq(Byte) /\ Len(p2) = Len(x1) + Len(x2)
          /\ Holds(p2, Len(x1) + 1, x2) /\ Keeps(x1, p2)
        BY <1>3, <1>4, Joined
    <2> HIDE DEF p2
    <2>2. Len(x1) + 1 = 2 /\ Len(x1) + Len(x2) = 9
        BY <1>3, <1>4
    <2>3. QED
        BY <2>1, <2>2
<1> HIDE DEF p2
<1>6. /\ p3 \in Seq(Byte) /\ Len(p3) = 17
      /\ Holds(p3, 10, x3) /\ Keeps(p2, p3)
    <2>1. /\ p3 \in Seq(Byte) /\ Len(p3) = Len(p2) + Len(x3)
          /\ Holds(p3, Len(p2) + 1, x3) /\ Keeps(p2, p3)
        BY <1>3, <1>5, Joined
    <2> HIDE DEF p3
    <2>2. Len(p2) + 1 = 10 /\ Len(p2) + Len(x3) = 17
        BY <1>3, <1>5
    <2>3. QED
        BY <2>1, <2>2
<1> HIDE DEF p3
<1>7. /\ p4 \in Seq(Byte) /\ Len(p4) = 18
      /\ Holds(p4, 18, x4) /\ Keeps(p3, p4)
    <2>1. /\ p4 \in Seq(Byte) /\ Len(p4) = Len(p3) + Len(x4)
          /\ Holds(p4, Len(p3) + 1, x4) /\ Keeps(p3, p4)
        BY <1>4, <1>6, Joined
    <2> HIDE DEF p4
    <2>2. Len(p3) + 1 = 18 /\ Len(p3) + Len(x4) = 18
        BY <1>4, <1>6
    <2>3. QED
        BY <2>1, <2>2
<1> HIDE DEF p4
<1>8. /\ p5 \in Seq(Byte) /\ Len(p5) = 19
      /\ Holds(p5, 19, x5) /\ Keeps(p4, p5)
    <2>1. /\ p5 \in Seq(Byte) /\ Len(p5) = Len(p4) + Len(x5)
          /\ Holds(p5, Len(p4) + 1, x5) /\ Keeps(p4, p5)
        BY <1>4, <1>7, Joined
    <2> HIDE DEF p5
    <2>2. Len(p4) + 1 = 19 /\ Len(p4) + Len(x5) = 19
        BY <1>4, <1>7
    <2>3. QED
        BY <2>1, <2>2
<1> HIDE DEF p5
<1>9. lc = Len(x6) /\ ls = Len(x8) /\ ld = Len(x10)
    BY DEF x6, x8, x10
<1> HIDE DEF lc, ls, ld
<1>10. /\ p6 \in Seq(Byte) /\ Len(p6) = 19 + lc
      /\ Holds(p6, 20, x6) /\ Keeps(p5, p6)
    <2>1. /\ p6 \in Seq(Byte) /\ Len(p6) = Len(p5) + Len(x6)
          /\ Holds(p6, Len(p5) + 1, x6) /\ Keeps(p5, p6)
        BY <1>2, <1>8, <1>9, Joined
    <2> HIDE DEF p6
    <2>2. Len(p5) + 1 = 20 /\ Len(p5) + Len(x6) = 19 + lc
        BY <1>2, <1>8, <1>9
    <2>3. QED
        BY <2>1, <2>2
<1> HIDE DEF p6
<1>11. /\ p7 \in Seq(Byte) /\ Len(p7) = 20 + lc
      /\ Holds(p7, 20 + lc, x7) /\ Keeps(p6, p7)
    <2>1. /\ p7 \in Seq(Byte) /\ Len(p7) = Len(p6) + Len(x7)
          /\ Holds(p7, Len(p6) + 1, x7) /\ Keeps(p6, p7)
        BY <1>2, <1>4, <1>10, Joined
    <2> HIDE DEF p7
    <2>2. Len(p6) + 1 = 20 + lc /\ Len(p6) + Len(x7) = 20 + lc
        BY <1>2, <1>4, <1>10
    <2>3. QED
        BY <2>1, <2>2
<1> HIDE DEF p7
<1>12. /\ p8 \in Seq(Byte) /\ Len(p8) = 20 + lc + ls
      /\ Holds(p8, 21 + lc, x8) /\ Keeps(p7, p8)
    <2>1. /\ p8 \in Seq(Byte) /\ Len(p8) = Len(p7) + Len(x8)
          /\ Holds(p8, Len(p7) + 1, x8) /\ Keeps(p7, p8)
        BY <1>2, <1>9, <1>11, Joined
    <2> HIDE DEF p8
    <2>2. Len(p7) + 1 = 21 + lc /\ Len(p7) + Len(x8) = 20 + lc + ls
        BY <1>2, <1>9, <1>11
    <2>3. QED
        BY <2>1, <2>2
<1> HIDE DEF p8
<1>13. /\ p9 \in Seq(Byte) /\ Len(p9) = 24 + lc + ls
      /\ Holds(p9, 21 + lc + ls, x9) /\ Keeps(p8, p9)
    <2>1. /\ p9 \in Seq(Byte) /\ Len(p9) = Len(p8) + Len(x9)
          /\ Holds(p9, Len(p8) + 1, x9) /\ Keeps(p8, p9)
        BY <1>2, <1>3, <1>12, Joined
    <2> HIDE DEF p9
    <2>2. Len(p8) + 1 = 21 + lc + ls /\ Len(p8) + Len(x9) = 24 + lc + ls
        BY <1>2, <1>3, <1>12
    <2>3. QED
        BY <2>1, <2>2
<1> HIDE DEF p9
<1>14. /\ body \in Seq(Byte) /\ Len(body) = 24 + lc + ls + ld
      /\ Holds(body, 25 + lc + ls, x10) /\ Keeps(p9, body)
    <2>1. /\ body \in Seq(Byte) /\ Len(body) = Len(p9) + Len(x10)
          /\ Holds(body, Len(p9) + 1, x10) /\ Keeps(p9, body)
        BY <1>2, <1>9, <1>13, Joined
    <2> HIDE DEF body
    <2>2. Len(p9) + 1 = 25 + lc + ls /\ Len(p9) + Len(x10) = 24 + lc + ls + ld
        BY <1>2, <1>9, <1>13
    <2>3. QED
        BY <2>1, <2>2
<1> HIDE DEF body
<1>15. /\ Keeps(p8, body) /\ Keeps(p7, body) /\ Keeps(p6, body) /\ Keeps(p5, body)
       /\ Keeps(p4, body) /\ Keeps(p3, body) /\ Keeps(p2, body) /\ Keeps(x1, body)
    BY <1>5, <1>6, <1>7, <1>8, <1>10, <1>11, <1>12, <1>13, <1>14 DEF Keeps
<1>16. Holds(x1, 1, x1)
    BY <1>4, HoldsAll
<1>17. /\ Holds(body, 1, x1) /\ Holds(body, 2, x2) /\ Holds(body, 10, x3)
       /\ Holds(body, 18, x4) /\ Holds(body, 19, x5) /\ Holds(body, 20, x6)
    <2>1. 1 \in Nat \ {0} /\ 2 \in Nat \ {0} /\ 10 \in Nat \ {0} /\ 18 \in Nat \ {0}
          /\ 19 \in Nat \ {0} /\ 20 \in Nat \ {0}
        OBVIOUS
    <2>2. QED
        BY <1>2, <1>3, <1>4, <1>5, <1>6, <1>7, <1>8, <1>10, <1>15, <1>16, <2>1 DEF Keeps, x6
<1>18. /\ Holds(body, 20 + lc, x7) /\ Holds(body, 21 + lc, x8) /\ Holds(body, 21 + lc + ls, x9)
    <2>1. 20 + lc \in Nat \ {0} /\ 21 + lc \in Nat \ {0} /\ 21 + lc + ls \in Nat \ {0}
        BY <1>2
    <2>2. QED
        BY <1>2, <1>3, <1>4, <1>11, <1>12, <1>13, <1>14, <1>15, <2>1 DEF Keeps, x8
<1>19. QED
    BY <1>1, <1>4, <1>14, <1>17, <1>18 DEF x1, x2, x3, x4, x6, x8, x9, x10, lc, ls, ld

(* Whatever follows it on the socket, a frame is decoded field by field as *)
(* it was encoded, and the next read starts where it ends: the codec of    *)
(* internal/ipc/frame.go loses nothing and gets nothing out of step.       *)
THEOREM FrameRoundTrip ==
    ASSUME NEW f \in FrameSet, NEW rest \in Seq(Byte)
    PROVE  /\ Encode(f) \in Seq(Byte)
           /\ Readable(Encode(f) \o rest) /\ Recognized(Encode(f) \o rest)
           /\ DecodeFrame(Encode(f) \o rest) = f
           /\ AfterFrame(Encode(f) \o rest) = rest
<1> DEFINE lc == Len(f.clientAddr)
           ls == Len(f.serverAddr)
           ld == Len(f.data)
<1>1. /\ lc \in Nat /\ ls \in Nat /\ ld \in Nat
      /\ f.clientAddr \in Seq(Byte) /\ f.serverAddr \in Seq(Byte) /\ f.data \in Seq(Byte)
      /\ f.connID \in 0 .. Size64 - 1 /\ f.timestamp \in 0 .. Size64 - 1
      /\ lc < Radix /\ ls < Radix /\ 24 + lc + ls + ld < Size32
      /\ f.type \in DOMAIN FrameType /\ f.dir \in Direction
    <2>1. /\ f.clientAddr \in Seq(Byte) /\ f.serverAddr \in Seq(Byte) /\ f.data \in Seq(Byte)
          /\ f.connID \in 0 .. Size64 - 1 /\ f.timestamp \in 0 .. Size64 - 1
          /\ lc < Radix /\ ls < Radix /\ 24 + lc + ls + ld < Size32
          /\ f.type \in DOMAIN FrameType /\ f.dir \in Direction
        BY DEF FrameSet
    <2>2. QED
        BY <2>1, LenProperties
<1>2. PICK body \in Seq(Byte) :
         /\ Encode(f) = PutUint16(MagicNumber) \o <<Version>> \o PutUint32(Len(body)) \o body
         /\ Len(body) = 24 + lc + ls + ld
         /\ Holds(body, 1, <<FrameType[f.type]>>)
         /\ Holds(body, 2, PutUint64(f.connID)) /\ Holds(body, 10, PutUint64(f.timestamp))
         /\ Holds(body, 18, <<IF f.dir = "s2c" THEN 1 ELSE 0>>)
         /\ Holds(body, 19, <<lc>>) /\ Holds(body, 20, f.clientAddr)
         /\ Holds(body, 20 + lc, <<ls>>) /\ Holds(body, 21 + lc, f.serverAddr)
         /\ Holds(body, 21 + lc + ls, PutUint32(ld))
         /\ Holds(body, 25 + lc + ls, f.data)
    BY Layout
<1> HIDE DEF lc, ls, ld
<1> DEFINE n  == Len(body)
           m  == PutUint16(MagicNumber)
           v  == <<Version>>
           w  == PutUint32(n)
           h2 == m \o v
           h3 == h2 \o w
           e  == h3 \o body
           s  == e \o rest
<1>3. n \in Nat /\ n < Size32 /\ MagicNumber \in 0 .. Size16 - 1
    <2>1. MagicNumber \in 0 .. Size16 - 1
        <3>1. Radix \in Nat /\ Radix > 3 /\ Radix * Radix >= 4 * Radix
            BY Sizes
        <3>2. QED
            BY <3>1 DEF MagicNumber, Size16
    <2>2. n \in Nat /\ n < Size32
        BY <1>1, <1>2
    <2>3. QED
        BY <2>1, <2>2
<1>4. /\ m \in Seq(Byte) /\ Len(m) = 2 /\ Uint16(m) = MagicNumber
      /\ v \in Seq(Byte) /\ Len(v) = 1
      /\ w \in Seq(Byte) /\ Len(w) = 4 /\ Uint32(w) = n
    <2>1. Version \in Byte
        BY Sizes DEF Version, Byte
    <2>2. n \in 0 .. Size32 - 1
        BY <1>3, Sizes
    <2>3. QED
        BY <1>3, <2>1, <2>2, RoundTrip16, RoundTrip32
<1> HIDE DEF n, m, v, w
<1>5. /\ h2 \in Seq(Byte) /\ Len(h2) = 3 /\ Holds(h2, 3, v) /\ Keeps(m, h2)
    <2>1. /\ h2 \in Seq(Byte) /\ Len(h2) = Len(m) + Len(v)
          /\ Holds(h2, Len(m) + 1, v) /\ Keeps(m, h2)
        BY <1>4, Joined
    <2> HIDE DEF h2
    <2>2. QED
        BY <1>4, <2>1
<1> HIDE DEF h2
<1>6. /\ h3 \in Seq(Byte) /\ Len(h3) = 7 /\ Holds(h3, 4, w) /\ Keeps(h2, h3)
    <2>1. /\ h3 \in Seq(Byte) /\ Len(h3) = Len(h2) + Len(w)
          /\ Holds(h3, Len(h2) + 1, w) /\ Keeps(h2, h3)
        BY <1>4, <1>5, Joined
    <2> HIDE DEF h3
    <2>2. QED
        BY <1>4, <1>5, <2>1
<1> HIDE DEF h3
<1>7. /\ e \in Seq(Byte) /\ Len(e) = 7 + n /\ Holds(e, 8, body) /\ Keeps(h3, e)
    <2>1. /\ e \in Seq(Byte) /\ Len(e) = Len(h3) + Len(body)
          /\ Holds(e, Len(h3) + 1, body) /\ Keeps(h3, e)
        BY <1>2, <1>6, Joined
    <2> HIDE DEF e
    <2>2. QED
        BY <1>3, <1>6, <2>1 DEF n
<1> HIDE DEF e
<1>8. /\ s \in Seq(Byte) /\ Len(s) = 7 + n + Len(rest) /\ Len(rest) \in Nat
      /\ Holds(s, 8 + n, rest) /\ Keeps(e, s)
    <2>1. /\ s \in Seq(Byte) /\ Len(s) = Len(e) + Len(rest) /\ Len(rest) \in Nat
          /\ Holds(s, Len(e) + 1, rest) /\ Keeps(e, s)
        BY <1>7, Joined
    <2> HIDE DEF s
    <2>2. QED
        BY <1>3, <1>7, <2>1
<1> HIDE DEF s
<1>9. Keeps(h3, s) /\ Keeps(h2, s) /\ Keeps(m, s)
    BY <1>5, <1>6, <1>7, <1>8 DEF Keeps
<1>10. Holds(s, 1, m) /\ Holds(s, 3, v) /\ Holds(s, 4, w) /\ Holds(s, 8, body)
    <2>1. 1 \in Nat \ {0} /\ 3 \in Nat \ {0} /\ 4 \in Nat \ {0} /\ 8 \in Nat \ {0} /\ Holds(m, 1, m)
        BY <1>4, HoldsAll
    <2>2. QED
        BY <1>2, <1>4, <1>5, <1>6, <1>7, <1>8, <1>9, <2>1 DEF Keeps
<1>11. /\ SubSeq(s, 1, 2) = m /\ s[3] = Version /\ SubSeq(s, 4, 7) = w
       /\ SubSeq(s, 8, 7 + n) = body /\ SubSeq(s, 8 + n, Len(s)) = rest
    <2>1. SubSeq(s, 1, 2) = m /\ SubSeq(s, 4, 7) = w
        <3>1. Spans(1, 2, m) /\ Spans(4, 7, w)
            BY <1>4 DEF Spans
        <3>2. m \in Seq(Byte) /\ w \in Seq(Byte) /\ s \in Seq(Byte)
            BY <1>4, <1>8
        <3>3. \A at, to : \A x \in {m, w} :
                 Spans(at, to, x) /\ Holds(s, at, x) => SubSeq(s, at, to) = x
            BY <3>2, Read
        <3>4. QED
            BY <1>10, <3>1, <3>3
    <2>2. SubSeq(s, 8, 7 + n) = body
        <3>1. Spans(8, 7 + n, body)
            BY <1>3 DEF n, Spans
        <3>2. \A at, to : Spans(at, to, body) /\ Holds(s, at, body) => SubSeq(s, at, to) = body
            BY <1>8, Read
        <3>3. QED
            BY <1>10, <3>1, <3>2
    <2>3. s[3] = Version
        <3>1. Version \in Byte
            BY Sizes DEF Version, Byte
        <3>2. QED
            BY <1>8, <1>10, <3>1, ReadOne DEF v
    <2>4. SubSeq(s, 8 + n, Len(s)) = rest
        <3>1. Spans(8 + n, Len(s), rest)
            BY <1>3, <1>8 DEF Spans
        <3>2. QED
            BY <1>8, <3>1, Read
    <2>5. QED
        BY <2>1, <2>2, <2>3, <2>4
<1>12. Readable(s) /\ Recognized(s) /\ AfterFrame(s) = rest
    <2>1. Readable(s)
        <3>1. Uint32(SubSeq(s, 4, 7)) = n
            BY <1>4, <1>11
        <3>2. Len(s) >= 7 /\ Len(s) >= 7 + n
            BY <1>3, <1>8
        <3>3. QED
            BY <3>1, <3>2 DEF Readable
    <2>2. Recognized(s)
        BY <1>4, <1>11 DEF Recognized
    <2>3. AfterFrame(s) = rest
        BY <1>4, <1>11 DEF AfterFrame
    <2>4. QED
        BY <2>1, <2>2, <2>3
<1>13. DecodeFrame(s) = f
    <2> DEFINE client == 20 + body[19]
               server == client + body[client]
    <2>1. body[1] = FrameType[f.type] /\ body[18] = (IF f.dir = "s2c" THEN 1 ELSE 0)
        <3>1. FrameType[f.type] \in Byte /\ (IF f.dir = "s2c" THEN 1 ELSE 0) \in Byte
            BY <1>1, Sizes DEF FrameType, Byte
        <3>2. 1 \in Nat \ {0} /\ 18 \in Nat \ {0}
            OBVIOUS
        <3>3. QED
            BY <1>2, <3>1, <3>2, ReadOne
    <2>2. body[19] = lc /\ body[20 + lc] = ls
        <3>1. lc \in Byte /\ ls \in Byte /\ 19 \in Nat \ {0} /\ 20 + lc \in Nat \ {0}
            BY <1>1, Sizes DEF Byte
        <3>2. QED
            BY <1>2, <3>1, ReadOne
    <2>3. client = 20 + lc /\ server = 20 + lc + ls
        BY <2>2
    <2>4. /\ PutUint64(f.connID) \in Seq(Byte) /\ Len(PutUint64(f.connID)) = 8
          /\ PutUint64(f.timestamp) \in Seq(Byte) /\ Len(PutUint64(f.timestamp)) = 8
          /\ PutUint32(ld) \in Seq(Byte) /\ Len(PutUint32(ld)) = 4
          /\ Uint64(PutUint64(f.connID)) = f.connID
          /\ Uint64(PutUint64(f.timestamp)) = f.timestamp
          /\ Uint32(PutUint32(ld)) = ld
        <3>1. ld \in 0 .. Size32 - 1
            BY <1>1, Sizes
        <3>2. QED
            BY <1>1, <3>1, RoundTrip32, RoundTrip64
    <2>5. /\ SubSeq(body, 2, 2 + 8 - 1) = PutUint64(f.connID)
          /\ SubSeq(body, 10, 10 + 8 - 1) = PutUint64(f.timestamp)
        <3>1. /\ Spans(2, 2 + 8 - 1, PutUint64(f.connID))
              /\ Spans(10, 10 + 8 - 1, PutUint64(f.timestamp))
            BY <2>4 DEF Spans
        <3>2. PutUint64(f.connID) \in Seq(Byte) /\ PutUint64(f.timestamp) \in Seq(Byte)
            BY <2>4
        <3>3. \A at, to : \A x \in {PutUint64(f.connID), PutUint64(f.timestamp)} :
                 Spans(at, to, x) /\ Holds(body, at, x) => SubSeq(body, at, to) = x
            BY <3>2, Read
        <3>4. QED
            BY <1>2, <3>1, <3>3
    <2> DEFINE a1 == 20
               z1 == 20 + lc - 1
               a2 == 21 + lc
               z2 == 21 + lc + ls - 1
               a3 == 21 + lc + ls
               z3 == 21 + lc + ls + 4 - 1
               a4 == 25 + lc + ls
               z4 == 25 + lc + ls + ld - 1
    <2>6. /\ Spans(a1, z1, f.clientAddr) /\ Spans(a2, z2, f.serverAddr)
          /\ Spans(a3, z3, PutUint32(ld)) /\ Spans(a4, z4, f.data)
        <3>1. Len(f.clientAddr) = lc /\ Len(f.serverAddr) = ls /\ Len(f.data) = ld
            BY DEF lc, ls, ld
        <3>2. Spans(a1, z1, f.clientAddr) /\ Spans(a2, z2, f.serverAddr)
            BY <1>1, <3>1 DEF Spans
        <3>3. Spans(a3, z3, PutUint32(ld)) /\ Spans(a4, z4, f.data)
            BY <1>1, <2>4, <3>1 DEF Spans
        <3>4. QED
            BY <3>2, <3>3
    <2>7. /\ Holds(body, a1, f.clientAddr) /\ Holds(body, a2, f.serverAddr)
          /\ Holds(body, a3, PutUint32(ld)) /\ Holds(body, a4, f.data)
        BY <1>2
    <2> HIDE DEF a1, z1, a2, z2, a3, z3, a4, z4
    <2>8. SubSeq(body, a1, z1) = f.clientAddr /\ SubSeq(body, a2, z2) = f.serverAddr
        <3>1. \A x \in Seq(Byte) : Spans(a1, z1, x) /\ Holds(body, a1, x) => SubSeq(body, a1, z1) = x
            BY Read
        <3>2. \A x \in Seq(Byte) : Spans(a2, z2, x) /\ Holds(body, a2, x) => SubSeq(body, a2, z2) = x
            BY Read
        <3>3. QED
            BY <1>1, <2>6, <2>7, <3>1, <3>2
    <2>9. SubSeq(body, a3, z3) = PutUint32(ld) /\ SubSeq(body, a4, z4) = f.data
        <3>1. PutUint32(ld) \in Seq(Byte)
            BY <2>4
        <3>2. \A x \in Seq(Byte) : Spans(a3, z3, x) /\ Holds(body, a3, x) => SubSeq(body, a3, z3) = x
            BY Read
        <3>3. \A x \in Seq(Byte) : Spans(a4, z4, x) /\ Holds(body, a4, x) => SubSeq(body, a4, z4) = x
            BY Read
        <3>4. QED
            BY <1>1, <2>6, <2>7, <3>1, <3>2, <3>3
    <2>10. (CHOOSE t \in DOMAIN FrameType : FrameType[t] = body[1]) = f.type
        <3>1. /\ DOMAIN FrameType = {"data", "connOpen", "connClose"}
              /\ FrameType["data"] = 0 /\ FrameType["connOpen"] = 1 /\ FrameType["connClose"] = 2
            BY DEF FrameType
        <3>2. \A t \in DOMAIN FrameType : FrameType[t] = body[1] => t = f.type
            BY <1>1, <2>1, <3>1
        <3>3. QED
            BY <1>1, <2>1, <3>2
    <2>11. (IF body[18] = 1 THEN "s2c" ELSE "c2s") = f.dir
        BY <1>1, <2>1 DEF Direction
    <2>12. DecodeFrame(s) =
              [type       |-> f.type,
               connID     |-> Uint64(SubSeq(body, 2, 2 + 8 - 1)),
               timestamp  |-> Uint64(SubSeq(body, 10, 10 + 8 - 1)),
               dir        |-> f.dir,
               clientAddr |-> SubSeq(body, 20, 20 + body[19] - 1),
               serverAddr |-> SubSeq(body, client + 1, client + 1 + body[client] - 1),
               data       |-> SubSeq(body, server + 5,
                                     server + 5 + Uint32(SubSeq(body, server + 1, server + 1 + 4 - 1)) - 1)]
        BY <1>4, <1>11, <2>10, <2>11 DEF DecodeFrame
    <2>13. /\ body[client] = ls
           /\ 20 = a1 /\ 20 + body[19] - 1 = z1
           /\ client + 1 = a2 /\ client + 1 + body[client] - 1 = z2
           /\ server + 1 = a3 /\ server + 1 + 4 - 1 = z3 /\ server + 5 = a4
           /\ server + 5 + ld - 1 = z4
        <3>1. body[client] = ls
            BY <2>2, <2>3
        <3> HIDE DEF client, server
        <3>2. 20 = a1 /\ 20 + body[19] - 1 = z1
            BY <2>2 DEF a1, z1
        <3>3. client + 1 = a2 /\ client + 1 + body[client] - 1 = z2
            BY <1>1, <2>3, <3>1 DEF a2, z2
        <3>4. server + 1 = a3 /\ server + 1 + 4 - 1 = z3
            BY <1>1, <2>3 DEF a3, z3
        <3>5. server + 5 = a4 /\ server + 5 + ld - 1 = z4
            BY <1>1, <2>3 DEF a4, z4
        <3>6. QED
            BY <3>1, <3>2, <3>3, <3>4, <3>5
    <2> HIDE DEF client, server
    <2>14. /\ SubSeq(body, 20, 20 + body[19] - 1) = f.clientAddr
           /\ SubSeq(body, client + 1, client + 1 + body[client] - 1) = f.serverAddr
           /\ Uint32(SubSeq(body, server + 1, server + 1 + 4 - 1)) = ld
        BY <2>4, <2>8, <2>9, <2>13
    <2>15. SubSeq(body, server + 5,
                  server + 5 + Uint32(SubSeq(body, server + 1, server + 1 + 4 - 1)) - 1) = f.data
        BY <2>9, <2>13, <2>14
    <2>16. DecodeFrame(s) =
              [type |-> f.type, connID |-> f.connID, timestamp |-> f.timestamp, dir |-> f.dir,
               clientAddr |-> f.clientAddr, serverAddr |-> f.serverAddr, data |-> f.data]
        BY <2>4, <2>5, <2>12, <2>14, <2>15
    <2>17. QED
        BY <2>16 DEF FrameSet
<1>14. QED
    BY <1>2, <1>7, <1>12, <1>13 DEF s, e, h3, h2, m, v, w, n
-----------------------------------------------------------------------------
(* Sequences laid one after the other.                                     *)

\* A set of numbers has a least one, so what the next one always keeps holds of all.
LEMMA Induct ==
    ASSUME NEW T, 0 \in T, \A n \in Nat : n \in T => n + 1 \in T
    PROVE  \A n \in Nat : n \in T
<1> DEFINE U == {n \in Nat : n \notin T}
<1>1. SUFFICES ASSUME U # {} PROVE FALSE
    OBVIOUS
<1>2. PICK n \in U : \A k \in U : <<k, n>> \notin OpToRel(<, Nat)
    BY <1>1, NatLessThanWellFounded, WFMin
<1>3. \A k \in U : ~(k < n)
    BY <1>2 DEF OpToRel
<1>4. n # 0 /\ n \in Nat /\ n - 1 \in Nat
    OBVIOUS
<1>5. n - 1 \notin U
    BY <1>3, <1>4
<1>6. n - 1 \in T
    BY <1>4, <1>5
<1>7. n \in T
    <2>1. n - 1 + 1 = n
        BY <1>4
    <2>2. QED
        BY <1>4, <1>6, <2>1
<1>8. QED
    BY <1>7

\* f[i] is the first i members of ss, one after the other.
Sums(f, ss, n) ==
    \A i \in 1 .. n : f[i] = IF i = 1 THEN ss[i] ELSE f[i - 1] \o ss[i]

LEMMA SumsExist ==
    ASSUME NEW S, NEW ss \in Seq(Seq(S)), ss # <<>>
    PROVE  \E f \in [1 .. Len(ss) -> Seq(S)] : Sums(f, ss, Len(ss))
<1> DEFINE L == Len(ss)
           T == {n \in Nat : n <= L => \E f \in [1 .. n -> Seq(S)] : Sums(f, ss, n)}
<1>1. L \in Nat /\ \A i \in 1 .. L : ss[i] \in Seq(S)
    BY LenProperties, ElementOfSeq
<1> HIDE DEF L
<1>2. 0 \in T
    <2> DEFINE f == [i \in 1 .. 0 |-> <<>>]
    <2>1. f \in [1 .. 0 -> Seq(S)] /\ Sums(f, ss, 0)
        BY DEF Sums
    <2>2. QED
        BY <2>1
<1>3. ASSUME NEW n \in Nat, n \in T PROVE n + 1 \in T
    <2>1. SUFFICES ASSUME n + 1 <= L
                   PROVE  \E f \in [1 .. n + 1 -> Seq(S)] : Sums(f, ss, n + 1)
        OBVIOUS
    <2>2. PICK f \in [1 .. n -> Seq(S)] : Sums(f, ss, n)
        BY <1>1, <1>3, <2>1
    <2> DEFINE last == IF n = 0 THEN ss[1] ELSE f[n] \o ss[n + 1]
               g    == [i \in 1 .. n + 1 |-> IF i = n + 1 THEN last ELSE f[i]]
    <2>3. last \in Seq(S)
        <3>1. CASE n = 0
            BY <1>1, <2>1, <3>1
        <3>2. CASE n # 0
            <4>1. f[n] \in Seq(S) /\ ss[n + 1] \in Seq(S)
                BY <1>1, <2>1, <2>2, <3>2
            <4>2. QED
                BY <3>2, <4>1, ConcatProperties
        <3>3. QED
            BY <3>1, <3>2
    <2>4. g \in [1 .. n + 1 -> Seq(S)]
        <3>1. \A i \in 1 .. n + 1 : i # n + 1 => f[i] \in Seq(S)
            BY <2>2
        <3> HIDE DEF last
        <3>2. QED
            BY <2>3, <3>1
    <2>5. Sums(g, ss, n + 1)
        <3>1. \A i \in 1 .. n : g[i] = f[i] /\ (i # 1 => g[i - 1] = f[i - 1])
            <4> HIDE DEF last
            <4>1. QED
                OBVIOUS
        <3>2. g[n + 1] = IF n + 1 = 1 THEN ss[n + 1] ELSE g[n] \o ss[n + 1]
            <4>1. CASE n = 0
                BY <4>1
            <4>2. CASE n # 0
                <5>1. g[n] = f[n] /\ g[n + 1] = last
                    <6> HIDE DEF last
                    <6>1. QED
                        BY <4>2
                <5> HIDE DEF g
                <5>2. last = f[n] \o ss[n + 1]
                    BY <4>2, Zenon
                <5> HIDE DEF last
                <5>3. n + 1 # 1
                    BY <4>2
                <5>4. QED
                    BY <5>1, <5>2, <5>3
            <4>3. QED
                BY <4>1, <4>2
        <3> HIDE DEF g, last
        <3>3. ASSUME NEW i \in 1 .. n + 1
              PROVE  g[i] = IF i = 1 THEN ss[i] ELSE g[i - 1] \o ss[i]
            <4>1. CASE i = n + 1
                <5>1. i - 1 = n
                    BY <4>1
                <5>2. QED
                    BY <3>2, <4>1, <5>1
            <4>2. CASE i # n + 1
                <5>1. i \in 1 .. n
                    BY <4>2
                <5>2. QED
                    BY <2>2, <3>1, <5>1 DEF Sums
            <4>3. QED
                BY <4>1, <4>2
        <3>4. QED
            BY <3>3 DEF Sums
    <2> HIDE DEF g
    <2>6. QED
        BY <2>4, <2>5
<1> HIDE DEF T
<1>4. \A n \in Nat : n \in T
    BY <1>2, <1>3, Induct
<1>5. L \in T
    BY <1>1, <1>4
<1>6. QED
    BY <1>1, <1>5 DEF T, L

LEMMA SumsUnique ==
    ASSUME NEW n \in Nat, NEW ss, NEW f, NEW g, Sums(f, ss, n), Sums(g, ss, n)
    PROVE  \A i \in 1 .. n : f[i] = g[i]
<1> DEFINE T == {i \in Nat : i \in 1 .. n => f[i] = g[i]}
<1>1. 0 \in T
    OBVIOUS
<1>2. ASSUME NEW i \in Nat, i \in T PROVE i + 1 \in T
    <2>1. SUFFICES ASSUME i + 1 \in 1 .. n PROVE f[i + 1] = g[i + 1]
        OBVIOUS
    <2>2. /\ f[i + 1] = IF i + 1 = 1 THEN ss[i + 1] ELSE f[i + 1 - 1] \o ss[i + 1]
          /\ g[i + 1] = IF i + 1 = 1 THEN ss[i + 1] ELSE g[i + 1 - 1] \o ss[i + 1]
        BY <2>1 DEF Sums
    <2>3. i + 1 # 1 => i + 1 - 1 = i /\ i \in 1 .. n
        BY <2>1
    <2>4. i + 1 # 1 => f[i + 1 - 1] = g[i + 1 - 1]
        BY <1>2, <2>3
    <2>5. QED
        BY <2>2, <2>4
<1> HIDE DEF T
<1>3. \A i \in Nat : i \in T
    BY <1>1, <1>2, Induct
<1>4. QED
    BY <1>3 DEF T

LEMMA FlattenSums ==
    ASSUME NEW S, NEW ss \in Seq(Seq(S)), ss # <<>>,
           NEW f, Sums(f, ss, Len(ss))
    PROVE  FlattenSeq(ss) = f[Len(ss)] /\ f[Len(ss)] \in Seq(S)
<1> DEFINE G(g) == [i \in 1 .. Len(ss) |-> IF i = 1 THEN ss[i] ELSE g[i - 1] \o ss[i]]
           flat == CHOOSE g : g = G(g)
<1>1. Len(ss) \in Nat /\ Len(ss) # 0
    BY EmptySeq, LenProperties
<1>2. FlattenSeq(ss) = flat[Len(ss)]
    BY <1>1 DEF FlattenSeq
<1>3. PICK h \in [1 .. Len(ss) -> Seq(S)] : Sums(h, ss, Len(ss))
    BY SumsExist
<1>4. h = G(h)
    BY <1>3 DEF Sums
<1>5. flat = G(flat)
    BY <1>4
<1> HIDE DEF flat
<1>6. Sums(flat, ss, Len(ss))
    BY <1>5 DEF Sums
<1>7. Len(ss) \in 1 .. Len(ss)
    BY <1>1
<1>8. f[Len(ss)] = flat[Len(ss)] /\ f[Len(ss)] = h[Len(ss)]
    BY <1>1, <1>3, <1>6, <1>7, SumsUnique
<1>9. h[Len(ss)] \in Seq(S)
    BY <1>3, <1>7
<1>10. QED
    BY <1>2, <1>8, <1>9

LEMMA FlattenOne ==
    ASSUME NEW S, NEW x \in Seq(S) PROVE FlattenSeq(<<x>>) = x
<1> DEFINE ss == <<x>>
<1>1. ss \in Seq(Seq(S)) /\ ss # <<>> /\ Len(ss) = 1 /\ ss[1] = x
    OBVIOUS
<1> HIDE DEF ss
<1>2. Sums(ss, ss, Len(ss))
    BY <1>1 DEF Sums
<1>3. FlattenSeq(ss) = ss[Len(ss)]
    BY <1>1, <1>2, FlattenSums
<1>4. QED
    BY <1>1, <1>3 DEF ss

LEMMA FlattenEmpty == FlattenSeq(<<>>) = <<>>
BY DEF FlattenSeq

LEMMA FlattenType ==
    ASSUME NEW S, NEW ss \in Seq(Seq(S)) PROVE FlattenSeq(ss) \in Seq(S)
<1>1. CASE ss = <<>>
    BY <1>1, FlattenEmpty, EmptySeq
<1>2. CASE ss # <<>>
    <2>1. PICK f \in [1 .. Len(ss) -> Seq(S)] : Sums(f, ss, Len(ss))
        BY <1>2, SumsExist
    <2>2. QED
        BY <1>2, <2>1, FlattenSums
<1>3. QED
    BY <1>1, <1>2

LEMMA FlattenAppend ==
    ASSUME NEW S, NEW ss \in Seq(Seq(S)), NEW x \in Seq(S)
    PROVE  FlattenSeq(Append(ss, x)) = FlattenSeq(ss) \o x
<1> DEFINE tt == Append(ss, x)
           L  == Len(ss)
<1>1. CASE ss = <<>>
    <2>1. Append(ss, x) = <<x>>
        BY <1>1
    <2>2. FlattenSeq(ss) \o x = x
        BY <1>1, FlattenEmpty, ConcatEmptySeq
    <2>3. QED
        BY <2>1, <2>2, FlattenOne
<1>2. CASE ss # <<>>
    <2>1. /\ tt \in Seq(Seq(S)) /\ tt # <<>> /\ Len(tt) = L + 1
          /\ \A i \in 1 .. L : tt[i] = ss[i]
          /\ tt[L + 1] = x
        BY AppendProperties
    <2>2. L \in Nat /\ L # 0
        BY <1>2, EmptySeq, LenProperties
    <2>3. PICK f \in [1 .. Len(tt) -> Seq(S)] : Sums(f, tt, Len(tt))
        BY <2>1, SumsExist
    <2> HIDE DEF tt, L
    <2>4. Sums(f, ss, L)
        <3>1. \A i \in 1 .. L : i \in 1 .. L + 1
            BY <2>2
        <3>2. QED
            BY <2>1, <2>3, <3>1 DEF Sums
    <2>5. FlattenSeq(tt) = f[L + 1]
        BY <2>1, <2>3, FlattenSums
    <2>6. FlattenSeq(ss) = f[L]
        BY <1>2, <2>4, FlattenSums DEF L
    <2>7. f[L + 1] = f[L] \o x
        <3> DEFINE m == L + 1
        <3>1. m \in 1 .. m /\ m # 1 /\ m - 1 = L
            BY <2>2
        <3>2. Sums(f, tt, m) /\ tt[m] = x
            BY <2>1, <2>3
        <3> HIDE DEF m
        <3>3. f[m] = IF m = 1 THEN tt[m] ELSE f[m - 1] \o tt[m]
            BY <3>1, <3>2 DEF Sums
        <3>4. QED
            BY <3>1, <3>2, <3>3 DEF m
    <2>8. QED
        BY <2>5, <2>6, <2>7 DEF tt
<1>3. QED
    BY <1>1, <1>2

LEMMA Associates ==
    ASSUME NEW S, NEW a \in Seq(S), NEW b \in Seq(S), NEW c \in Seq(S)
    PROVE  a \o (b \o c) = (a \o b) \o c
<1>1. (a \o b) \o c = a \o (b \o c)
    BY ConcatAssociative
<1>2. QED
    BY <1>1

LEMMA AllAssociate ==
    ASSUME NEW S
    PROVE  \A u, v, w \in Seq(S) : (u \o v) \o w = u \o (v \o w)
BY ConcatAssociative

LEMMA FlattenConcat ==
    ASSUME NEW S, NEW ss \in Seq(Seq(S)), NEW tt \in Seq(Seq(S))
    PROVE  FlattenSeq(ss \o tt) = FlattenSeq(ss) \o FlattenSeq(tt)
<1>a. \A u, v, w \in Seq(S) : (u \o v) \o w = u \o (v \o w)
    BY AllAssociate
<1> DEFINE T == {n \in Nat : \A uu \in Seq(Seq(S)) :
                    Len(uu) = n => FlattenSeq(ss \o uu) = FlattenSeq(ss) \o FlattenSeq(uu)}
<1>1. 0 \in T
    <2>1. SUFFICES ASSUME NEW uu \in Seq(Seq(S)), Len(uu) = 0
                   PROVE  FlattenSeq(ss \o uu) = FlattenSeq(ss) \o FlattenSeq(uu)
        OBVIOUS
    <2>2. uu = <<>>
        BY <2>1, EmptySeq
    <2>3. ss \o uu = ss /\ FlattenSeq(uu) = <<>> /\ FlattenSeq(ss) \in Seq(S)
        BY <2>2, FlattenEmpty, FlattenType, ConcatEmptySeq
    <2>4. QED
        BY <2>3, ConcatEmptySeq
<1>2. ASSUME NEW n \in Nat, n \in T PROVE n + 1 \in T
    <2>1. SUFFICES ASSUME NEW uu \in Seq(Seq(S)), Len(uu) = n + 1
                   PROVE  FlattenSeq(ss \o uu) = FlattenSeq(ss) \o FlattenSeq(uu)
        OBVIOUS
    <2>2. uu # <<>>
        BY <2>1, EmptySeq
    <2>3. PICK v \in Seq(Seq(S)), x \in Seq(S) : uu = Append(v, x)
        BY <2>2, SequenceEmptyOrAppend
    <2>4. Len(v) = n
        <3>1. Len(uu) = Len(v) + 1 /\ Len(v) \in Nat
            BY <2>3, AppendProperties, LenProperties
        <3>2. QED
            BY <2>1, <3>1
    <2>5. FlattenSeq(ss \o v) = FlattenSeq(ss) \o FlattenSeq(v)
        BY <1>2, <2>4
    <2>6. ss \o uu = Append(ss \o v, x)
        <3>1. uu = v \o <<x>> /\ ss \o v \in Seq(Seq(S)) /\ <<x>> \in Seq(Seq(S))
            BY <2>3, AppendIsConcat, ConcatProperties
        <3>2. ss \o uu = (ss \o v) \o <<x>>
            <4>1. ss \o (v \o <<x>>) = (ss \o v) \o <<x>>
                BY <3>1, Associates
            <4>2. QED
                BY <3>1, <4>1
        <3>3. QED
            BY <3>1, <3>2, AppendIsConcat
    <2>7. /\ FlattenSeq(ss) \in Seq(S) /\ FlattenSeq(v) \in Seq(S)
          /\ ss \o v \in Seq(Seq(S))
        BY FlattenType, ConcatProperties
    <2>8. FlattenSeq(ss \o uu) = (FlattenSeq(ss) \o FlattenSeq(v)) \o x
        BY <2>5, <2>6, <2>7, FlattenAppend
    <2>9. FlattenSeq(uu) = FlattenSeq(v) \o x
        BY <2>3, FlattenAppend
    <2>10. (FlattenSeq(ss) \o FlattenSeq(v)) \o x = FlattenSeq(ss) \o (FlattenSeq(v) \o x)
        <3> DEFINE a == FlattenSeq(ss)
                   b == FlattenSeq(v)
        <3>1. a \in Seq(S) /\ b \in Seq(S)
            BY <2>7
        <3> HIDE DEF a, b
        <3>2. (a \o b) \o x = a \o (b \o x)
            BY <1>a, <3>1
        <3>3. QED
            BY <3>2 DEF a, b
    <2>11. QED
        BY <2>8, <2>9, <2>10
<1> HIDE DEF T
<1>3. \A n \in Nat : n \in T
    BY <1>1, <1>2, Induct
<1>4. Len(tt) \in T
    BY <1>3, LenProperties
<1>5. QED
    BY <1>4 DEF T

\* What g makes of the members of ps, one after the other.
Mapped(ps, g)  == [i \in DOMAIN ps |-> g[ps[i]]]
FlatMap(ps, g) == FlattenSeq(Mapped(ps, g))

LEMMA MappedAt ==
    ASSUME NEW T, NEW g, NEW ps \in Seq(T)
    PROVE  /\ Len(ps) \in Nat /\ Len(Mapped(ps, g)) = Len(ps)
           /\ Mapped(ps, g) = [i \in 1 .. Len(ps) |-> g[ps[i]]]
<1>1. DOMAIN ps = 1 .. Len(ps) /\ Len(ps) \in Nat
    BY LenProperties
<1>2. Mapped(ps, g) = [i \in 1 .. Len(ps) |-> g[ps[i]]]
    BY <1>1 DEF Mapped
<1>3. QED
    BY <1>1, <1>2

LEMMA MappedType ==
    ASSUME NEW T, NEW S, NEW g \in [T -> Seq(S)], NEW ps \in Seq(T)
    PROVE  Mapped(ps, g) \in Seq(Seq(S))
<1>1. Len(ps) \in Nat /\ Mapped(ps, g) = [i \in 1 .. Len(ps) |-> g[ps[i]]]
    BY MappedAt
<1>2. \A i \in 1 .. Len(ps) : g[ps[i]] \in Seq(S)
    BY ElementOfSeq
<1> DEFINE L  == Len(ps)
<1>3. Mapped(ps, g) \in [1 .. L -> Seq(S)] /\ L \in Nat
    BY <1>1, <1>2
<1> HIDE DEF L
<1>4. QED
    BY <1>3

LEMMA FlatMapType ==
    ASSUME NEW T, NEW S, NEW g \in [T -> Seq(S)], NEW ps \in Seq(T)
    PROVE  FlatMap(ps, g) \in Seq(S)
<1>1. Mapped(ps, g) \in Seq(Seq(S))
    BY MappedType
<1>2. QED
    BY <1>1, FlattenType DEF FlatMap

LEMMA FlatMapEmpty ==
    ASSUME NEW g PROVE FlatMap(<<>>, g) = <<>>
<1>1. Mapped(<<>>, g) = <<>>
    BY DEF Mapped
<1>2. QED
    BY <1>1, FlattenEmpty DEF FlatMap

LEMMA FlatMapOne ==
    ASSUME NEW T, NEW S, NEW g \in [T -> Seq(S)], NEW p \in T
    PROVE  FlatMap(<<p>>, g) = g[p]
<1>1. Mapped(<<p>>, g) = <<g[p]>>
    BY DEF Mapped
<1>2. g[p] \in Seq(S)
    OBVIOUS
<1>3. QED
    BY <1>1, <1>2, FlattenOne DEF FlatMap

LEMMA FlatMapConcat ==
    ASSUME NEW T, NEW S, NEW g \in [T -> Seq(S)], NEW ps \in Seq(T), NEW qs \in Seq(T)
    PROVE  ps \o qs \in Seq(T) /\ FlatMap(ps \o qs, g) = FlatMap(ps, g) \o FlatMap(qs, g)
<1> DEFINE rs == ps \o qs
           mp == Mapped(ps, g)
           mq == Mapped(qs, g)
           mr == Mapped(rs, g)
           mm == mp \o mq
<1>1. /\ rs \in Seq(T) /\ Len(rs) = Len(ps) + Len(qs)
      /\ \A i \in 1 .. Len(ps) + Len(qs) : rs[i] = IF i <= Len(ps) THEN ps[i] ELSE qs[i - Len(ps)]
    BY ConcatProperties
<1> HIDE DEF rs
<1>2. mp \in Seq(Seq(S)) /\ mq \in Seq(Seq(S)) /\ mr \in Seq(Seq(S))
    <2>1. rs \in Seq(T)
        BY <1>1
    <2>2. QED
        BY <2>1, MappedType
<1>3. Len(ps) \in Nat /\ Len(mp) = Len(ps) /\ mp = [i \in 1 .. Len(ps) |-> g[ps[i]]]
    BY MappedAt
<1>4. Len(qs) \in Nat /\ Len(mq) = Len(qs) /\ mq = [i \in 1 .. Len(qs) |-> g[qs[i]]]
    BY MappedAt
<1>5. Len(mr) = Len(rs) /\ mr = [i \in 1 .. Len(rs) |-> g[rs[i]]]
    <2>1. rs \in Seq(T)
        BY <1>1
    <2>2. QED
        BY <2>1, MappedAt
<1> HIDE DEF mp, mq, mr
<1>6. /\ mm \in Seq(Seq(S)) /\ Len(mm) = Len(mp) + Len(mq)
      /\ \A i \in 1 .. Len(mp) + Len(mq) : mm[i] = IF i <= Len(mp) THEN mp[i] ELSE mq[i - Len(mp)]
    BY <1>2, ConcatProperties
<1> HIDE DEF mm
<1>7. Len(mr) = Len(mm)
    BY <1>1, <1>3, <1>4, <1>6, <1>5
<1>8. ASSUME NEW i \in 1 .. Len(mr) PROVE mr[i] = mm[i]
    <2>1. i \in 1 .. Len(ps) + Len(qs) /\ i \in 1 .. Len(rs) /\ i \in 1 .. Len(mp) + Len(mq)
        BY <1>1, <1>3, <1>4, <1>5
    <2>2. CASE i <= Len(ps)
        <3>1. rs[i] = ps[i] /\ mm[i] = mp[i] /\ i \in 1 .. Len(ps)
            BY <1>1, <1>3, <1>6, <2>1, <2>2
        <3>2. QED
            BY <1>3, <1>5, <2>1, <3>1
    <2>3. CASE ~(i <= Len(ps))
        <3>1. rs[i] = qs[i - Len(ps)] /\ mm[i] = mq[i - Len(ps)]
            BY <1>1, <1>3, <1>6, <2>1, <2>3
        <3>2. i - Len(ps) \in 1 .. Len(qs)
            BY <1>3, <1>4, <2>1, <2>3
        <3>3. mr[i] = g[rs[i]] /\ mq[i - Len(ps)] = g[qs[i - Len(ps)]]
            BY <1>4, <1>5, <2>1, <3>2
        <3>4. QED
            BY <3>1, <3>3
    <2>4. QED
        BY <2>2, <2>3
<1>9. mr = mm
    BY <1>2, <1>6, <1>7, <1>8, SeqEqual
<1>10. FlattenSeq(mm) = FlattenSeq(mp) \o FlattenSeq(mq)
    BY <1>2, FlattenConcat DEF mm
<1>11. FlattenSeq(mr) = FlattenSeq(mp) \o FlattenSeq(mq)
    BY <1>9, <1>10
<1>12. QED
    BY <1>1, <1>11 DEF FlatMap, mp, mq, mr, rs

\* A sequence that is not empty is its head and then its tail.
LEMMA HeadFirst ==
    ASSUME NEW T, NEW s \in Seq(T), s # <<>>
    PROVE  Head(s) \in T /\ Tail(s) \in Seq(T) /\ s = <<Head(s)>> \o Tail(s)
<1>1. /\ Head(s) \in T /\ Tail(s) \in Seq(T) /\ Len(Tail(s)) = Len(s) - 1
      /\ \A i \in 1 .. Len(Tail(s)) : Tail(s)[i] = s[i + 1]
      /\ Len(s) \in Nat /\ Len(s) # 0
    BY HeadTailProperties, LenProperties, EmptySeq
<1> DEFINE h == <<Head(s)>>
           t == Tail(s)
           c == h \o t
<1>2. h \in Seq(T) /\ Len(h) = 1 /\ h[1] = s[1]
    BY <1>1
<1> HIDE DEF h, t
<1>3. /\ c \in Seq(T) /\ Len(c) = Len(h) + Len(t)
      /\ \A i \in 1 .. Len(h) + Len(t) : c[i] = IF i <= Len(h) THEN h[i] ELSE t[i - Len(h)]
    <2>1. h \in Seq(T)
        BY <1>2
    <2>2. t \in Seq(T)
        BY <1>1 DEF t
    <2>3. QED
        BY <2>1, <2>2, ConcatProperties
<1> HIDE DEF c
<1>4. Len(s) = Len(c) /\ \A i \in 1 .. Len(s) : s[i] = c[i]
    <2>1. Len(t) = Len(s) - 1 /\ \A i \in 1 .. Len(s) - 1 : t[i] = s[i + 1]
        BY <1>1 DEF t
    <2>2. Len(s) = Len(c)
        BY <1>1, <1>2, <1>3, <2>1
    <2>3. c[1] = s[1]
        BY <1>1, <1>2, <1>3, <2>1
    <2>4. ASSUME NEW i \in 2 .. Len(s) PROVE c[i] = s[i]
        <3>1. i \in 1 .. Len(h) + Len(t) /\ ~(i <= Len(h)) /\ i - Len(h) = i - 1
              /\ i - 1 \in 1 .. Len(s) - 1 /\ i - 1 + 1 = i
            BY <1>1, <1>2, <2>1
        <3>2. c[i] = t[i - 1]
            BY <1>3, <3>1
        <3>3. t[i - 1] = s[i - 1 + 1]
            BY <2>1, <3>1
        <3>4. QED
            BY <3>1, <3>2, <3>3
    <2>5. QED
        BY <1>1, <2>2, <2>3, <2>4
<1>5. s = c
    BY <1>3, <1>4, SeqEqual
<1>6. QED
    BY <1>1, <1>5 DEF c, h, t

LEMMA FlatMapSnoc ==
    ASSUME NEW T, NEW S, NEW g \in [T -> Seq(S)], NEW ps \in Seq(T), NEW p \in T
    PROVE  FlatMap(ps \o <<p>>, g) = FlatMap(ps, g) \o g[p]
<1> DEFINE qs == <<p>>
<1>1. qs \in Seq(T)
    OBVIOUS
<1>2. FlatMap(qs, g) = g[p]
    BY FlatMapOne
<1> HIDE DEF qs
<1>3. FlatMap(ps \o qs, g) = FlatMap(ps, g) \o FlatMap(qs, g)
    BY <1>1, FlatMapConcat
<1>4. QED
    BY <1>2, <1>3 DEF qs

LEMMA FlatMapJoin ==
    ASSUME NEW T, NEW S, NEW g \in [T -> Seq(S)]
    PROVE  \A u, v \in Seq(T) : FlatMap(u \o v, g) = FlatMap(u, g) \o FlatMap(v, g)
BY FlatMapConcat

LEMMA FlatMapHead ==
    ASSUME NEW T, NEW S, NEW g \in [T -> Seq(S)], NEW h \in T, NEW t \in Seq(T)
    PROVE  FlatMap(<<h>> \o t, g) = g[h] \o FlatMap(t, g)
<1> DEFINE qs == <<h>>
<1>1. qs \in Seq(T)
    OBVIOUS
<1>2. FlatMap(qs, g) = g[h]
    BY FlatMapOne
<1> HIDE DEF qs
<1>3. \A u, v \in Seq(T) : FlatMap(u \o v, g) = FlatMap(u, g) \o FlatMap(v, g)
    BY FlatMapJoin
<1>4. FlatMap(qs \o t, g) = FlatMap(qs, g) \o FlatMap(t, g)
    BY <1>1, <1>3
<1>5. QED
    BY <1>2, <1>4 DEF qs

LEMMA FlatMapCons ==
    ASSUME NEW T, NEW S, NEW g \in [T -> Seq(S)], NEW ps \in Seq(T), ps # <<>>
    PROVE  /\ Head(ps) \in T /\ Tail(ps) \in Seq(T)
           /\ FlatMap(ps, g) = g[Head(ps)] \o FlatMap(Tail(ps), g)
<1>1. Head(ps) \in T /\ Tail(ps) \in Seq(T) /\ ps = <<Head(ps)>> \o Tail(ps)
    BY HeadFirst
<1>2. \A h \in T : \A t \in Seq(T) : FlatMap(<<h>> \o t, g) = g[h] \o FlatMap(t, g)
    BY FlatMapHead
<1>3. FlatMap(<<Head(ps)>> \o Tail(ps), g) = g[Head(ps)] \o FlatMap(Tail(ps), g)
    BY <1>1, <1>2
<1>4. QED
    BY <1>1, <1>3
-----------------------------------------------------------------------------
(* The inductive invariant.                                                *)

BytesOf      == [p \in PieceType |-> p.bytes]
SegmentBytes == [seg \in Segment |-> seg.bytes \o seg.sum]
Coded        == [f \in FrameSet |-> Encode(f)]

\* What of d's stream a frame carries.
Carried(d) == [f \in FrameSet |-> IF f.type = "data" /\ f.dir = d THEN f.data ELSE <<>>]

\* What tryParsePackets took out of d's buffer in the running call.
InCall(d) == IF parsing = d THEN FlatMap(call, BytesOf) ELSE <<>>

Typed ==
    /\ \A d \in Direction : sent[d] \in Seq(Segments[d])
    /\ relayed \in [Direction -> Nat] /\ stage \in {"new", "open", "closed"}
    /\ inFlight \in Seq(FrameSet) /\ Len(inFlight) <= MaxInFlight
    /\ parsing \in Direction \cup {"none"} /\ buffer \in [Direction -> Seq(Byte)]
    /\ call \in Seq(PieceType) /\ pieces \in [Direction -> Seq(PieceType)]
    /\ torn \in BOOLEAN

\* The socket has the frames in flight, byte by byte.
InStep == socket = FlatMap(inFlight, Coded)

\* Where d's bytes are: out of the buffer in earlier calls and in this one,
\* in the buffer, and in the frames in flight.
Ledgers   == [taken : Seq(Byte), running : Seq(Byte), held : Seq(Byte), flying : Seq(Byte)]
Ledger(d) ==
    [taken |-> FlatMap(pieces[d], BytesOf), running |-> InCall(d), held |-> buffer[d],
     flying |-> FlatMap(inFlight, Carried(d))]

Account(k) == k.taken \o (k.running \o (k.held \o k.flying))

\* They are, in this order, what the relay has read of d's stream.
Accounted ==
    \A d \in Direction :
        /\ relayed[d] <= Len(Stream(d))
        /\ SubSeq(Stream(d), 1, relayed[d]) = Account(Ledger(d))

\* A call ends with its loop, and no packet of it is empty.
Calling ==
    /\ parsing = "none" => call = <<>>
    /\ \A i \in DOMAIN call : call[i].what = "packet" => call[i].bytes # <<>>

IInv == Typed /\ InStep /\ Accounted /\ Calling

LEMMA Maps ==
    /\ BytesOf \in [PieceType -> Seq(Byte)] /\ Coded \in [FrameSet -> Seq(Byte)]
    /\ SegmentBytes \in [Segment -> Seq(Byte)]
    /\ \A d \in Direction : Carried(d) \in [FrameSet -> Seq(Byte)]
<1>1. BytesOf \in [PieceType -> Seq(Byte)]
    BY DEF BytesOf, PieceType
<1>2. Coded \in [FrameSet -> Seq(Byte)]
    <2>1. \A f \in FrameSet : Encode(f) \in Seq(Byte)
        <3>1. <<>> \in Seq(Byte)
            BY EmptySeq
        <3>2. QED
            BY <3>1, FrameRoundTrip
    <2>2. QED
        BY <2>1 DEF Coded
<1>3. SegmentBytes \in [Segment -> Seq(Byte)]
    <2>1. \A seg \in Segment : seg.bytes \in Seq(Byte) /\ seg.sum \in Seq(Byte)
        BY DEF Segment
    <2>2. \A seg \in Segment : seg.bytes \o seg.sum \in Seq(Byte)
        BY <2>1, ConcatProperties
    <2>3. QED
        BY <2>2 DEF SegmentBytes
<1>4. \A d \in Direction : Carried(d) \in [FrameSet -> Seq(Byte)]
    <2>1. \A f \in FrameSet : f.data \in Seq(Byte)
        BY DEF FrameSet
    <2>2. <<>> \in Seq(Byte)
        BY EmptySeq
    <2>3. QED
        BY <2>1, <2>2 DEF Carried
<1>5. QED
    BY <1>1, <1>2, <1>3, <1>4

LEMMA BytesIs ==
    ASSUME NEW ps \in Seq(PieceType) PROVE Bytes(ps) = FlatMap(ps, BytesOf)
<1>1. DOMAIN ps = 1 .. Len(ps) /\ \A i \in 1 .. Len(ps) : ps[i] \in PieceType
    BY LenProperties, ElementOfSeq
<1>2. \A i \in DOMAIN ps : BytesOf[ps[i]] = ps[i].bytes
    BY <1>1 DEF BytesOf
<1>3. Mapped(ps, BytesOf) = [i \in DOMAIN ps |-> ps[i].bytes]
    BY <1>2 DEF Mapped
<1>4. QED
    BY <1>3 DEF Bytes, FlatMap

LEMMA StreamType ==
    ASSUME NEW d \in Direction, sent[d] \in Seq(Segments[d]) PROVE Stream(d) \in Seq(Byte)
<1> DEFINE ss == sent[d]
<1>1. ss \in Seq(Segment)
    <2>1. Segments[d] \subseteq Segment
        BY WireAssumption
    <2>2. QED
        BY <2>1, SeqMonotonic
<1>2. DOMAIN ss = 1 .. Len(ss) /\ \A i \in 1 .. Len(ss) : ss[i] \in Segment
    BY <1>1, LenProperties, ElementOfSeq
<1>3. \A i \in DOMAIN ss : SegmentBytes[ss[i]] = ss[i].bytes \o ss[i].sum
    BY <1>2 DEF SegmentBytes
<1>4. Mapped(ss, SegmentBytes) = [i \in DOMAIN ss |-> ss[i].bytes \o ss[i].sum]
    BY <1>3 DEF Mapped
<1>5. Stream(d) = FlatMap(ss, SegmentBytes)
    BY <1>4 DEF Stream, FlatMap
<1>6. FlatMap(ss, SegmentBytes) \in Seq(Byte)
    <2>1. SegmentBytes \in [Segment -> Seq(Byte)]
        BY Maps
    <2> HIDE DEF ss
    <2>2. QED
        BY <1>1, <2>1, FlatMapType
<1>7. QED
    BY <1>5, <1>6

\* The parts of the account, for one direction.
LEMMA PartsType ==
    ASSUME Typed, NEW d \in Direction
    PROVE  /\ FlatMap(pieces[d], BytesOf) \in Seq(Byte) /\ InCall(d) \in Seq(Byte)
           /\ FlatMap(call, BytesOf) \in Seq(Byte) /\ buffer[d] \in Seq(Byte)
           /\ FlatMap(inFlight, Carried(d)) \in Seq(Byte) /\ Stream(d) \in Seq(Byte)
           /\ Ledger(d) \in Ledgers
<1>1. /\ pieces[d] \in Seq(PieceType) /\ call \in Seq(PieceType) /\ inFlight \in Seq(FrameSet)
      /\ buffer[d] \in Seq(Byte) /\ sent[d] \in Seq(Segments[d])
    BY DEF Typed
<1>2. FlatMap(pieces[d], BytesOf) \in Seq(Byte) /\ FlatMap(call, BytesOf) \in Seq(Byte)
    BY <1>1, Maps, FlatMapType
<1>3. FlatMap(inFlight, Carried(d)) \in Seq(Byte)
    BY <1>1, Maps, FlatMapType
<1>4. Stream(d) \in Seq(Byte)
    BY <1>1, StreamType
<1>5. InCall(d) \in Seq(Byte)
    BY <1>2, EmptySeq DEF InCall
<1>6. Ledger(d) \in Ledgers
    BY <1>1, <1>2, <1>3, <1>5 DEF Ledger, Ledgers
<1>7. QED
    BY <1>1, <1>2, <1>3, <1>4, <1>5, <1>6
-----------------------------------------------------------------------------
(* Bytes that move from one part to the next.                              *)

LEMMA BytesAssociate == \A u, v, w \in Seq(Byte) : (u \o v) \o w = u \o (v \o w)
<1> DEFINE S == Byte
<1> HIDE DEF S
<1>1. \A u, v, w \in Seq(S) : (u \o v) \o w = u \o (v \o w)
    BY AllAssociate
<1>2. QED
    BY <1>1 DEF S

LEMMA PiecesAssociate == \A u, v, w \in Seq(PieceType) : (u \o v) \o w = u \o (v \o w)
<1> DEFINE S == PieceType
<1> HIDE DEF S
<1>1. \A u, v, w \in Seq(S) : (u \o v) \o w = u \o (v \o w)
    BY AllAssociate
<1>2. QED
    BY <1>1 DEF S

\* From the relay into a frame.
LEMMA MoveIn ==
    ASSUME NEW k \in Ledgers, NEW l, NEW x \in Seq(Byte),
           l.taken = k.taken, l.running = k.running, l.held = k.held, l.flying = k.flying \o x
    PROVE  Account(l) = Account(k) \o x
<1> DEFINE p == k.taken
           c == k.running
           b == k.held
           r == k.flying
<1>p. p \in Seq(Byte)
    BY DEF Ledgers
<1>c. c \in Seq(Byte)
    BY DEF Ledgers
<1>r. b \in Seq(Byte) /\ r \in Seq(Byte)
    BY DEF Ledgers
<1>1. Account(l) = p \o (c \o (b \o (r \o x)))
    BY DEF Account
<1>2. Account(k) = p \o (c \o (b \o r))
    BY DEF Account
<1> HIDE DEF p, c, b, r
<1>3. b \o r \in Seq(Byte) /\ r \o x \in Seq(Byte)
    BY <1>r, ConcatProperties
<1>4. \A z \in Seq(Byte) : c \o z \in Seq(Byte)
    BY <1>c, ConcatProperties
<1>5. \A z \in Seq(Byte) : (p \o z) \o x = p \o (z \o x)
    BY <1>p, BytesAssociate
<1>6. \A z \in Seq(Byte) : (c \o z) \o x = c \o (z \o x)
    BY <1>c, BytesAssociate
<1>7. (b \o r) \o x = b \o (r \o x)
    BY <1>r, BytesAssociate
<1>8. (c \o (b \o r)) \o x = c \o (b \o (r \o x))
    BY <1>3, <1>6, <1>7
<1>9. (p \o (c \o (b \o r))) \o x = p \o ((c \o (b \o r)) \o x)
    BY <1>3, <1>4, <1>5
<1>10. QED
    BY <1>1, <1>2, <1>8, <1>9

\* Out of a frame into the buffer.
LEMMA MoveOn ==
    ASSUME NEW k \in Ledgers, NEW l, NEW x \in Seq(Byte), NEW y \in Seq(Byte), k.flying = x \o y,
           l.taken = k.taken, l.running = k.running, l.held = k.held \o x, l.flying = y
    PROVE  Account(l) = Account(k)
<1> DEFINE b == k.held
<1>1. b \in Seq(Byte)
    BY DEF Ledgers
<1> HIDE DEF b
<1>2. \A u \in Seq(Byte) : (u \o x) \o y = u \o (x \o y)
    BY BytesAssociate
<1>3. (b \o x) \o y = b \o (x \o y)
    BY <1>1, <1>2
<1>4. QED
    BY <1>3 DEF Account, b

\* Out of the buffer into the running call.
LEMMA MoveOut ==
    ASSUME NEW k \in Ledgers, NEW l, NEW x \in Seq(Byte), NEW y \in Seq(Byte), k.held = x \o y,
           l.taken = k.taken, l.running = k.running \o x, l.held = y, l.flying = k.flying
    PROVE  Account(l) = Account(k)
<1> DEFINE c == k.running
           r == k.flying
<1>c. c \in Seq(Byte)
    BY DEF Ledgers
<1>r. r \in Seq(Byte)
    BY DEF Ledgers
<1> HIDE DEF c, r
<1>1. \A u \in Seq(Byte) : (x \o y) \o u = x \o (y \o u)
    BY BytesAssociate
<1>2. (x \o y) \o r = x \o (y \o r)
    BY <1>r, <1>1
<1>3. y \o r \in Seq(Byte)
    BY <1>r, ConcatProperties
<1>4. \A u, z \in Seq(Byte) : (u \o x) \o z = u \o (x \o z)
    BY BytesAssociate
<1>5. \A z \in Seq(Byte) : (c \o x) \o z = c \o (x \o z)
    BY <1>c, <1>4
<1>6. c \o ((x \o y) \o r) = (c \o x) \o (y \o r)
    BY <1>2, <1>3, <1>5
<1>7. QED
    BY <1>6 DEF Account, c, r

\* Out of the running call.
LEMMA MoveAway ==
    ASSUME NEW k \in Ledgers, NEW l,
           l.taken = k.taken \o k.running, l.running = <<>>, l.held = k.held, l.flying = k.flying
    PROVE  Account(l) = Account(k)
<1> DEFINE p == k.taken
           c == k.running
           z == k.held \o k.flying
<1>1. p \in Seq(Byte) /\ c \in Seq(Byte) /\ k.held \in Seq(Byte) /\ k.flying \in Seq(Byte)
    BY DEF Ledgers
<1>2. z \in Seq(Byte)
    BY <1>1, ConcatProperties
<1> HIDE DEF p, c, z
<1>3. <<>> \o z = z
    BY <1>2, ConcatEmptySeq
<1>4. p \o (c \o z) = (p \o c) \o z
    BY <1>1, <1>2, BytesAssociate, Zenon
<1>5. p \o (c \o z) = (p \o c) \o (<<>> \o z)
    BY <1>3, <1>4
<1>6. QED
    BY <1>5 DEF Account, p, c, z

\* Out of the buffer when no call is running.
LEMMA MoveOff ==
    ASSUME NEW k \in Ledgers, NEW l, k.running = <<>>,
           l.taken = k.taken \o k.held, l.running = <<>>, l.held = <<>>, l.flying = k.flying
    PROVE  Account(l) = Account(k)
<1> DEFINE p == k.taken
           b == k.held
           r == k.flying
<1>1. p \in Seq(Byte) /\ b \in Seq(Byte) /\ r \in Seq(Byte)
    BY DEF Ledgers
<1>2. b \o r \in Seq(Byte)
    BY <1>1, ConcatProperties
<1> HIDE DEF p, b, r
<1>3. <<>> \o (b \o r) = b \o r
    BY <1>2, ConcatEmptySeq
<1>4. <<>> \o r = r
    BY <1>1, ConcatEmptySeq
<1>5. p \o (b \o r) = (p \o b) \o r
    BY <1>1, Associates
<1>6. p \o (<<>> \o (b \o r)) = (p \o b) \o (<<>> \o (<<>> \o r))
    BY <1>3, <1>4, <1>5
<1>7. QED
    BY <1>6 DEF Account, p, b, r
-----------------------------------------------------------------------------
(* The proxy's steps.                                                      *)

LEMMA InitInv == Init => IInv
<1> SUFFICES ASSUME Init PROVE IInv
    OBVIOUS
<1>1. Typed
    <2>1. \A d \in Direction : sent[d] \in Seq(Segments[d])
        <3>1. PICK n \in 0 .. MaxSegments :
                 sent \in {[c2s |-> c, s2c |-> s] :
                              c \in [1 .. n -> Segments["c2s"]],
                              s \in [1 .. MaxSegments - n -> Segments["s2c"]]}
            BY DEF Init
        <3>2. PICK c \in [1 .. n -> Segments["c2s"]],
                   s \in [1 .. MaxSegments - n -> Segments["s2c"]] :
                 sent = [c2s |-> c, s2c |-> s]
            BY <3>1
        <3>3. n \in Nat /\ MaxSegments - n \in Nat
            BY <3>1, WireAssumption
        <3>4. c \in Seq(Segments["c2s"])
            BY <3>3
        <3> DEFINE k == MaxSegments - n
        <3>5. k \in Nat /\ s \in [1 .. k -> Segments["s2c"]]
            BY <3>3
        <3> HIDE DEF k
        <3>6. s \in Seq(Segments["s2c"])
            BY <3>5
        <3>7. QED
            BY <3>2, <3>4, <3>6 DEF Direction
    <2>2. /\ relayed \in [Direction -> Nat] /\ stage \in {"new", "open", "closed"}
          /\ parsing \in Direction \cup {"none"} /\ torn \in BOOLEAN
        BY DEF Init
    <2>3. inFlight \in Seq(FrameSet) /\ Len(inFlight) <= MaxInFlight /\ call \in Seq(PieceType)
        <3>1. inFlight = <<>> /\ call = <<>> /\ MaxInFlight \in Nat
            BY WireAssumption DEF Init
        <3>2. <<>> \in Seq(FrameSet) /\ <<>> \in Seq(PieceType) /\ Len(<<>>) = 0
            BY EmptySeq
        <3>3. QED
            BY <3>1, <3>2
    <2>4. buffer \in [Direction -> Seq(Byte)] /\ pieces \in [Direction -> Seq(PieceType)]
        <3>1. <<>> \in Seq(Byte) /\ <<>> \in Seq(PieceType)
            BY EmptySeq
        <3>2. QED
            BY <3>1 DEF Init
    <2>5. QED
        BY <2>1, <2>2, <2>3, <2>4 DEF Typed
<1>2. InStep
    BY FlatMapEmpty DEF Init, InStep
<1>3. Accounted
    <2>1. SUFFICES ASSUME NEW d \in Direction
                   PROVE  /\ relayed[d] <= Len(Stream(d))
                          /\ SubSeq(Stream(d), 1, relayed[d]) = Account(Ledger(d))
        BY DEF Accounted
    <2>2. /\ relayed[d] = 0 /\ pieces[d] = <<>> /\ buffer[d] = <<>> /\ inFlight = <<>>
          /\ parsing = "none"
        BY DEF Init
    <2>3. InCall(d) = <<>>
        BY <2>2 DEF InCall, Direction
    <2>4. FlatMap(<<>>, BytesOf) = <<>> /\ FlatMap(<<>>, Carried(d)) = <<>>
        BY FlatMapEmpty
    <2>5. Ledger(d) = [taken |-> <<>>, running |-> <<>>, held |-> <<>>, flying |-> <<>>]
        BY <2>2, <2>3, <2>4 DEF Ledger
    <2>6. <<>> \o <<>> = <<>>
        <3>1. <<>> \in Seq(Byte)
            BY EmptySeq
        <3>2. QED
            BY <3>1, ConcatEmptySeq
    <2>7. Account(Ledger(d)) = <<>>
        BY <2>5, <2>6 DEF Account
    <2>8. Len(Stream(d)) \in Nat /\ SubSeq(Stream(d), 1, 0) = <<>>
        BY <1>1, PartsType, LenProperties, SubSeqEmpty
    <2>9. QED
        BY <2>2, <2>7, <2>8
<1>4. Calling
    BY DEF Init, Calling
<1>5. QED
    BY <1>1, <1>2, <1>3, <1>4 DEF IInv

LEMMA ClockType == ASSUME Typed PROVE Clock \in 0 .. Size64 - 1
<1>1. relayed["c2s"] \in Nat /\ relayed["s2c"] \in Nat
    BY DEF Typed, Direction
<1>2. relayed["c2s"] + relayed["s2c"] \in Nat /\ Size64 \in Nat /\ Size64 > 3
    BY <1>1, Sizes
<1>3. \A n \in Nat : \A m \in Nat : m > 3 => n % m \in 0 .. m - 1
    OBVIOUS
<1>4. QED
    BY <1>2, <1>3 DEF Clock

\* Every frame the proxy makes can be encoded.
LEMMA FramesMade ==
    ASSUME Typed
    PROVE  /\ NewConnOpenFrame(ConnID, Clock, ClientAddr, ServerAddr) \in FrameSet
           /\ NewConnCloseFrame(ConnID, Clock) \in FrameSet
           /\ \A d \in Direction : \A data \in Seq(Byte) :
                 Len(data) <= MaxChunk =>
                    NewDataFrame(ConnID, Clock, d, ClientAddr, ServerAddr, data) \in FrameSet
<1> DEFINE time == Clock
<1>1. time \in 0 .. Size64 - 1
    BY ClockType
<1> HIDE DEF time
<1>2. /\ ConnID \in 0 .. Size64 - 1
      /\ ClientAddr \in Seq(Byte) /\ Len(ClientAddr) < Radix /\ Len(ClientAddr) \in Nat
      /\ ServerAddr \in Seq(Byte) /\ Len(ServerAddr) < Radix /\ Len(ServerAddr) \in Nat
      /\ MaxChunk \in Nat
      /\ 24 + Len(ClientAddr) + Len(ServerAddr) + MaxChunk < Size32
    <2>1. /\ ConnID \in 0 .. Size64 - 1
          /\ ClientAddr \in Seq(Byte) /\ Len(ClientAddr) < Radix
          /\ ServerAddr \in Seq(Byte) /\ Len(ServerAddr) < Radix
          /\ MaxChunk \in Nat
          /\ 24 + Len(ClientAddr) + Len(ServerAddr) + MaxChunk < Size32
        BY WireAssumption
    <2>2. QED
        BY <2>1, LenProperties
<1>3. Size32 \in Nat /\ Radix \in Nat /\ Radix > 3
    BY Sizes
<1>4. DOMAIN FrameType = {"data", "connOpen", "connClose"}
    BY DEF FrameType
<1>5. <<>> \in Seq(Byte) /\ Len(<<>>) = 0
    BY EmptySeq
<1>6. ASSUME NEW d \in Direction, NEW data \in Seq(Byte), Len(data) <= MaxChunk
      PROVE  NewDataFrame(ConnID, time, d, ClientAddr, ServerAddr, data) \in FrameSet
    <2>1. Len(data) \in Nat
        BY LenProperties
    <2>2. 24 + Len(ClientAddr) + Len(ServerAddr) + Len(data) < Size32
        BY <1>2, <1>3, <1>6, <2>1
    <2>3. QED
        BY <1>1, <1>2, <1>4, <2>2 DEF NewDataFrame, FrameSet
<1>7. NewConnOpenFrame(ConnID, time, ClientAddr, ServerAddr) \in FrameSet
    <2>1. 24 + Len(ClientAddr) + Len(ServerAddr) + Len(<<>>) < Size32
        BY <1>2, <1>3, <1>5
    <2>2. NewConnOpenFrame(ConnID, time, ClientAddr, ServerAddr) =
             [type |-> "connOpen", connID |-> ConnID, timestamp |-> time, dir |-> "s2c",
              clientAddr |-> ClientAddr, serverAddr |-> ServerAddr, data |-> <<>>]
        BY DEF NewConnOpenFrame, NewDataFrame
    <2>3. QED
        BY <1>1, <1>2, <1>4, <1>5, <2>1, <2>2 DEF FrameSet, Direction
<1>8. NewConnCloseFrame(ConnID, time) \in FrameSet
    <2>1. 24 + Len(<<>>) + Len(<<>>) + Len(<<>>) < Size32 /\ Len(<<>>) < Radix
        BY <1>2, <1>3, <1>5
    <2>2. NewConnCloseFrame(ConnID, time) =
             [type |-> "connClose", connID |-> ConnID, timestamp |-> time, dir |-> "s2c",
              clientAddr |-> <<>>, serverAddr |-> <<>>, data |-> <<>>]
        BY DEF NewConnCloseFrame, NewDataFrame
    <2>3. QED
        BY <1>1, <1>2, <1>4, <1>5, <2>1, <2>2 DEF FrameSet, Direction
<1>9. QED
    BY <1>6, <1>7, <1>8 DEF time

\* A frame that is put on the socket is the last one in flight.
LEMMA PutStep ==
    ASSUME Typed, InStep, NEW frame \in FrameSet, Put(frame)
    PROVE  /\ inFlight' \in Seq(FrameSet) /\ Len(inFlight') <= MaxInFlight /\ InStep'
           /\ \A d \in Direction :
                 FlatMap(inFlight', Carried(d)) = FlatMap(inFlight, Carried(d)) \o Carried(d)[frame]
<1>1. inFlight \in Seq(FrameSet) /\ <<frame>> \in Seq(FrameSet) /\ Len(inFlight) \in Nat
    BY LenProperties DEF Typed
<1>2. inFlight' = inFlight \o <<frame>>
    BY <1>1, AppendIsConcat DEF Put
<1>3. inFlight' \in Seq(FrameSet) /\ Len(inFlight') = Len(inFlight) + 1
    <2>1. inFlight' = Append(inFlight, frame)
        BY DEF Put
    <2>2. QED
        BY <1>1, <2>1, AppendProperties
<1>4. Len(inFlight') <= MaxInFlight
    BY <1>1, <1>3, WireAssumption DEF Put
<1>5. FlatMap(inFlight', Coded) = FlatMap(inFlight, Coded) \o Coded[frame]
    <2>1. inFlight \in Seq(FrameSet) /\ Coded \in [FrameSet -> Seq(Byte)]
        BY <1>1, Maps
    <2>2. FlatMap(inFlight \o <<frame>>, Coded) = FlatMap(inFlight, Coded) \o Coded[frame]
        BY <2>1, FlatMapSnoc
    <2>3. QED
        BY <1>2, <2>2
<1>6. InStep'
    <2>1. socket' = FlatMap(inFlight, Coded) \o Coded[frame]
        BY DEF Put, InStep, Coded
    <2>2. QED
        BY <1>5, <2>1 DEF InStep
<1>7. ASSUME NEW d \in Direction
      PROVE  FlatMap(inFlight', Carried(d)) = FlatMap(inFlight, Carried(d)) \o Carried(d)[frame]
    <2>1. inFlight \in Seq(FrameSet) /\ Carried(d) \in [FrameSet -> Seq(Byte)]
        BY <1>1, Maps
    <2>2. FlatMap(inFlight \o <<frame>>, Carried(d)) =
             FlatMap(inFlight, Carried(d)) \o Carried(d)[frame]
        BY <2>1, FlatMapSnoc
    <2>3. QED
        BY <1>2, <2>2
<1>8. QED
    BY <1>3, <1>4, <1>6, <1>7

\* A frame without data leaves the account as it is.
LEMMA SilentStep ==
    ASSUME IInv, NEW frame \in FrameSet, frame.type # "data", Put(frame),
           stage' \in {"open", "closed"},
           UNCHANGED <<sent, relayed, parsing, buffer, call, pieces, torn>>
    PROVE  IInv'
<1>1. /\ inFlight' \in Seq(FrameSet) /\ Len(inFlight') <= MaxInFlight /\ InStep'
      /\ \A d \in Direction :
            FlatMap(inFlight', Carried(d)) = FlatMap(inFlight, Carried(d)) \o Carried(d)[frame]
    BY PutStep DEF IInv
<1>2. Typed'
    BY <1>1 DEF IInv, Typed
<1>3. Accounted'
    <2>1. SUFFICES ASSUME NEW d \in Direction
                   PROVE  Ledger(d)' = Ledger(d) /\ Stream(d)' = Stream(d)
        BY DEF IInv, Accounted
    <2>2. Stream(d)' = Stream(d) /\ InCall(d)' = InCall(d)
        BY DEF Stream, InCall
    <2>3. FlatMap(inFlight', Carried(d)) = FlatMap(inFlight, Carried(d))
        <3>1. Carried(d)[frame] = <<>>
            BY DEF Carried
        <3>2. FlatMap(inFlight, Carried(d)) \in Seq(Byte)
            BY PartsType DEF IInv
        <3>3. QED
            BY <1>1, <3>1, <3>2, ConcatEmptySeq
    <2>4. QED
        BY <2>2, <2>3 DEF Ledger
<1>4. Calling'
    BY DEF IInv, Calling
<1>5. QED
    BY <1>1, <1>2, <1>3, <1>4 DEF IInv

LEMMA OpenClose == ASSUME IInv, Open \/ Close PROVE IInv'
<1>1. CASE Open
    <2>1. NewConnOpenFrame(ConnID, Clock, ClientAddr, ServerAddr) \in FrameSet
        BY FramesMade DEF IInv
    <2>2. NewConnOpenFrame(ConnID, Clock, ClientAddr, ServerAddr).type = "connOpen"
        BY DEF NewConnOpenFrame, NewDataFrame
    <2>3. QED
        BY <1>1, <2>1, <2>2, SilentStep DEF Open
<1>2. CASE Close
    <2>1. NewConnCloseFrame(ConnID, Clock) \in FrameSet
        BY FramesMade DEF IInv
    <2>2. NewConnCloseFrame(ConnID, Clock).type = "connClose"
        BY DEF NewConnCloseFrame, NewDataFrame
    <2>3. QED
        BY <1>2, <2>1, <2>2, SilentStep DEF Close
<1>3. QED
    BY <1>1, <1>2

LEMMA RelayStep ==
    ASSUME IInv, NEW d \in Direction, NEW n \in 1 .. MaxChunk, Relay(d, n) PROVE IInv'
<1> DEFINE from  == relayed[d]
           to    == relayed[d] + n
           data  == SubSeq(Stream(d), from + 1, to)
           frame == NewDataFrame(ConnID, Clock, d, ClientAddr, ServerAddr, data)
<1>1. /\ from \in Nat /\ to \in Nat /\ MaxChunk \in Nat /\ n \in Nat /\ n >= 1 /\ n <= MaxChunk
      /\ Stream(d) \in Seq(Byte) /\ Len(Stream(d)) \in Nat /\ to <= Len(Stream(d))
    <2>1. from \in Nat /\ MaxChunk \in Nat
        BY WireAssumption DEF IInv, Typed
    <2>2. Stream(d) \in Seq(Byte)
        BY PartsType DEF IInv
    <2>3. to <= Len(Stream(d))
        BY DEF Relay
    <2>4. QED
        BY <2>1, <2>2, <2>3, LenProperties
<1>2. data \in Seq(Byte) /\ Len(data) <= MaxChunk
    <2> DEFINE s == Stream(d)
    <2>1. \A i \in from + 1 .. to : i \in 1 .. Len(s)
        BY <1>1
    <2>2. \A i \in from + 1 .. to : s[i] \in Byte
        BY <1>1, <2>1, ElementOfSeq
    <2> HIDE DEF s
    <2>3. from + 1 \in Int /\ to \in Int /\ from + 1 <= to
        BY <1>1
    <2>4. /\ SubSeq(s, from + 1, to) \in Seq(Byte)
          /\ Len(SubSeq(s, from + 1, to)) = IF from + 1 <= to THEN to - (from + 1) + 1 ELSE 0
        BY <2>2, <2>3, SubSeqProperties
    <2>5. QED
        BY <1>1, <2>3, <2>4 DEF s
<1>3. frame \in FrameSet
    BY <1>2, FramesMade DEF IInv
<1>4. Put(frame)
    BY DEF Relay
<1>5. /\ inFlight' \in Seq(FrameSet) /\ Len(inFlight') <= MaxInFlight /\ InStep'
      /\ \A e \in Direction :
            FlatMap(inFlight', Carried(e)) = FlatMap(inFlight, Carried(e)) \o Carried(e)[frame]
    BY <1>3, <1>4, PutStep DEF IInv
<1>6. /\ relayed' = [relayed EXCEPT ![d] = to] /\ torn' \in BOOLEAN
      /\ UNCHANGED <<sent, stage, parsing, buffer, call, pieces>>
    BY DEF Relay, IInv, Typed
<1>7. frame.type = "data" /\ frame.dir = d /\ frame.data = data
    BY DEF NewDataFrame
<1> HIDE DEF frame, data
<1>8. Typed'
    BY <1>1, <1>5, <1>6 DEF IInv, Typed
<1>9. Accounted'
    <2>1. SUFFICES ASSUME NEW e \in Direction
                   PROVE  /\ relayed'[e] <= Len(Stream(e)')
                          /\ SubSeq(Stream(e)', 1, relayed'[e]) = Account(Ledger(e)')
        BY DEF Accounted
    <2>2. Stream(e)' = Stream(e) /\ InCall(e)' = InCall(e) /\ buffer' = buffer /\ pieces' = pieces
        BY <1>6 DEF Stream, InCall
    <2> DEFINE k == Ledger(e)
               l == Ledger(e)'
               x == Carried(e)[frame]
    <2>3. /\ l.taken = k.taken /\ l.running = k.running /\ l.held = k.held
          /\ l.flying = k.flying \o x
        BY <1>5, <2>2 DEF Ledger
    <2>4. /\ k \in Ledgers /\ relayed[e] <= Len(Stream(e))
          /\ SubSeq(Stream(e), 1, relayed[e]) = Account(k)
        BY PartsType DEF IInv, Accounted
    <2> HIDE DEF k, l
    <2>5. CASE e = d
        <3>1. x = data
            BY <1>3, <1>7, <2>5 DEF Carried
        <3>2. SubSeq(Stream(e), 1, from) \o data = SubSeq(Stream(e), 1, to)
            <4> DEFINE s == Stream(e)
            <4>1. s \in Seq(Byte) /\ 1 \in 1 .. Len(s) + 1 /\ from \in 1 - 1 .. Len(s)
                  /\ to \in from .. Len(s)
                BY <1>1, <2>5
            <4> HIDE DEF s
            <4>2. SubSeq(s, 1, from) \o SubSeq(s, from + 1, to) = SubSeq(s, 1, to)
                BY <4>1, ConcatAdjacentSubSeq
            <4>3. QED
                BY <2>5, <4>2 DEF s, data
        <3>3. relayed'[e] = to /\ relayed[e] = from
            BY <1>6, <2>5 DEF IInv, Typed
        <3>4. Account(l) = Account(k) \o data
            BY <1>2, <2>3, <2>4, <3>1, MoveIn
        <3>5. to <= Len(Stream(e))
            BY <1>1, <2>5
        <3> HIDE DEF from, to, x
        <3>6. SubSeq(Stream(e), 1, to) = Account(l)
            BY <2>4, <3>2, <3>3, <3>4
        <3>7. QED
            BY <2>2, <3>3, <3>5, <3>6 DEF l
    <2>6. CASE e # d
        <3>1. x = <<>>
            BY <1>3, <1>7, <2>6 DEF Carried
        <3>2. k.flying \o <<>> = k.flying
            BY <2>4, ConcatEmptySeq DEF Ledgers
        <3>3. Account(l) = Account(k)
            BY <2>3, <3>1, <3>2 DEF Account
        <3>4. relayed'[e] = relayed[e]
            BY <1>6, <2>6 DEF IInv, Typed
        <3>5. QED
            BY <2>2, <2>4, <3>3, <3>4 DEF l
    <2>7. QED
        BY <2>5, <2>6
<1>10. Calling'
    BY <1>6 DEF IInv, Calling
<1>11. QED
    BY <1>5, <1>8, <1>9, <1>10 DEF IInv
-----------------------------------------------------------------------------
(* The Analyzer's steps.                                                   *)

\* The bytes on the socket start with those of the oldest frame in flight.
LEMMA OldestFirst ==
    ASSUME Typed, InStep, inFlight # <<>>
    PROVE  /\ Head(inFlight) \in FrameSet /\ Tail(inFlight) \in Seq(FrameSet)
           /\ Readable(socket) /\ Recognized(socket)
           /\ DecodeFrame(socket) = Head(inFlight)
           /\ AfterFrame(socket) = FlatMap(Tail(inFlight), Coded)
<1> DEFINE f    == Head(inFlight)
           rest == FlatMap(Tail(inFlight), Coded)
<1>1. inFlight \in Seq(FrameSet) /\ Coded \in [FrameSet -> Seq(Byte)]
    BY Maps DEF Typed
<1>2. /\ f \in FrameSet /\ Tail(inFlight) \in Seq(FrameSet)
      /\ FlatMap(inFlight, Coded) = Coded[f] \o rest
    BY <1>1, FlatMapCons
<1>3. rest \in Seq(Byte)
    BY <1>1, <1>2, FlatMapType
<1>4. socket = Encode(f) \o rest
    BY <1>2 DEF InStep, Coded
<1> HIDE DEF f, rest
<1>5. /\ Readable(Encode(f) \o rest) /\ Recognized(Encode(f) \o rest)
      /\ DecodeFrame(Encode(f) \o rest) = f /\ AfterFrame(Encode(f) \o rest) = rest
    BY <1>2, <1>3, FrameRoundTrip
<1>6. QED
    BY <1>2, <1>4, <1>5 DEF f, rest

LEMMA ReceiveStep == ASSUME IInv, ReceiveFrame PROVE IInv'
<1> DEFINE f == Head(inFlight)
           t == Tail(inFlight)
<1>1. inFlight # <<>>
    <2>1. SUFFICES ASSUME inFlight = <<>> PROVE FALSE
        OBVIOUS
    <2>2. socket = <<>>
        BY <2>1, FlatMapEmpty DEF IInv, InStep
    <2>3. Len(socket) >= 7
        BY DEF ReceiveFrame, Readable
    <2>4. Len(<<>>) = 0
        OBVIOUS
    <2>5. QED
        BY <2>2, <2>3, <2>4
<1>2. /\ f \in FrameSet /\ t \in Seq(FrameSet)
      /\ DecodeFrame(socket) = f /\ AfterFrame(socket) = FlatMap(t, Coded)
    BY <1>1, OldestFirst DEF IInv
<1>3. f.dir \in Direction /\ f.data \in Seq(Byte) /\ f.type \in DOMAIN FrameType
    BY <1>2 DEF FrameSet
<1>4. /\ parsing = "none" /\ call = <<>>
      /\ socket' = FlatMap(t, Coded) /\ inFlight' = t
      /\ UNCHANGED <<sent, relayed, stage, call, pieces>>
    BY <1>2 DEF ReceiveFrame, IInv, Calling
<1>5. IF f.type = "data"
         THEN parsing' = f.dir /\ buffer' = [buffer EXCEPT ![f.dir] = @ \o f.data]
         ELSE UNCHANGED <<parsing, buffer>>
    BY <1>2 DEF ReceiveFrame, ToRawChunk
<1>6. ASSUME NEW e \in Direction
      PROVE  Carried(e)[f] \in Seq(Byte) /\ buffer'[e] = buffer[e] \o Carried(e)[f]
    <2>1. Carried(e)[f] = IF f.type = "data" /\ f.dir = e THEN f.data ELSE <<>>
        BY <1>2 DEF Carried
    <2>2. buffer \in [Direction -> Seq(Byte)]
        BY DEF IInv, Typed
    <2>3. CASE f.type = "data" /\ f.dir = e
        BY <1>3, <1>5, <2>1, <2>2, <2>3
    <2>4. CASE ~(f.type = "data" /\ f.dir = e)
        <3>1. Carried(e)[f] = <<>> /\ <<>> \in Seq(Byte)
            BY <2>1, <2>4, EmptySeq
        <3>2. buffer'[e] = buffer[e]
            BY <1>3, <1>5, <2>2, <2>4
        <3>3. buffer[e] \o <<>> = buffer[e]
            BY <2>2, ConcatEmptySeq
        <3>4. QED
            BY <3>1, <3>2, <3>3
    <2>5. QED
        BY <2>3, <2>4
<1>7. Typed'
    <2>1. t \in Seq(FrameSet) /\ Len(t) <= MaxInFlight
        <3>1. /\ inFlight \in Seq(FrameSet) /\ Len(inFlight) <= MaxInFlight
              /\ Len(inFlight) \in Nat /\ MaxInFlight \in Nat
            BY WireAssumption, LenProperties DEF IInv, Typed
        <3>2. Len(t) = Len(inFlight) - 1
            BY <1>1, <3>1, HeadTailProperties
        <3>3. QED
            BY <1>2, <3>1, <3>2
    <2>2. parsing' \in Direction \cup {"none"}
        BY <1>3, <1>4, <1>5
    <2>3. buffer' \in [Direction -> Seq(Byte)]
        <3>1. buffer \in [Direction -> Seq(Byte)] /\ buffer[f.dir] \o f.data \in Seq(Byte)
            BY <1>3, ConcatProperties DEF IInv, Typed
        <3>2. QED
            BY <1>3, <1>5, <3>1
    <2>4. torn' \in BOOLEAN
        BY <1>2 DEF ReceiveFrame, ToRawChunk, IInv, Typed
    <2> HIDE DEF t
    <2>5. QED
        BY <1>4, <2>1, <2>2, <2>3, <2>4 DEF IInv, Typed
<1>8. InStep'
    BY <1>4 DEF InStep
<1>9. Accounted'
    <2>1. SUFFICES ASSUME NEW e \in Direction
                   PROVE  Account(Ledger(e)') = Account(Ledger(e)) /\ Stream(e)' = Stream(e)
        BY <1>4 DEF IInv, Accounted
    <2> DEFINE k == Ledger(e)
               l == Ledger(e)'
               x == Carried(e)[f]
               y == FlatMap(t, Carried(e))
    <2>2. Stream(e)' = Stream(e)
        BY <1>4 DEF Stream
    <2>3. InCall(e) = <<>> /\ InCall(e)' = <<>>
        <3>1. FlatMap(<<>>, BytesOf) = <<>> /\ call' = <<>>
            BY <1>4, FlatMapEmpty
        <3>2. QED
            BY <1>4, <3>1 DEF InCall
    <2>4. FlatMap(inFlight, Carried(e)) = x \o y /\ y \in Seq(Byte)
        <3>1. inFlight \in Seq(FrameSet) /\ Carried(e) \in [FrameSet -> Seq(Byte)]
            BY Maps DEF IInv, Typed
        <3>2. FlatMap(inFlight, Carried(e)) = x \o y
            BY <1>1, <3>1, FlatMapCons
        <3>3. y \in Seq(Byte)
            BY <1>2, <3>1, FlatMapType
        <3>4. QED
            BY <3>2, <3>3
    <2>5. x \in Seq(Byte) /\ buffer'[e] = buffer[e] \o x
        BY <1>6
    <2>6. /\ k \in Ledgers /\ k.flying = x \o y
          /\ l.taken = k.taken /\ l.running = k.running /\ l.held = k.held \o x /\ l.flying = y
        BY <1>4, <2>3, <2>4, <2>5, PartsType DEF IInv, Ledger
    <2> HIDE DEF k, l, x, y
    <2>7. Account(l) = Account(k)
        BY <2>4, <2>5, <2>6, MoveOn
    <2>8. QED
        BY <2>2, <2>7 DEF k, l
<1>10. Calling'
    BY <1>4 DEF IInv, Calling
<1>11. QED
    BY <1>7, <1>8, <1>9, <1>10 DEF IInv

\* What tryParsePackets takes off its buffer goes to the running call.
LEMMA TakeStep ==
    ASSUME IInv, NEW d \in Direction, parsing = d, NEW qs \in Seq(PieceType), NEW y \in Seq(Byte),
           buffer[d] = FlatMap(qs, BytesOf) \o y,
           \A i \in DOMAIN qs : qs[i].what = "packet" => qs[i].bytes # <<>>,
           call' = call \o qs, buffer' = [buffer EXCEPT ![d] = y],
           UNCHANGED <<sent, relayed, stage, socket, inFlight, parsing, pieces, torn>>
    PROVE  IInv'
<1>1. call \in Seq(PieceType) /\ buffer \in [Direction -> Seq(Byte)]
    BY DEF IInv, Typed
<1>2. BytesOf \in [PieceType -> Seq(Byte)]
    BY Maps
<1>3. call' \in Seq(PieceType) /\ FlatMap(call', BytesOf) = FlatMap(call, BytesOf) \o FlatMap(qs, BytesOf)
    <2>1. \A u, v \in Seq(PieceType) : FlatMap(u \o v, BytesOf) = FlatMap(u, BytesOf) \o FlatMap(v, BytesOf)
        BY <1>2, FlatMapJoin
    <2>2. FlatMap(call \o qs, BytesOf) = FlatMap(call, BytesOf) \o FlatMap(qs, BytesOf)
        BY <1>1, <2>1
    <2>3. call \o qs \in Seq(PieceType)
        BY <1>1, ConcatProperties
    <2>4. QED
        BY <2>2, <2>3
<1>4. Typed'
    BY <1>1, <1>3 DEF IInv, Typed
<1>5. InStep'
    BY DEF IInv, InStep
<1>6. Accounted'
    <2>1. SUFFICES ASSUME NEW e \in Direction
                   PROVE  Account(Ledger(e)') = Account(Ledger(e)) /\ Stream(e)' = Stream(e)
        BY DEF IInv, Accounted
    <2> DEFINE k == Ledger(e)
               l == Ledger(e)'
               x == FlatMap(qs, BytesOf)
    <2>2. Stream(e)' = Stream(e)
        BY DEF Stream
    <2>3. CASE e = d
        <3>1. x \in Seq(Byte)
            BY <1>2, FlatMapType
        <3>2. k \in Ledgers
            BY PartsType DEF IInv
        <3>3. InCall(e) = FlatMap(call, BytesOf) /\ InCall(e)' = FlatMap(call, BytesOf) \o x
            BY <1>3, <2>3 DEF InCall
        <3>4. buffer'[e] = y /\ buffer[e] = x \o y
            BY <1>1, <2>3
        <3>5. /\ k.held = x \o y /\ l.taken = k.taken /\ l.running = k.running \o x
              /\ l.held = y /\ l.flying = k.flying
            BY <3>3, <3>4 DEF Ledger
        <3> HIDE DEF k, l, x
        <3>6. Account(l) = Account(k)
            BY <3>1, <3>2, <3>5, MoveOut
        <3>7. QED
            BY <2>2, <3>6 DEF k, l
    <2>4. CASE e # d
        <3>1. InCall(e) = <<>> /\ InCall(e)' = <<>>
            BY <2>4 DEF InCall
        <3>2. buffer'[e] = buffer[e]
            BY <1>1, <2>4
        <3>3. l = k
            BY <3>1, <3>2 DEF Ledger
        <3>4. QED
            BY <2>2, <3>3
    <2>5. QED
        BY <2>3, <2>4
<1>7. Calling'
    <2>1. \A i \in DOMAIN call' : call'[i].what = "packet" => call'[i].bytes # <<>>
        <3>1. /\ Len(call) \in Nat /\ DOMAIN call = 1 .. Len(call)
              /\ Len(qs) \in Nat /\ DOMAIN qs = 1 .. Len(qs)
              /\ DOMAIN call' = 1 .. Len(call')
            BY <1>1, <1>3, LenProperties
        <3>2. /\ Len(call') = Len(call) + Len(qs)
              /\ \A i \in 1 .. Len(call) + Len(qs) :
                    call'[i] = IF i <= Len(call) THEN call[i] ELSE qs[i - Len(call)]
            BY <1>1, ConcatProperties
        <3>3. ASSUME NEW i \in 1 .. Len(call) + Len(qs)
              PROVE  call'[i].what = "packet" => call'[i].bytes # <<>>
            <4>1. CASE i <= Len(call)
                <5>1. i \in DOMAIN call /\ call'[i] = call[i]
                    BY <3>1, <3>2, <3>3, <4>1
                <5>2. QED
                    BY <5>1 DEF IInv, Calling
            <4>2. CASE ~(i <= Len(call))
                <5>1. i - Len(call) \in DOMAIN qs /\ call'[i] = qs[i - Len(call)]
                    BY <3>1, <3>2, <3>3, <4>2
                <5>2. QED
                    BY <5>1
            <4>3. QED
                BY <4>1, <4>2
        <3>4. QED
            BY <3>1, <3>2, <3>3
    <2>2. parsing' # "none"
        BY DEF Direction
    <2>3. QED
        BY <2>1, <2>2 DEF Calling
<1>8. QED
    BY <1>4, <1>5, <1>6, <1>7 DEF IInv

LEMMA SkipStep == ASSUME IInv, NEW d \in Direction, SkipByte(d) PROVE IInv'
<1> DEFINE b  == buffer[d]
           p  == Piece("skip", <<Head(b)>>)
           qs == <<p>>
<1>1. b \in Seq(Byte) /\ call \in Seq(PieceType) /\ b # <<>>
    <2>1. Len(b) >= 2
        BY DEF SkipByte
    <2>2. QED
        BY <2>1 DEF IInv, Typed
<1>2. /\ Head(b) \in Byte /\ Tail(b) \in Seq(Byte) /\ b = <<Head(b)>> \o Tail(b)
    BY <1>1, HeadFirst
<1>3. p \in PieceType /\ p.bytes = <<Head(b)>> /\ p.what = "skip"
    BY <1>2 DEF Piece, PieceType
<1>4. FlatMap(qs, BytesOf) = <<Head(b)>>
    <2>1. BytesOf[p] = <<Head(b)>>
        BY <1>3 DEF BytesOf
    <2>2. p \in PieceType /\ BytesOf \in [PieceType -> Seq(Byte)]
        BY <1>3, Maps
    <2> HIDE DEF p
    <2>3. FlatMap(<<p>>, BytesOf) = BytesOf[p]
        BY <2>2, FlatMapOne
    <2>4. QED
        BY <2>1, <2>3
<1>5. /\ parsing = d /\ buffer' = [buffer EXCEPT ![d] = Tail(b)] /\ call' = Append(call, p)
      /\ UNCHANGED <<sent, relayed, stage, socket, inFlight, parsing, pieces, torn>>
    BY DEF SkipByte
<1> HIDE DEF b, p
<1>6. call' = call \o qs /\ qs \in Seq(PieceType)
    BY <1>1, <1>3, <1>5, AppendIsConcat
<1>7. \A i \in DOMAIN qs : qs[i].what = "packet" => qs[i].bytes # <<>>
    BY <1>3
<1>8. buffer[d] = FlatMap(qs, BytesOf) \o Tail(b)
    BY <1>2, <1>4 DEF b
<1> HIDE DEF qs
<1>9. QED
    BY <1>2, <1>5, <1>6, <1>7, <1>8, TakeStep

\* A set of numbers that is not empty has a least one.
LEMMA Least ==
    ASSUME NEW T, T \subseteq Nat, T # {}
    PROVE  \E n \in T : \A k \in T : n <= k
<1>1. PICK n \in T : \A k \in T : <<k, n>> \notin OpToRel(<, Nat)
    BY NatLessThanWellFounded, WFMin
<1>2. \A k \in T : ~(k < n)
    BY <1>1 DEF OpToRel
<1>3. \A k \in T : k \in Nat
    OBVIOUS
<1>4. \A k \in T : n <= k
    BY <1>2, <1>3
<1>5. QED
    BY <1>4

\* The size of a packet that is complete is within the buffer.
LEMMA Measured ==
    ASSUME NEW d \in Direction, NEW buf \in Seq(Byte), Starts(d, buf),
           Measure(SpecOf(d, buf), buf).valid, Measure(SpecOf(d, buf), buf).size >= 0
    PROVE  Measure(SpecOf(d, buf), buf).size \in 1 .. Len(buf)
<1> DEFINE spec == SpecOf(d, buf)
           m    == Measure(spec, buf)
<1>1. /\ spec.type \in {"fixed", "fixedMin", "indicated", "unknown", "http"} /\ spec.type # "unknown"
      /\ spec.size \in Int /\ (spec.size >= 2 \/ spec.size = -1)
    <2>1. PacketDatabase(d) \in {Receive, Send} /\ Opcode(buf) \in DOMAIN PacketDatabase(d)
        BY DEF PacketDatabase, Starts
    <2>2. spec \in PacketSpec /\ (spec.size >= 2 \/ spec.size = -1)
        BY <2>1, WireAssumption DEF SpecOf
    <2>3. spec.type # "unknown"
        BY DEF Starts, SpecOf
    <2>4. QED
        BY <2>2, <2>3 DEF PacketSpec
<1>2. Len(buf) \in Nat /\ m.valid /\ m.size >= 0
    BY LenProperties
<1> SUFFICES m.size \in 1 .. Len(buf)
    OBVIOUS
<1> HIDE DEF spec, m
<1>3. CASE spec.type \in {"fixed", "fixedMin"}
    <2>1. m = [size |-> spec.size, valid |-> Len(buf) >= spec.size]
        BY <1>3 DEF Measure, m
    <2>2. m.size = spec.size /\ m.valid = (Len(buf) >= spec.size)
        BY <2>1
    <2>3. Len(buf) >= spec.size /\ spec.size >= 0
        BY <1>2, <2>2
    <2>4. spec.size \in 1 .. Len(buf)
        BY <1>1, <1>2, <2>3
    <2>5. QED
        BY <2>2, <2>4
<1>4. CASE spec.type = "indicated"
    <2>1. m = [size |-> IF Len(buf) >= 4 THEN Indicated(buf) ELSE 0,
               valid |-> Len(buf) >= 4 /\ Len(buf) >= Indicated(buf)]
        BY <1>4 DEF Measure, m
    <2>2. Len(buf) >= 4 /\ Len(buf) >= Indicated(buf) /\ m.size = Indicated(buf)
        BY <1>2, <2>1
    <2>3. Indicated(buf) \in Int /\ Indicated(buf) >= 2
        <3> DEFINE n == Uint16(SubSeq(buf, 3, 4))
        <3>1. n \in Int
            <4>1. buf[3] \in Byte /\ buf[4] \in Byte
                <5>1. 3 \in 1 .. Len(buf) /\ 4 \in 1 .. Len(buf)
                    BY <1>2, <2>2
                <5>2. QED
                    BY <5>1, ElementOfSeq
            <4>2. SubSeq(buf, 3, 4)[1] = buf[3] /\ SubSeq(buf, 3, 4)[2] = buf[4]
                OBVIOUS
            <4>3. n = buf[3] + Radix * buf[4]
                BY <4>2 DEF Uint16
            <4>4. Radix \in Nat
                BY Sizes
            <4>5. QED
                BY <4>1, <4>3, <4>4 DEF Byte
        <3> HIDE DEF n
        <3>2. Indicated(buf) = IF n < 2 THEN 2 ELSE n
            BY DEF Indicated, n
        <3>3. QED
            BY <3>1, <3>2
    <2>4. QED
        BY <1>2, <2>2, <2>3
<1>5. CASE spec.type = "http"
    <2>1. m = [size |-> HTTPSize(buf), valid |-> HTTPSize(buf) > 0]
        BY <1>5 DEF Measure, m
    <2> DEFINE Ends == {i \in Len(Delimiter) .. Len(buf) :
                           SubSeq(buf, i - Len(Delimiter) + 1, i) = Delimiter}
    <2>2. HTTPSize(buf) = IF Ends = {} THEN 0 ELSE CHOOSE i \in Ends : \A j \in Ends : i <= j
        BY DEF HTTPSize
    <2>3. HTTPSize(buf) > 0
        BY <1>2, <2>1
    <2>4. Ends # {}
        BY <2>2, <2>3
    <2>5. Ends \subseteq Nat /\ Ends \subseteq 0 .. Len(buf)
        <3>1. Len(Delimiter) \in Nat
            BY WireAssumption, LenProperties
        <3>2. QED
            BY <1>2, <3>1
    <2> HIDE DEF Ends
    <2>6. HTTPSize(buf) \in Ends
        BY <2>2, <2>4, <2>5, Least
    <2>7. QED
        <3>1. HTTPSize(buf) \in 0 .. Len(buf)
            BY <2>5, <2>6
        <3>2. HTTPSize(buf) \in 1 .. Len(buf)
            BY <1>2, <2>3, <3>1
        <3>3. m.size = HTTPSize(buf)
            BY <2>1
        <3>4. QED
            BY <3>2, <3>3
<1>6. QED
    BY <1>1, <1>3, <1>4, <1>5

\* A sequence of bytes is its two parts, wherever it is cut.
LEMMA CutAt ==
    ASSUME NEW b \in Seq(Byte), NEW n \in 0 .. Len(b)
    PROVE  /\ SubSeq(b, 1, n) \in Seq(Byte) /\ Len(SubSeq(b, 1, n)) = n
           /\ SubSeq(b, n + 1, Len(b)) \in Seq(Byte)
           /\ b = SubSeq(b, 1, n) \o SubSeq(b, n + 1, Len(b))
<1> DEFINE L == Len(b)
<1>1. L \in Nat /\ n \in Nat /\ n <= L
    BY LenProperties
<1>2. \A i \in 1 .. L : b[i] \in Byte
    BY ElementOfSeq
<1> DEFINE m == n + 1
<1>3. (\A i \in 1 .. n : b[i] \in Byte) /\ \A i \in m .. L : b[i] \in Byte
    BY <1>1, <1>2
<1>4. m \in Int /\ L \in Int /\ n \in Int /\ 1 \in Int /\ n - 1 + 1 = n /\ (1 <= n \/ n = 0)
    BY <1>1
<1> HIDE DEF L, m
<1>5. /\ SubSeq(b, 1, n) \in Seq(Byte)
      /\ Len(SubSeq(b, 1, n)) = IF 1 <= n THEN n - 1 + 1 ELSE 0
    BY <1>3, <1>4, SubSeqProperties
<1>6. SubSeq(b, m, L) \in Seq(Byte)
    BY <1>3, <1>4, SubSeqProperties
<1>7. Len(SubSeq(b, 1, n)) = n
    BY <1>1, <1>4, <1>5
<1>8. SubSeq(b, 1, n) \o SubSeq(b, n + 1, L) = SubSeq(b, 1, L)
    <2>1. 1 \in 1 .. Len(b) + 1 /\ n \in 1 - 1 .. Len(b) /\ L \in n .. Len(b)
        BY <1>1 DEF L
    <2>2. QED
        BY <2>1, ConcatAdjacentSubSeq
<1>9. SubSeq(b, 1, L) = b
    BY SubSeqFull DEF L
<1>10. QED
    BY <1>5, <1>6, <1>7, <1>8, <1>9 DEF L, m

LEMMA TwoPieces ==
    ASSUME NEW p \in PieceType, NEW q \in PieceType
    PROVE  <<p, q>> \in Seq(PieceType) /\ FlatMap(<<p, q>>, BytesOf) = BytesOf[p] \o BytesOf[q]
<1> DEFINE ps == <<p, q>>
<1>1. ps \in Seq(PieceType)
    <2>1. ps \in [1 .. 2 -> PieceType]
        OBVIOUS
    <2>2. QED
        BY <2>1
<1>2. ps # <<>> /\ Head(ps) = p /\ Tail(ps) = <<q>>
    <2>1. Len(ps) = 2 /\ ps[1] = p /\ ps[2] = q
        OBVIOUS
    <2>2. Len(<<>>) = 0
        OBVIOUS
    <2>3. Tail(ps) = <<q>>
        OBVIOUS
    <2>4. QED
        BY <2>1, <2>2, <2>3
<1>3. BytesOf \in [PieceType -> Seq(Byte)]
    BY Maps
<1>4. FlatMap(<<q>>, BytesOf) = BytesOf[q]
    BY <1>3, FlatMapOne
<1> HIDE DEF ps
<1>5. FlatMap(ps, BytesOf) = BytesOf[Head(ps)] \o FlatMap(Tail(ps), BytesOf)
    <2>1. ps # <<>>
        BY <1>2
    <2>2. QED
        BY <1>1, <1>3, <2>1, FlatMapCons
<1>6. QED
    BY <1>1, <1>2, <1>4, <1>5 DEF ps

LEMMA PacketStep == ASSUME IInv, NEW d \in Direction, TakePacket(d) PROVE IInv'
<1> DEFINE buf  == buffer[d]
           n    == Measure(SpecOf(d, buf), buf).size
           rest == SubSeq(buf, n + 1, Len(buf))
           c    == IF HasChecksum(d, rest) THEN 1 ELSE 0
           sum  == SubSeq(rest, 1, c)
           left == SubSeq(rest, Len(sum) + 1, Len(rest))
           head == SubSeq(buf, 1, n)
           p    == Piece("packet", head)
           q    == Piece("sum", sum)
           qs   == <<p, q>>
<1>1. buf \in Seq(Byte) /\ call \in Seq(PieceType)
    BY DEF IInv, Typed
<1>2. n \in 1 .. Len(buf) /\ Len(buf) \in Nat
    <2>1. /\ Starts(d, buf) /\ Measure(SpecOf(d, buf), buf).valid
          /\ Measure(SpecOf(d, buf), buf).size >= 0
        BY DEF TakePacket
    <2>2. QED
        BY <1>1, <2>1, Measured, LenProperties
<1>3. /\ parsing = d /\ buffer' = [buffer EXCEPT ![d] = left] /\ call' = call \o qs
      /\ UNCHANGED <<sent, relayed, stage, socket, inFlight, parsing, pieces, torn>>
    BY DEF TakePacket
<1> HIDE DEF n
<1>4. /\ head \in Seq(Byte) /\ Len(head) = n /\ rest \in Seq(Byte) /\ buf = head \o rest
    <2>1. n \in 0 .. Len(buf)
        BY <1>2
    <2> DEFINE b == buf
    <2> HIDE DEF b
    <2>2. b \in Seq(Byte) /\ n \in 0 .. Len(b)
        BY <1>1, <2>1 DEF b
    <2>3. /\ SubSeq(b, 1, n) \in Seq(Byte) /\ Len(SubSeq(b, 1, n)) = n
          /\ SubSeq(b, n + 1, Len(b)) \in Seq(Byte)
          /\ b = SubSeq(b, 1, n) \o SubSeq(b, n + 1, Len(b))
        BY <2>2, CutAt
    <2>4. QED
        BY <2>3 DEF b
<1>5. head # <<>>
    <2>1. n # 0
        BY <1>2
    <2>2. QED
        BY <1>4, <2>1, EmptySeq
<1> HIDE DEF rest, head
<1>6. c \in 0 .. Len(rest)
    <2>1. Len(rest) \in Nat
        BY <1>4, LenProperties
    <2>2. HasChecksum(d, rest) => Len(rest) >= 1
        BY <2>1 DEF HasChecksum
    <2>3. QED
        BY <2>1, <2>2
<1> HIDE DEF c
<1>7. sum \in Seq(Byte) /\ left \in Seq(Byte) /\ rest = sum \o left
    <2>1. rest \in Seq(Byte)
        BY <1>4
    <2>2. /\ SubSeq(rest, 1, c) \in Seq(Byte) /\ Len(SubSeq(rest, 1, c)) = c
          /\ SubSeq(rest, c + 1, Len(rest)) \in Seq(Byte)
          /\ rest = SubSeq(rest, 1, c) \o SubSeq(rest, c + 1, Len(rest))
        BY <1>6, <2>1, CutAt
    <2>3. QED
        BY <2>2
<1> HIDE DEF sum, left
<1>8. /\ p \in PieceType /\ p.bytes = head /\ p.what = "packet"
      /\ q \in PieceType /\ q.bytes = sum /\ q.what = "sum"
    BY <1>4, <1>7 DEF Piece, PieceType
<1>9. BytesOf[p] = head /\ BytesOf[q] = sum
    BY <1>8 DEF BytesOf
<1> HIDE DEF p, q
<1>10. qs \in Seq(PieceType) /\ FlatMap(qs, BytesOf) = head \o sum
    <2>1. p \in PieceType /\ q \in PieceType
        BY <1>8
    <2>2. <<p, q>> \in Seq(PieceType) /\ FlatMap(<<p, q>>, BytesOf) = BytesOf[p] \o BytesOf[q]
        BY <2>1, TwoPieces
    <2>3. QED
        BY <1>9, <2>2
<1>11. buffer[d] = FlatMap(qs, BytesOf) \o left
    <2>1. \A u \in Seq(Byte) : (u \o sum) \o left = u \o (sum \o left)
        <3>1. sum \in Seq(Byte)
            BY <1>7
        <3>2. left \in Seq(Byte)
            BY <1>7
        <3>3. QED
            BY <3>1, <3>2, BytesAssociate
    <2>2. (head \o sum) \o left = head \o (sum \o left)
        BY <1>4, <2>1
    <2>3. QED
        BY <1>4, <1>7, <1>10, <2>2
<1>12. \A i \in DOMAIN qs : qs[i].what = "packet" => qs[i].bytes # <<>>
    BY <1>5, <1>8
<1> HIDE DEF qs
<1>13. QED
    BY <1>3, <1>7, <1>10, <1>11, <1>12, TakeStep

\* Pieces that are lost keep their bytes.
LostOf(ps) == [i \in DOMAIN ps |-> Piece("lost", ps[i].bytes)]

LEMMA LostBytes ==
    ASSUME NEW ps \in Seq(PieceType)
    PROVE  LostOf(ps) \in Seq(PieceType) /\ FlatMap(LostOf(ps), BytesOf) = FlatMap(ps, BytesOf)
<1> DEFINE qs == LostOf(ps)
           n  == Len(ps)
<1>1. n \in Nat /\ DOMAIN ps = 1 .. n /\ \A i \in 1 .. n : ps[i] \in PieceType
    BY LenProperties, ElementOfSeq
<1> HIDE DEF n
<1>2. \A i \in 1 .. n : Piece("lost", ps[i].bytes) \in PieceType
    BY <1>1 DEF Piece, PieceType
<1>3. qs = [i \in 1 .. n |-> Piece("lost", ps[i].bytes)]
    BY <1>1 DEF LostOf
<1>4. qs \in [1 .. n -> PieceType] /\ DOMAIN qs = DOMAIN ps
    BY <1>1, <1>2, <1>3
<1>5. qs \in Seq(PieceType)
    BY <1>1, <1>4
<1>6. ASSUME NEW i \in DOMAIN ps PROVE BytesOf[qs[i]] = BytesOf[ps[i]]
    <2>1. ps[i] \in PieceType /\ qs[i] = Piece("lost", ps[i].bytes) /\ qs[i] \in PieceType
        BY <1>1, <1>2, <1>3
    <2>2. qs[i].bytes = ps[i].bytes
        BY <2>1 DEF Piece
    <2>3. QED
        BY <2>1, <2>2 DEF BytesOf
<1> HIDE DEF qs
<1>7. Mapped(qs, BytesOf) = Mapped(ps, BytesOf)
    BY <1>4, <1>6 DEF Mapped
<1>8. QED
    BY <1>5, <1>7 DEF FlatMap, qs

\* A call that ends leaves what it took, or the panic loses it, with the buffers.
LEMMA PanicStep == ASSUME IInv, NEW d \in Direction, Panic(d) PROVE IInv'
<1>1. /\ call \in Seq(PieceType) /\ buffer \in [Direction -> Seq(Byte)]
      /\ pieces \in [Direction -> Seq(PieceType)]
    BY DEF IInv, Typed
<1> DEFINE lost(e) == IF e = d THEN LostOf(call) ELSE <<>>
           rest(e) == Piece("lost", buffer[e])
<1>2. /\ parsing = d /\ call' = <<>> /\ parsing' = "none"
      /\ pieces' = [e \in Direction |-> pieces[e] \o lost(e) \o <<rest(e)>>]
      /\ buffer' = [e \in Direction |-> <<>>]
      /\ UNCHANGED <<sent, relayed, stage, socket, inFlight, torn>>
    BY DEF Panic, LostOf
<1>3. BytesOf \in [PieceType -> Seq(Byte)]
    BY Maps
<1>4. ASSUME NEW e \in Direction
      PROVE  /\ pieces'[e] \in Seq(PieceType)
             /\ FlatMap(pieces'[e], BytesOf) =
                   (FlatMap(pieces[e], BytesOf) \o InCall(e)) \o buffer[e]
    <2> DEFINE u == pieces[e]
               v == lost(e)
               w == rest(e)
    <2>1. u \in Seq(PieceType)
        BY <1>1
    <2>2. v \in Seq(PieceType) /\ FlatMap(v, BytesOf) = InCall(e)
        <3>1. CASE e = d
            BY <1>1, <1>2, <3>1, LostBytes DEF InCall
        <3>2. CASE e # d
            BY <1>2, <3>2, FlatMapEmpty, EmptySeq DEF InCall
        <3>3. QED
            BY <3>1, <3>2
    <2>3. w \in PieceType /\ BytesOf[w] = buffer[e]
        <3>1. w \in PieceType /\ w.bytes = buffer[e]
            BY <1>1 DEF Piece, PieceType
        <3>2. QED
            BY <3>1 DEF BytesOf
    <2>4. pieces'[e] = (u \o v) \o <<w>>
        BY <1>2
    <2> HIDE DEF u, v, w
    <2>5. u \o v \in Seq(PieceType)
        BY <2>1, <2>2, ConcatProperties
    <2>6. FlatMap(u \o v, BytesOf) = FlatMap(u, BytesOf) \o FlatMap(v, BytesOf)
        <3>1. \A x, y \in Seq(PieceType) :
                 FlatMap(x \o y, BytesOf) = FlatMap(x, BytesOf) \o FlatMap(y, BytesOf)
            BY <1>3, FlatMapJoin
        <3>2. QED
            BY <2>1, <2>2, <3>1
    <2>7. FlatMap((u \o v) \o <<w>>, BytesOf) = FlatMap(u \o v, BytesOf) \o BytesOf[w]
        <3> DEFINE x == u \o v
        <3>1. x \in Seq(PieceType) /\ w \in PieceType
            BY <2>3, <2>5
        <3> HIDE DEF x
        <3>2. FlatMap(x \o <<w>>, BytesOf) = FlatMap(x, BytesOf) \o BytesOf[w]
            BY <1>3, <3>1, FlatMapSnoc
        <3>3. QED
            BY <3>2 DEF x
    <2>8. (u \o v) \o <<w>> \in Seq(PieceType)
        <3>1. <<w>> \in Seq(PieceType)
            BY <2>3
        <3>2. QED
            BY <2>5, <3>1, ConcatProperties
    <2>9. QED
        BY <2>2, <2>3, <2>4, <2>6, <2>7, <2>8 DEF u
<1>5. Typed'
    <2>1. buffer' \in [Direction -> Seq(Byte)]
        BY <1>2, EmptySeq
    <2>2. pieces' \in [Direction -> Seq(PieceType)]
        <3>1. \A e \in Direction : pieces'[e] \in Seq(PieceType)
            BY <1>4
        <3>2. DOMAIN pieces' = Direction /\ pieces' = [e \in Direction |-> pieces'[e]]
            BY <1>2
        <3>3. QED
            BY <3>1, <3>2
    <2>3. call' \in Seq(PieceType)
        BY <1>2, EmptySeq
    <2>4. QED
        BY <1>2, <2>1, <2>2, <2>3 DEF IInv, Typed
<1>6. InStep'
    BY <1>2 DEF IInv, InStep
<1>7. Accounted'
    <2>1. SUFFICES ASSUME NEW e \in Direction
                   PROVE  Account(Ledger(e)') = Account(Ledger(e)) /\ Stream(e)' = Stream(e)
        BY <1>2 DEF IInv, Accounted
    <2> DEFINE k == Ledger(e)
               l == Ledger(e)'
               m == [taken |-> k.taken \o k.running, running |-> <<>>,
                     held |-> k.held, flying |-> k.flying]
    <2>2. Stream(e)' = Stream(e)
        BY <1>2 DEF Stream
    <2>3. k \in Ledgers
        BY PartsType DEF IInv
    <2>4. /\ l.taken = (k.taken \o k.running) \o k.held /\ l.running = <<>>
          /\ l.held = <<>> /\ l.flying = k.flying
        <3>1. InCall(e)' = <<>> /\ buffer'[e] = <<>>
            BY <1>2 DEF InCall, Direction
        <3>2. FlatMap(pieces'[e], BytesOf) = (FlatMap(pieces[e], BytesOf) \o InCall(e)) \o buffer[e]
            BY <1>4
        <3>3. QED
            BY <1>2, <3>1, <3>2 DEF Ledger
    <2> HIDE DEF k, l
    <2>5. m \in Ledgers
        <3>1. k.taken \o k.running \in Seq(Byte) /\ <<>> \in Seq(Byte)
            BY <2>3, ConcatProperties, EmptySeq DEF Ledgers
        <3>2. QED
            BY <2>3, <3>1 DEF Ledgers
    <2>6. /\ m.taken = k.taken \o k.running /\ m.running = <<>> /\ m.held = k.held
          /\ m.flying = k.flying
        OBVIOUS
    <2> HIDE DEF m
    <2>7. Account(m) = Account(k)
        BY <2>3, <2>6, MoveAway
    <2>8. Account(l) = Account(m)
        BY <2>4, <2>5, <2>6, MoveOff
    <2>9. QED
        BY <2>2, <2>7, <2>8 DEF k, l
<1>8. Calling'
    BY <1>2 DEF Calling
<1>9. QED
    BY <1>5, <1>6, <1>7, <1>8 DEF IInv

LEMMA ReturnStep == ASSUME IInv, NEW d \in Direction, Return(d) PROVE IInv'
<1>1. call \in Seq(PieceType) /\ pieces \in [Direction -> Seq(PieceType)]
    BY DEF IInv, Typed
<1>2. /\ parsing = d /\ call' = <<>> /\ parsing' = "none"
      /\ pieces' = [pieces EXCEPT ![d] = @ \o call]
      /\ UNCHANGED <<sent, relayed, stage, socket, inFlight, buffer, torn>>
    BY DEF Return
<1>3. pieces[d] \o call \in Seq(PieceType)
    BY <1>1, ConcatProperties
<1>4. Typed'
    BY <1>1, <1>2, <1>3, EmptySeq DEF IInv, Typed
<1>5. InStep'
    BY <1>2 DEF IInv, InStep
<1>6. Accounted'
    <2>1. SUFFICES ASSUME NEW e \in Direction
                   PROVE  Account(Ledger(e)') = Account(Ledger(e)) /\ Stream(e)' = Stream(e)
        BY <1>2 DEF IInv, Accounted
    <2> DEFINE k == Ledger(e)
               l == Ledger(e)'
    <2>2. Stream(e)' = Stream(e) /\ InCall(e)' = <<>>
        BY <1>2 DEF Stream, InCall, Direction
    <2>3. CASE e = d
        <3>1. InCall(e) = FlatMap(call, BytesOf)
            BY <1>2, <2>3 DEF InCall
        <3>2. FlatMap(pieces[d] \o call, BytesOf) = FlatMap(pieces[d], BytesOf) \o FlatMap(call, BytesOf)
            <4>1. \A x, y \in Seq(PieceType) :
                     FlatMap(x \o y, BytesOf) = FlatMap(x, BytesOf) \o FlatMap(y, BytesOf)
                BY Maps, FlatMapJoin
            <4>2. QED
                BY <1>1, <4>1
        <3>3. pieces'[e] = pieces[d] \o call
            BY <1>1, <1>2, <2>3
        <3>4. k \in Ledgers
            BY PartsType DEF IInv
        <3>5. /\ l.taken = k.taken \o k.running /\ l.running = <<>>
              /\ l.held = k.held /\ l.flying = k.flying
            BY <1>2, <2>2, <2>3, <3>1, <3>2, <3>3 DEF Ledger
        <3> HIDE DEF k, l
        <3>6. Account(l) = Account(k)
            BY <3>4, <3>5, MoveAway
        <3>7. QED
            BY <2>2, <3>6 DEF k, l
    <2>4. CASE e # d
        <3>1. InCall(e) = <<>> /\ pieces'[e] = pieces[e]
            BY <1>1, <1>2, <2>4 DEF InCall
        <3>2. l = k
            BY <1>2, <2>2, <3>1 DEF Ledger
        <3>3. QED
            BY <2>2, <3>2
    <2>5. QED
        BY <2>3, <2>4
<1>7. Calling'
    BY <1>2 DEF Calling
<1>8. QED
    BY <1>4, <1>5, <1>6, <1>7 DEF IInv
-----------------------------------------------------------------------------
(* The theorems.                                                           *)

\* The invariant is one: it holds at the start and every step keeps it.
LEMMA InvStep == IInv /\ [Next]_vars => IInv'
<1> SUFFICES ASSUME IInv, [Next]_vars PROVE IInv'
    OBVIOUS
<1>1. CASE Open \/ Close
    BY <1>1, OpenClose
<1>2. CASE \E d \in Direction, n \in 1 .. MaxChunk : Relay(d, n)
    BY <1>2, RelayStep
<1>3. CASE ReceiveFrame
    BY <1>3, ReceiveStep
<1>4. CASE \E d \in Direction : SkipByte(d)
    BY <1>4, SkipStep
<1>5. CASE \E d \in Direction : TakePacket(d)
    BY <1>5, PacketStep
<1>6. CASE \E d \in Direction : Panic(d)
    BY <1>6, PanicStep
<1>7. CASE \E d \in Direction : Return(d)
    BY <1>7, ReturnStep
<1>8. CASE UNCHANGED vars
    BY <1>8 DEF vars, IInv, Typed, InStep, Accounted, Calling, Ledger, InCall, Stream
<1>9. QED
    BY <1>1, <1>2, <1>3, <1>4, <1>5, <1>6, <1>7, <1>8 DEF Next

LEMMA InvHolds == Spec => []IInv
BY InitInv, InvStep, PTL DEF Spec

LEMMA TypeFollows == IInv => TypeOK
<1> SUFFICES ASSUME IInv PROVE TypeOK
    OBVIOUS
<1>1. ASSUME NEW d \in Direction
      PROVE  relayed[d] \in 0 .. Len(Stream(d))
    <2>1. relayed[d] \in Nat /\ relayed[d] <= Len(Stream(d)) /\ Stream(d) \in Seq(Byte)
        BY PartsType DEF IInv, Typed, Accounted
    <2>2. Len(Stream(d)) \in Nat
        BY <2>1, LenProperties
    <2>3. QED
        BY <2>1, <2>2
<1>2. socket \in Seq(Byte)
    <2>1. inFlight \in Seq(FrameSet) /\ Coded \in [FrameSet -> Seq(Byte)]
        BY Maps DEF IInv, Typed
    <2>2. QED
        BY <2>1, FlatMapType DEF IInv, InStep
<1>3. QED
    BY <1>1, <1>2 DEF IInv, Typed, TypeOK

(* Every variable has its type: the relay never reads past the stream, and *)
(* what the parser of internal/analyzer/worker.go cuts out are bytes.      *)
THEOREM TypeCorrect == Spec => []TypeOK
BY InvHolds, TypeFollows, PTL

LEMMA IntactFollows == IInv => FramesIntact
<1> SUFFICES ASSUME IInv PROVE FramesIntact
    OBVIOUS
<1>1. CASE inFlight = <<>>
    BY <1>1, FlatMapEmpty DEF IInv, InStep, FramesIntact
<1>2. CASE inFlight # <<>>
    BY <1>2, OldestFirst DEF IInv, FramesIntact
<1>3. QED
    BY <1>1, <1>2

(* However many frames are on the socket, whatever their addresses, ids,   *)
(* times and data: the reader of internal/ipc/frame.go stays on the frame  *)
(* boundaries and decodes the oldest frame as it was encoded.              *)
THEOREM FramesStayIntact == Spec => []FramesIntact
BY InvHolds, IntactFollows, PTL

\* What is a prefix of the first n members is a prefix of all.
LEMMA PrefixOf ==
    ASSUME NEW s \in Seq(Byte), NEW n \in 0 .. Len(s), NEW a \in Seq(Byte), NEW b \in Seq(Byte),
           SubSeq(s, 1, n) = a \o b
    PROVE  IsPrefix(a, s) /\ Len(a) + Len(b) = n
<1> DEFINE c == SubSeq(s, 1, n)
           m == Len(a)
           x == SubSeq(s, 1, m)
<1>1. /\ m \in Nat /\ Len(b) \in Nat /\ Len(c) = m + Len(b)
      /\ \A i \in 1 .. m + Len(b) : c[i] = IF i <= m THEN a[i] ELSE b[i - m]
    BY ConcatProperties, LenProperties
<1>2. n \in Nat /\ n <= Len(s) /\ Len(s) \in Nat
    BY LenProperties
<1>3. Len(c) = n
    BY CutAt
<1>4. \A i \in 1 .. n : c[i] = s[i]
    BY <1>2
<1> HIDE DEF c, m
<1>5. m + Len(b) = n /\ m <= Len(s) /\ m <= n
    BY <1>1, <1>2, <1>3
<1>6. \A i \in 1 .. m : s[i] = a[i]
    BY <1>1, <1>2, <1>4, <1>5
<1>7. m \in 0 .. Len(s)
    BY <1>1, <1>5
<1>8. x \in Seq(Byte) /\ Len(x) = m
    BY <1>7, CutAt
<1>9. \A i \in 1 .. m : x[i] = s[i]
    BY <1>1
<1> HIDE DEF x
<1>10. x = a
    BY <1>6, <1>8, <1>9, SeqEqual DEF m
<1>11. SubSeq(a, 1, Len(a)) = a
    BY SubSeqFull
<1>12. IsPrefix(a, s)
    BY <1>5, <1>10, <1>11 DEF IsPrefix, x, m
<1>13. QED
    BY <1>5, <1>12 DEF m

LEMMA AccountFollows == IInv => BytesAccounted
<1> SUFFICES ASSUME IInv PROVE BytesAccounted
    OBVIOUS
<1>1. ASSUME NEW d \in Direction
      PROVE  /\ IsPrefix(Delivered(d), Stream(d))
             /\ inFlight = <<>> => Len(Delivered(d)) = relayed[d]
    <2> DEFINE t == FlatMap(pieces[d], BytesOf)
               c == InCall(d)
               b == buffer[d]
               f == FlatMap(inFlight, Carried(d))
               a == (t \o c) \o b
               s == Stream(d)
               n == relayed[d]
    <2>t. t \in Seq(Byte)
        BY PartsType DEF IInv
    <2>c. c \in Seq(Byte)
        BY PartsType DEF IInv
    <2>b. b \in Seq(Byte)
        BY PartsType DEF IInv
    <2>f. f \in Seq(Byte)
        BY PartsType DEF IInv
    <2>1. s \in Seq(Byte) /\ n \in Nat /\ n <= Len(s)
        BY PartsType DEF IInv, Typed, Accounted
    <2>2. SubSeq(s, 1, n) = t \o (c \o (b \o f))
        BY DEF IInv, Accounted, Account, Ledger
    <2>3. Delivered(d) = a
        <3>1. Bytes(pieces[d]) = t /\ Bytes(call) = FlatMap(call, BytesOf)
            BY BytesIs DEF IInv, Typed
        <3>2. (IF parsing = d THEN Bytes(call) ELSE <<>>) = c
            BY <3>1 DEF InCall
        <3>3. QED
            BY <3>1, <3>2 DEF Delivered
    <2>4. inFlight = <<>> => f = <<>>
        BY FlatMapEmpty
    <2> HIDE DEF t, c, b, f, s, n
    <2>5. a \in Seq(Byte)
        <3>1. t \o c \in Seq(Byte)
            BY <2>t, <2>c, ConcatProperties
        <3>2. QED
            BY <2>b, <3>1, ConcatProperties
    <2>6. t \o (c \o (b \o f)) = a \o f
        <3>1. b \o f \in Seq(Byte)
            BY <2>b, <2>f, ConcatProperties
        <3>2. \A z \in Seq(Byte) : (t \o c) \o z = t \o (c \o z)
            BY <2>t, <2>c, BytesAssociate
        <3> DEFINE u == t \o c
        <3>3. u \in Seq(Byte)
            BY <2>t, <2>c, ConcatProperties
        <3>4. u \o (b \o f) = t \o (c \o (b \o f))
            BY <3>1, <3>2
        <3> HIDE DEF u
        <3>5. \A z \in Seq(Byte) : (u \o z) \o f = u \o (z \o f)
            BY <2>f, <3>3, BytesAssociate
        <3>6. (u \o b) \o f = u \o (b \o f)
            BY <2>b, <3>5
        <3>7. QED
            BY <3>4, <3>6 DEF u
    <2> HIDE DEF a
    <2>7. IsPrefix(a, s) /\ Len(a) + Len(f) = n
        <3>1. n \in 0 .. Len(s)
            BY <2>1, LenProperties
        <3>2. SubSeq(s, 1, n) = a \o f
            BY <2>2, <2>6
        <3>3. \A u, v \in Seq(Byte) :
                 SubSeq(s, 1, n) = u \o v => IsPrefix(u, s) /\ Len(u) + Len(v) = n
            <4>1. s \in Seq(Byte)
                BY <2>1
            <4>2. QED
                BY <3>1, <4>1, PrefixOf
        <3>4. QED
            BY <2>f, <2>5, <3>2, <3>3
    <2>8. f = <<>> => Len(a) = n
        <3>1. Len(<<>>) = 0 /\ Len(a) \in Nat
            BY <2>5, LenProperties
        <3>2. QED
            BY <2>7, <3>1
    <2>9. QED
        BY <2>3, <2>4, <2>7, <2>8 DEF s, n
<1>2. \A i \in DOMAIN call : call[i].what = "packet" => call[i].bytes # <<>>
    BY DEF IInv, Calling
<1>3. QED
    BY <1>1, <1>2 DEF BytesAccounted

(* However TCP cuts the streams into chunks, whatever is in them and       *)
(* wherever tryParsePackets panics: the pieces it made and the buffer are  *)
(* a prefix of the stream, all of it that was relayed once the socket is   *)
(* empty, and no packet is empty, so that the parser always moves on.      *)
THEOREM BytesAreAccounted == Spec => []BytesAccounted
BY InvHolds, AccountFollows, PTL
-----------------------------------------------------------------------------
(* Where the packets of a stream end.                                      *)

\* The stream of the segments ss, its first i segments, and where the packet
\* of segment i ends in it.
Laid(ss)     == FlatMap(ss, SegmentBytes)
Upto(ss, i)  == Len(Laid(SubSeq(ss, 1, i)))
EndAt(ss, i) == Upto(ss, i - 1) + Len(ss[i].bytes)

LEMMA LaidType ==
    ASSUME NEW ss \in Seq(Segment) PROVE Laid(ss) \in Seq(Byte) /\ Len(Laid(ss)) \in Nat
<1>1. Laid(ss) \in Seq(Byte)
    BY Maps, FlatMapType DEF Laid
<1>2. QED
    BY <1>1, LenProperties

LEMMA LaidJoin == \A u, v \in Seq(Segment) : Laid(u \o v) = Laid(u) \o Laid(v)
<1>1. SegmentBytes \in [Segment -> Seq(Byte)]
    BY Maps
<1>2. \A u, v \in Seq(Segment) :
         FlatMap(u \o v, SegmentBytes) = FlatMap(u, SegmentBytes) \o FlatMap(v, SegmentBytes)
    BY <1>1, FlatMapJoin
<1>3. QED
    BY <1>2 DEF Laid

LEMMA LaidOne ==
    ASSUME NEW seg \in Segment
    PROVE  <<seg>> \in Seq(Segment) /\ Laid(<<seg>>) = seg.bytes \o seg.sum
<1>1. SegmentBytes \in [Segment -> Seq(Byte)]
    BY Maps
<1>2. FlatMap(<<seg>>, SegmentBytes) = SegmentBytes[seg]
    BY <1>1, FlatMapOne
<1>3. SegmentBytes[seg] = seg.bytes \o seg.sum
    BY DEF SegmentBytes
<1>4. Laid(<<seg>>) = seg.bytes \o seg.sum
    BY <1>2, <1>3 DEF Laid
<1>5. <<seg>> \in Seq(Segment)
    OBVIOUS
<1>6. QED
    BY <1>4, <1>5

LEMMA FirstOnes ==
    ASSUME NEW ss \in Seq(Segment), NEW i \in 1 .. Len(ss)
    PROVE  /\ SubSeq(ss, 1, i - 1) \in Seq(Segment) /\ SubSeq(ss, 1, i) \in Seq(Segment)
           /\ SubSeq(ss, i + 1, Len(ss)) \in Seq(Segment)
           /\ SubSeq(ss, 1, i) = SubSeq(ss, 1, i - 1) \o <<ss[i]>>
           /\ ss = SubSeq(ss, 1, i) \o SubSeq(ss, i + 1, Len(ss))
<1> DEFINE L == Len(ss)
           h == i - 1
           j == i + 1
<1>1. L \in Nat /\ \A n \in 1 .. L : ss[n] \in Segment
    BY LenProperties, ElementOfSeq
<1>2. h \in Int /\ j \in Int /\ i \in Int /\ 1 \in Int /\ i <= L /\ h >= 0 /\ L \in Int
    BY <1>1
<1>3. /\ \A n \in 1 .. h : ss[n] \in Segment
      /\ \A n \in 1 .. i : ss[n] \in Segment
      /\ \A n \in j .. L : ss[n] \in Segment
    BY <1>1, <1>2
<1>4. 1 \in 1 .. Len(ss) /\ i \in 1 .. Len(ss)
    BY <1>1
<1>5. 1 \in 1 .. Len(ss) + 1 /\ i \in 1 - 1 .. Len(ss) /\ L \in i .. Len(ss)
    BY <1>1
<1>6. SubSeq(ss, 1, i) \o SubSeq(ss, i + 1, L) = SubSeq(ss, 1, L)
    BY <1>5, ConcatAdjacentSubSeq
<1> HIDE DEF h, j
<1>7. SubSeq(ss, 1, h) \in Seq(Segment) /\ SubSeq(ss, 1, i) \in Seq(Segment)
    BY <1>2, <1>3, SubSeqProperties
<1>8. SubSeq(ss, j, L) \in Seq(Segment)
    BY <1>2, <1>3, SubSeqProperties
<1>9. SubSeq(ss, 1, i) = SubSeq(ss, 1, i - 1) \o <<ss[i]>>
    <2>1. i \in 1 .. Len(ss) /\ 1 \in 1 .. Len(ss) /\ i \in 1 .. Len(ss)
        BY <1>4
    <2>2. QED
        BY <2>1, SubSeqRecursiveSecond
<1>10. SubSeq(ss, 1, L) = ss
    BY SubSeqFull
<1>11. QED
    BY <1>6, <1>7, <1>8, <1>9, <1>10 DEF h, j, L

LEMMA LaidAt ==
    ASSUME NEW ss \in Seq(Segment), NEW i \in 1 .. Len(ss)
    PROVE  /\ ss[i] \in Segment /\ Len(ss[i].bytes) \in Nat /\ Len(ss[i].sum) \in Nat
           /\ Upto(ss, i - 1) \in Nat /\ EndAt(ss, i) \in Nat
           /\ Upto(ss, i) = EndAt(ss, i) + Len(ss[i].sum)
           /\ Upto(ss, i) <= Len(Laid(ss))
           /\ Holds(Laid(ss), Upto(ss, i - 1) + 1, ss[i].bytes)
           /\ Holds(Laid(ss), EndAt(ss, i) + 1, ss[i].sum)
<1> DEFINE before == SubSeq(ss, 1, i - 1)
           after  == SubSeq(ss, i + 1, Len(ss))
           upto   == SubSeq(ss, 1, i)
           seg    == ss[i]
           x == Laid(before)
           y == seg.bytes
           z == seg.sum
           r == Laid(after)
<1>1. seg \in Segment /\ y \in Seq(Byte) /\ z \in Seq(Byte)
    <2>1. seg \in Segment
        BY ElementOfSeq
    <2> HIDE DEF seg
    <2>2. QED
        BY <2>1 DEF Segment
<1>2. before \in Seq(Segment) /\ after \in Seq(Segment) /\ upto \in Seq(Segment)
      /\ upto = before \o <<seg>> /\ ss = upto \o after
    BY FirstOnes
<1> HIDE DEF seg
<1>3. <<seg>> \in Seq(Segment) /\ Laid(<<seg>>) = y \o z
    BY <1>1, LaidOne
<1> HIDE DEF before, after, upto, y, z
<1>4. x \in Seq(Byte) /\ r \in Seq(Byte)
    BY <1>2, LaidType
<1>5. Laid(upto) = x \o (y \o z)
    <2> DEFINE one == <<seg>>
    <2>1. one \in Seq(Segment) /\ upto = before \o one /\ Laid(one) = y \o z
        BY <1>2, <1>3
    <2> HIDE DEF one
    <2>2. Laid(before \o one) = Laid(before) \o Laid(one)
        BY <1>2, <2>1, LaidJoin
    <2>3. QED
        BY <2>1, <2>2
<1>6. Laid(ss) = Laid(upto) \o r
    <2>1. Laid(upto \o after) = Laid(upto) \o Laid(after)
        BY <1>2, LaidJoin
    <2>2. QED
        BY <1>2, <2>1
<1> HIDE DEF x, r
<1>7. x \o y \in Seq(Byte) /\ x \o (y \o z) = (x \o y) \o z
    <2>1. x \o y \in Seq(Byte)
        BY <1>1, <1>4, ConcatProperties
    <2>2. (x \o y) \o z = x \o (y \o z)
        BY <1>1, <1>4, BytesAssociate
    <2>3. QED
        BY <2>1, <2>2
<1>8. Len(x \o y) = Len(x) + Len(y) /\ Len(x) \in Nat /\ Len(y) \in Nat /\ Len(z) \in Nat
    BY <1>1, <1>4, Parts
<1>9. Holds(x \o y, Len(x) + 1, y)
    BY <1>1, <1>4, HoldsConcat
<1> DEFINE w == x \o y
           v == w \o z
<1>10. w \in Seq(Byte) /\ Laid(upto) = v
    BY <1>5, <1>7
<1> HIDE DEF w
<1>11. v \in Seq(Byte) /\ Len(v) = Len(w) + Len(z) /\ Holds(v, Len(w) + 1, z)
       /\ Holds(v, Len(x) + 1, y)
    <2>1. Len(x) + 1 \in Nat \ {0}
        BY <1>8
    <2>2. Holds(w, Len(x) + 1, y)
        BY <1>9 DEF w
    <2>3. QED
        BY <1>1, <1>10, <2>1, <2>2, HoldsConcat
<1> HIDE DEF v
<1>12. /\ Holds(v \o r, Len(x) + 1, y) /\ Holds(v \o r, Len(w) + 1, z)
       /\ Len(v \o r) = Len(v) + Len(r) /\ Len(v) \in Nat /\ Len(r) \in Nat
    <2>1. Len(x) + 1 \in Nat \ {0} /\ Len(w) + 1 \in Nat \ {0}
        BY <1>8 DEF w
    <2>2. QED
        BY <1>1, <1>4, <1>11, <2>1, HoldsConcat
<1>13. Upto(ss, i - 1) = Len(x) /\ Upto(ss, i) = Len(v) /\ Laid(ss) = v \o r
    BY <1>6, <1>10 DEF Upto, x, before, upto
<1>14. EndAt(ss, i) = Len(w)
    BY <1>8, <1>13 DEF EndAt, w, y, seg
<1>15. /\ Upto(ss, i) = EndAt(ss, i) + Len(z) /\ Upto(ss, i) <= Len(Laid(ss))
       /\ Upto(ss, i - 1) \in Nat /\ EndAt(ss, i) \in Nat
       /\ Holds(Laid(ss), Upto(ss, i - 1) + 1, y) /\ Holds(Laid(ss), EndAt(ss, i) + 1, z)
    <2>1. Len(w) \in Nat
        BY <1>8 DEF w
    <2>2. Upto(ss, i) = EndAt(ss, i) + Len(z)
        BY <1>11, <1>13, <1>14
    <2>3. Upto(ss, i) <= Len(Laid(ss))
        <3>1. Len(v) <= Len(v \o r)
            BY <1>12
        <3>2. QED
            BY <1>13, <3>1
    <2>4. Upto(ss, i - 1) \in Nat /\ EndAt(ss, i) \in Nat
        BY <1>8, <1>13, <1>14, <2>1
    <2>5. Holds(Laid(ss), Upto(ss, i - 1) + 1, y) /\ Holds(Laid(ss), EndAt(ss, i) + 1, z)
        BY <1>12, <1>13, <1>14
    <2>6. QED
        BY <2>2, <2>3, <2>4, <2>5
<1>16. QED
    BY <1>1, <1>8, <1>15 DEF seg, y, z

LEMMA LaidEnds ==
    ASSUME NEW ss \in Seq(Segment)
    PROVE  Len(ss) \in Nat /\ Upto(ss, 0) = 0 /\ Upto(ss, Len(ss)) = Len(Laid(ss))
<1>1. SubSeq(ss, 1, 0) = <<>> /\ SubSeq(ss, 1, Len(ss)) = ss
    BY SubSeqEmpty, SubSeqFull
<1>2. Laid(<<>>) = <<>> /\ Len(<<>>) = 0
    BY FlatMapEmpty DEF Laid
<1>3. QED
    BY <1>1, <1>2, LenProperties DEF Upto

\* A later segment does not end earlier.
LEMMA LaidInOrder ==
    ASSUME NEW ss \in Seq(Segment), NEW i \in 0 .. Len(ss)
    PROVE  Upto(ss, i) \in Nat /\ \A j \in i .. Len(ss) : Upto(ss, i) <= Upto(ss, j) /\ Upto(ss, j) \in Nat
<1> DEFINE T == {n \in Nat : i + n <= Len(ss) =>
                    Upto(ss, i + n) \in Nat /\ Upto(ss, i) <= Upto(ss, i + n)}
<1>1. Len(ss) \in Nat
    BY LenProperties
<1>2. Upto(ss, i) \in Nat
    <2>1. CASE i = 0
        BY <2>1, LaidEnds
    <2>2. CASE i # 0
        <3>1. i \in 1 .. Len(ss)
            BY <1>1, <2>2
        <3>2. SubSeq(ss, 1, i) \in Seq(Segment)
            BY <3>1, FirstOnes
        <3> DEFINE first == SubSeq(ss, 1, i)
        <3> HIDE DEF first
        <3>3. first \in Seq(Segment) => Len(Laid(first)) \in Nat
            BY LaidType
        <3>4. QED
            BY <3>2, <3>3 DEF Upto, first
    <2>3. QED
        BY <2>1, <2>2
<1>3. 0 \in T
    BY <1>2
<1>4. ASSUME NEW n \in Nat, n \in T PROVE n + 1 \in T
    <2>1. SUFFICES ASSUME i + (n + 1) <= Len(ss)
                   PROVE  Upto(ss, i + (n + 1)) \in Nat /\ Upto(ss, i) <= Upto(ss, i + (n + 1))
        OBVIOUS
    <2>2. i + (n + 1) \in 1 .. Len(ss) /\ i + (n + 1) - 1 = i + n
        BY <1>1, <2>1
    <2>3. Upto(ss, i + n) \in Nat /\ Upto(ss, i) <= Upto(ss, i + n)
        BY <1>1, <1>4, <2>1
    <2> DEFINE m == i + (n + 1)
    <2>4. m - 1 = i + n /\ m \in 1 .. Len(ss)
        BY <2>2
    <2> HIDE DEF m
    <2>5. /\ Upto(ss, m) = EndAt(ss, m) + Len(ss[m].sum) /\ Len(ss[m].sum) \in Nat
          /\ EndAt(ss, m) = Upto(ss, m - 1) + Len(ss[m].bytes) /\ Len(ss[m].bytes) \in Nat
        BY <2>4, LaidAt DEF EndAt
    <2>6. Upto(ss, m) \in Nat /\ Upto(ss, i) <= Upto(ss, m)
        <3> DEFINE u == Upto(ss, i)
                   v == Upto(ss, i + n)
                   w == Upto(ss, m)
                   x == Len(ss[m].bytes)
                   y == Len(ss[m].sum)
        <3>1. w = (v + x) + y /\ x \in Nat /\ y \in Nat /\ u \in Nat /\ v \in Nat /\ u <= v
            BY <1>2, <2>3, <2>4, <2>5
        <3> HIDE DEF u, v, w, x, y
        <3>2. w \in Nat /\ u <= w
            BY <3>1
        <3>3. QED
            BY <3>2 DEF u, w
    <2>7. QED
        BY <2>6 DEF m
<1> HIDE DEF T
<1>5. \A n \in Nat : n \in T
    BY <1>3, <1>4, Induct
<1>6. ASSUME NEW j \in i .. Len(ss) PROVE Upto(ss, i) <= Upto(ss, j) /\ Upto(ss, j) \in Nat
    <2>1. j - i \in Nat /\ i + (j - i) = j /\ j <= Len(ss)
        BY <1>1
    <2>2. j - i \in T
        BY <1>5, <2>1
    <2>3. QED
        BY <2>1, <2>2 DEF T
<1>7. QED
    BY <1>2, <1>6

\* Nor does a later packet.
LEMMA EndsInOrder ==
    ASSUME NEW ss \in Seq(Segment), NEW i \in 1 .. Len(ss), NEW m \in 1 .. i
    PROVE  EndAt(ss, m) <= EndAt(ss, i) /\ EndAt(ss, m) \in Nat /\ EndAt(ss, i) \in Nat
<1>1. Len(ss) \in Nat /\ m \in 1 .. Len(ss)
    BY LenProperties
<1>2. EndAt(ss, m) \in Nat /\ EndAt(ss, i) \in Nat
    BY <1>1, LaidAt
<1>3. CASE i = m
    BY <1>2, <1>3
<1>4. CASE i # m
    <2> DEFINE h == i - 1
    <2>1. m \in 1 .. Len(ss) /\ m \in 0 .. Len(ss) /\ h \in m .. Len(ss)
        BY <1>1, <1>4
    <2>2. EndAt(ss, i) = Upto(ss, h) + Len(ss[i].bytes) /\ Len(ss[i].bytes) \in Nat /\ Upto(ss, h) \in Nat
        BY LaidAt DEF EndAt
    <2> HIDE DEF h
    <2>3. Upto(ss, m) = EndAt(ss, m) + Len(ss[m].sum) /\ Len(ss[m].sum) \in Nat /\ EndAt(ss, m) \in Nat
        BY <2>1, LaidAt
    <2>4. Upto(ss, m) <= Upto(ss, h)
        BY <2>1, LaidInOrder
    <2> DEFINE x == EndAt(ss, m)
               y == EndAt(ss, i)
               u == Upto(ss, m)
               v == Upto(ss, h)
               z == Len(ss[m].sum)
               w == Len(ss[i].bytes)
    <2>5. u = x + z /\ z \in Nat /\ x \in Nat /\ y = v + w /\ w \in Nat /\ v \in Nat /\ u <= v
        BY <2>2, <2>3, <2>4
    <2> HIDE DEF x, y, u, v, z, w
    <2>6. x <= y
        BY <2>5
    <2>7. QED
        BY <1>2, <2>6 DEF x, y
<1>5. QED
    BY <1>3, <1>4
-----------------------------------------------------------------------------
(* The pieces and the segments.                                            *)

Size(ps) == Len(FlatMap(ps, BytesOf))

\* Piece n of ps is the packet of segment i, the next one its checksum if the
\* parser saw it.
PacketAt(ss, ps, n, i) ==
    /\ ps[n].what = "packet" /\ n < Len(ps) /\ Size(SubSeq(ps, 1, n)) = EndAt(ss, i)
    /\ ps[n].bytes = ss[i].bytes /\ ps[n + 1].bytes \in {<<>>, ss[i].sum}

\* The packets among the pieces are those of the first k segments.
AllFound(ss, ps, k) ==
    /\ \A n \in DOMAIN ps : ps[n].what = "packet" => \E i \in 1 .. k : PacketAt(ss, ps, n, i)
    /\ \A i \in 1 .. k : \E n \in DOMAIN ps : PacketAt(ss, ps, n, i)

LEMMA SizeType ==
    ASSUME NEW ps \in Seq(PieceType)
    PROVE  Size(ps) \in Nat /\ Len(ps) \in Nat /\ DOMAIN ps = 1 .. Len(ps)
<1>1. FlatMap(ps, BytesOf) \in Seq(Byte)
    BY Maps, FlatMapType
<1>2. QED
    BY <1>1, LenProperties DEF Size

LEMMA SizeOne ==
    ASSUME NEW p \in PieceType PROVE <<p>> \in Seq(PieceType) /\ Size(<<p>>) = Len(p.bytes)
<1>1. BytesOf \in [PieceType -> Seq(Byte)]
    BY Maps
<1>2. FlatMap(<<p>>, BytesOf) = BytesOf[p]
    BY <1>1, FlatMapOne
<1>3. BytesOf[p] = p.bytes
    BY DEF BytesOf
<1>4. QED
    BY <1>2, <1>3 DEF Size

LEMMA Longer ==
    ASSUME NEW ps \in Seq(PieceType), NEW rs \in Seq(PieceType)
    PROVE  /\ ps \o rs \in Seq(PieceType) /\ Len(ps \o rs) = Len(ps) + Len(rs)
           /\ DOMAIN (ps \o rs) = 1 .. Len(ps) + Len(rs)
           /\ Size(ps \o rs) = Size(ps) + Size(rs)
           /\ \A n \in 1 .. Len(ps) : (ps \o rs)[n] = ps[n] /\ SubSeq(ps \o rs, 1, n) = SubSeq(ps, 1, n)
           /\ \A n \in 1 .. Len(rs) : (ps \o rs)[Len(ps) + n] = rs[n]
           /\ \A ss, n, i : n \in DOMAIN ps /\ PacketAt(ss, ps, n, i) => PacketAt(ss, ps \o rs, n, i)
<1> DEFINE qs == ps \o rs
           L  == Len(ps)
           M  == Len(rs)
<1>1. L \in Nat /\ M \in Nat /\ DOMAIN ps = 1 .. L
    BY LenProperties
<1>2. /\ qs \in Seq(PieceType) /\ Len(qs) = L + M
      /\ \A n \in 1 .. L + M : qs[n] = IF n <= L THEN ps[n] ELSE rs[n - L]
    BY ConcatProperties
<1>3. ASSUME NEW n \in 1 .. L PROVE SubSeq(qs, 1, n) = SubSeq(ps, 1, n)
    <2>1. 1 \in 1 .. Len(ps) /\ n \in 1 .. Len(ps)
        BY <1>1
    <2>2. QED
        BY <2>1, SubSeqOfConcat1
<1>4. Size(qs) = Size(ps) + Size(rs)
    <2>1. FlatMap(ps, BytesOf) \in Seq(Byte) /\ FlatMap(rs, BytesOf) \in Seq(Byte)
        BY Maps, FlatMapType
    <2>2. \A u, v \in Seq(PieceType) :
             FlatMap(u \o v, BytesOf) = FlatMap(u, BytesOf) \o FlatMap(v, BytesOf)
        BY Maps, FlatMapJoin
    <2>3. FlatMap(qs, BytesOf) = FlatMap(ps, BytesOf) \o FlatMap(rs, BytesOf)
        BY <2>2
    <2> DEFINE a == FlatMap(ps, BytesOf)
               b == FlatMap(rs, BytesOf)
    <2>4. a \in Seq(Byte) /\ b \in Seq(Byte)
        BY <2>1
    <2> HIDE DEF a, b
    <2>5. Len(a \o b) = Len(a) + Len(b)
        BY <2>4, Parts
    <2>6. QED
        BY <2>3, <2>5 DEF Size, a, b
<1> HIDE DEF qs
<1>5. DOMAIN qs = 1 .. L + M
    BY <1>2, LenProperties
<1> HIDE DEF L, M
<1>6. \A n \in 1 .. L : qs[n] = ps[n]
    BY <1>1, <1>2
<1>7. \A n \in 1 .. M : qs[L + n] = rs[n]
    BY <1>1, <1>2
<1>8. ASSUME NEW ss, NEW n \in DOMAIN ps, NEW i, PacketAt(ss, ps, n, i)
      PROVE  PacketAt(ss, qs, n, i)
    <2>1. n \in 1 .. L /\ n < L /\ n + 1 \in 1 .. L
        BY <1>1, <1>8 DEF PacketAt, L
    <2>2. qs[n] = ps[n] /\ qs[n + 1] = ps[n + 1] /\ SubSeq(qs, 1, n) = SubSeq(ps, 1, n)
        BY <1>3, <1>6, <2>1
    <2>3. n < Len(qs)
        BY <1>1, <1>2, <2>1
    <2>4. QED
        BY <1>8, <2>2, <2>3 DEF PacketAt
<1>9. QED
    BY <1>2, <1>3, <1>4, <1>5, <1>6, <1>7, <1>8 DEF qs, L, M

\* A piece that is no packet changes nothing.
LEMMA SkipFound ==
    ASSUME NEW ss, NEW k \in Nat, NEW ps \in Seq(PieceType), NEW rs \in Seq(PieceType),
           AllFound(ss, ps, k), \A n \in DOMAIN rs : rs[n].what # "packet"
    PROVE  AllFound(ss, ps \o rs, k)
<1> DEFINE qs == ps \o rs
<1>1. Len(ps) \in Nat /\ Len(rs) \in Nat /\ DOMAIN ps = 1 .. Len(ps) /\ DOMAIN rs = 1 .. Len(rs)
    BY LenProperties
<1>2. /\ DOMAIN qs = 1 .. Len(ps) + Len(rs)
      /\ \A n \in 1 .. Len(ps) : qs[n] = ps[n]
      /\ \A n \in 1 .. Len(rs) : qs[Len(ps) + n] = rs[n]
      /\ \A n \in DOMAIN ps : \A i : PacketAt(ss, ps, n, i) => PacketAt(ss, qs, n, i)
    BY Longer
<1> HIDE DEF qs
<1>3. ASSUME NEW n \in DOMAIN qs, qs[n].what = "packet" PROVE \E i \in 1 .. k : PacketAt(ss, qs, n, i)
    <2>1. n \in DOMAIN ps
        <3>1. n \in 1 .. Len(ps) + Len(rs)
            BY <1>2
        <3>2. SUFFICES ASSUME ~(n <= Len(ps)) PROVE FALSE
            BY <1>1, <3>1
        <3>3. n - Len(ps) \in 1 .. Len(rs) /\ Len(ps) + (n - Len(ps)) = n
            BY <1>1, <3>1, <3>2
        <3>4. qs[n] = rs[n - Len(ps)]
            BY <1>2, <3>3
        <3>5. QED
            BY <1>1, <1>3, <3>3, <3>4
    <2>2. qs[n] = ps[n]
        BY <1>1, <1>2, <2>1
    <2>3. QED
        BY <1>2, <1>3, <2>1, <2>2 DEF AllFound
<1>4. ASSUME NEW i \in 1 .. k PROVE \E n \in DOMAIN qs : PacketAt(ss, qs, n, i)
    <2>1. PICK n \in DOMAIN ps : PacketAt(ss, ps, n, i)
        BY DEF AllFound
    <2>2. n \in DOMAIN qs
        BY <1>1, <1>2
    <2>3. QED
        BY <1>2, <2>1, <2>2
<1>5. QED
    BY <1>3, <1>4 DEF AllFound, qs

\* One packet more.
LEMMA TakeFound ==
    ASSUME NEW ss, NEW k \in Nat, NEW ps \in Seq(PieceType), NEW p \in PieceType, NEW q \in PieceType,
           AllFound(ss, ps, k), p.what = "packet", q.what # "packet",
           Size(ps) + Len(p.bytes) = EndAt(ss, k + 1),
           p.bytes = ss[k + 1].bytes, q.bytes \in {<<>>, ss[k + 1].sum}
    PROVE  AllFound(ss, ps \o <<p, q>>, k + 1)
<1> DEFINE rs == <<p, q>>
           qs == ps \o rs
           L  == Len(ps)
           us == <<p>>
           vs == ps \o us
<1>1. rs \in Seq(PieceType) /\ Len(rs) = 2 /\ rs[1] = p /\ rs[2] = q
    BY TwoPieces
<1>2. us \in Seq(PieceType) /\ Size(us) = Len(p.bytes)
    BY SizeOne
<1>3. L \in Nat /\ DOMAIN ps = 1 .. L
    BY LenProperties
<1> HIDE DEF rs
<1>4. /\ qs \in Seq(PieceType) /\ Len(qs) = L + 2 /\ DOMAIN qs = 1 .. L + 2
      /\ \A n \in 1 .. L : qs[n] = ps[n]
      /\ \A n \in 1 .. 2 : qs[L + n] = rs[n]
      /\ \A n \in DOMAIN ps : \A i : PacketAt(ss, ps, n, i) => PacketAt(ss, qs, n, i)
    <2>1. rs \in Seq(PieceType)
        BY <1>1
    <2>2. /\ qs \in Seq(PieceType) /\ Len(qs) = Len(ps) + Len(rs)
          /\ DOMAIN qs = 1 .. Len(ps) + Len(rs)
          /\ \A n \in 1 .. Len(ps) : qs[n] = ps[n]
          /\ \A n \in 1 .. Len(rs) : qs[Len(ps) + n] = rs[n]
        BY <2>1, Longer
    <2>3. \A n \in DOMAIN ps : \A i : PacketAt(ss, ps, n, i) => PacketAt(ss, qs, n, i)
        BY <2>1, Longer
    <2> HIDE DEF qs
    <2>4. QED
        BY <1>1, <2>2, <2>3
<1>5. SubSeq(qs, 1, L + 1) = vs
    <2>1. L + 1 \in 1 .. Len(qs) /\ 1 \in 1 .. Len(qs) /\ L + 1 - 1 = L /\ L + 1 \in 1 .. L + 1
        BY <1>3, <1>4
    <2>2. SubSeq(qs, 1, L + 1) = SubSeq(qs, 1, L) \o <<qs[L + 1]>>
        <3> DEFINE m == L + 1
        <3>1. m \in 1 .. Len(qs) /\ 1 \in 1 .. Len(qs) /\ m - 1 = L
            BY <2>1
        <3>2. 1 \in 1 .. Len(qs) /\ m \in 1 .. m
            BY <1>3, <3>1
        <3> HIDE DEF m, qs
        <3>3. SubSeq(qs, 1, m) = SubSeq(qs, 1, m - 1) \o <<qs[m]>>
            <4>1. \A u \in Seq(PieceType) : \A a \in 1 .. Len(u) : \A b \in a .. Len(u) :
                     SubSeq(u, a, b) = SubSeq(u, a, b - 1) \o <<u[b]>>
                BY SubSeqRecursiveSecond
            <4>2. qs \in Seq(PieceType) /\ m \in 1 .. Len(qs)
                BY <1>4, <3>1
            <4>3. QED
                BY <3>2, <4>1, <4>2
        <3>4. QED
            BY <3>1, <3>3 DEF m
    <2>3. SubSeq(qs, 1, L) = ps
        BY <1>1, Parts
    <2>4. qs[L + 1] = p
        BY <1>1, <1>4
    <2>5. QED
        BY <2>2, <2>3, <2>4
<1>6. Size(vs) = Size(ps) + Len(p.bytes)
    <2>1. us \in Seq(PieceType)
        BY <1>2
    <2> HIDE DEF us
    <2>2. Size(ps \o us) = Size(ps) + Size(us)
        BY <2>1, Longer
    <2>3. QED
        BY <1>2, <2>2
<1> HIDE DEF qs, vs
<1>7. PacketAt(ss, qs, L + 1, k + 1)
    <2>1. qs[L + 1] = p /\ qs[L + 2] = q /\ L + 1 < Len(qs) /\ L + 1 + 1 = L + 2
        BY <1>1, <1>3, <1>4
    <2>2. QED
        BY <1>5, <1>6, <2>1 DEF PacketAt
<1>8. ASSUME NEW n \in DOMAIN qs, qs[n].what = "packet"
      PROVE  \E i \in 1 .. k + 1 : PacketAt(ss, qs, n, i)
    <2>1. n \in 1 .. L \/ n = L + 1 \/ n = L + 2
        <3>1. n \in 1 .. L + 2
            BY <1>4
        <3>2. QED
            BY <1>3, <3>1
    <2>2. CASE n \in 1 .. L
        <3>1. ps[n].what = "packet" /\ n \in DOMAIN ps
            BY <1>3, <1>4, <1>8, <2>2
        <3>2. PICK i \in 1 .. k : PacketAt(ss, ps, n, i)
            BY <3>1 DEF AllFound
        <3>3. i \in 1 .. k + 1
            OBVIOUS
        <3>4. QED
            BY <1>4, <3>1, <3>2, <3>3
    <2>3. CASE n = L + 1
        BY <1>7, <2>3
    <2>4. CASE n = L + 2
        BY <1>1, <1>4, <1>8, <2>4
    <2>5. QED
        BY <2>1, <2>2, <2>3, <2>4
<1>9. ASSUME NEW i \in 1 .. k + 1 PROVE \E n \in DOMAIN qs : PacketAt(ss, qs, n, i)
    <2>1. CASE i \in 1 .. k
        <3>1. PICK n \in DOMAIN ps : PacketAt(ss, ps, n, i)
            BY <2>1 DEF AllFound
        <3>2. n \in DOMAIN qs
            BY <1>3, <1>4
        <3>3. QED
            BY <1>4, <3>1, <3>2
    <2>2. CASE i = k + 1
        <3>1. L + 1 \in DOMAIN qs
            BY <1>3, <1>4
        <3>2. QED
            BY <1>7, <2>2, <3>1
    <2>3. QED
        BY <2>1, <2>2
<1>10. QED
    BY <1>8, <1>9 DEF AllFound, qs, rs
-----------------------------------------------------------------------------
(* The parser recognises the packets of the game.                          *)

\* As far as both go, b has the bytes of a.
Agree(b, a) == \A j \in 1 .. Len(b) : j <= Len(a) => b[j] = a[j]

LEMMA SamePart ==
    ASSUME NEW a \in Seq(Byte), NEW b \in Seq(Byte), Agree(b, a), NEW m \in Nat \ {0}, NEW n \in Nat,
           n <= Len(a), n <= Len(b)
    PROVE  SubSeq(b, m, n) = SubSeq(a, m, n)
<1>1. Len(a) \in Nat /\ Len(b) \in Nat
    BY LenProperties
<1>2. \A j \in m .. n : a[j] \in Byte /\ b[j] \in Byte /\ b[j] = a[j]
    <2>1. SUFFICES ASSUME NEW j \in m .. n PROVE a[j] \in Byte /\ b[j] \in Byte /\ b[j] = a[j]
        OBVIOUS
    <2>2. j \in 1 .. Len(a) /\ j \in 1 .. Len(b) /\ j <= Len(a)
        BY <1>1
    <2>3. QED
        BY <2>2, ElementOfSeq DEF Agree
<1> DEFINE x == SubSeq(b, m, n)
           y == SubSeq(a, m, n)
<1>3. m \in Int /\ n \in Int
    OBVIOUS
<1>4. /\ x \in Seq(Byte) /\ Len(x) = (IF m <= n THEN n - m + 1 ELSE 0)
      /\ \A i \in 1 .. n - m + 1 : x[i] = b[m + i - 1]
    BY <1>2, <1>3, SubSeqProperties
<1>5. /\ y \in Seq(Byte) /\ Len(y) = (IF m <= n THEN n - m + 1 ELSE 0)
      /\ \A i \in 1 .. n - m + 1 : y[i] = a[m + i - 1]
    BY <1>2, <1>3, SubSeqProperties
<1> HIDE DEF x, y
<1>6. Len(x) = Len(y) /\ \A i \in 1 .. Len(x) : x[i] = y[i]
    <2>1. ASSUME NEW i \in 1 .. Len(x) PROVE x[i] = y[i]
        <3>1. i \in 1 .. n - m + 1 /\ m + i - 1 \in m .. n
            BY <1>4
        <3>2. QED
            BY <1>2, <1>4, <1>5, <3>1
    <2>2. QED
        BY <1>4, <1>5, <2>1
<1>7. QED
    BY <1>4, <1>5, <1>6, SeqEqual DEF x, y

LEMMA OpcodeIs ==
    ASSUME NEW a \in Seq(Byte), NEW b \in Seq(Byte), Agree(b, a), Len(a) >= 2, Len(b) >= 2
    PROVE  Opcode(b) = Opcode(a)
<1>1. 1 \in Nat \ {0} /\ 2 \in Nat /\ 2 <= Len(a) /\ 2 <= Len(b)
    BY LenProperties
<1>2. SubSeq(b, 1, 2) = SubSeq(a, 1, 2)
    BY <1>1, SamePart
<1>3. QED
    BY <1>2 DEF Opcode

\* The end of the header does not move when more bytes come.
LEMMA SameHeader ==
    ASSUME NEW a \in Seq(Byte), NEW b \in Seq(Byte), Agree(b, a), Len(a) > 0, HTTPSize(a) = Len(a)
    PROVE  HTTPSize(b) = IF Len(b) >= Len(a) THEN Len(a) ELSE 0
<1> DEFINE D == Len(Delimiter)
           A == {i \in D .. Len(a) : SubSeq(a, i - D + 1, i) = Delimiter}
           B == {i \in D .. Len(b) : SubSeq(b, i - D + 1, i) = Delimiter}
<1>1. D \in Nat /\ Len(a) \in Nat /\ Len(b) \in Nat
    BY WireAssumption, LenProperties
<1>2. /\ HTTPSize(a) = IF A = {} THEN 0 ELSE CHOOSE i \in A : \A j \in A : i <= j
      /\ HTTPSize(b) = IF B = {} THEN 0 ELSE CHOOSE i \in B : \A j \in B : i <= j
    BY DEF HTTPSize
<1>3. A \subseteq Nat /\ B \subseteq Nat
    BY <1>1
<1>4. ASSUME NEW i \in Nat, i <= Len(a), i <= Len(b) PROVE i \in A <=> i \in B
    <2> DEFINE m == i - D + 1
    <2>1. CASE i >= D
        <3>1. m \in Nat \ {0}
            BY <1>1, <2>1
        <3>2. i \in D .. Len(a) /\ i \in D .. Len(b)
            BY <1>1, <1>4, <2>1
        <3> HIDE DEF m
        <3>3. SubSeq(b, m, i) = SubSeq(a, m, i)
            BY <1>4, <3>1, SamePart
        <3>4. QED
            BY <3>2, <3>3 DEF m
    <2>2. CASE ~(i >= D)
        <3>1. i \notin D .. Len(a) /\ i \notin D .. Len(b)
            BY <1>1, <1>4, <2>2
        <3>2. QED
            BY <3>1
    <2>3. QED
        BY <2>1, <2>2
<1>5. \A i \in B : i <= Len(b)
    OBVIOUS
<1> HIDE DEF A, B
<1>6. A # {}
    BY <1>1, <1>2
<1>7. Len(a) \in A /\ \A j \in A : Len(a) <= j
    <2>1. \E n \in A : \A j \in A : n <= j
        BY <1>3, <1>6, Least
    <2>2. QED
        BY <1>2, <1>6, <2>1
<1>8. CASE Len(b) >= Len(a)
    <2>1. Len(a) \in B
        BY <1>1, <1>4, <1>7, <1>8
    <2>2. ASSUME NEW j \in B PROVE Len(a) <= j
        <3>1. SUFFICES ASSUME j < Len(a) PROVE FALSE
            BY <1>1, <1>3
        <3>2. j \in A
            BY <1>1, <1>3, <1>4, <1>8, <3>1
        <3>3. QED
            BY <1>1, <1>3, <1>7, <3>1, <3>2
    <2>3. \A i \in B : (\A j \in B : i <= j) => i = Len(a)
        <3>1. SUFFICES ASSUME NEW i \in B, \A j \in B : i <= j PROVE i = Len(a)
            OBVIOUS
        <3>2. i <= Len(a) /\ Len(a) <= i /\ i \in Nat
            BY <1>3, <2>1, <2>2, <3>1
        <3>3. QED
            BY <1>1, <3>2
    <2>4. HTTPSize(b) \in B /\ \A j \in B : HTTPSize(b) <= j
        BY <1>2, <2>1, <2>2
    <2>5. QED
        BY <1>8, <2>3, <2>4
<1>9. CASE ~(Len(b) >= Len(a))
    <2>1. B = {}
        <3>1. SUFFICES ASSUME NEW i \in B PROVE FALSE
            OBVIOUS
        <3>2. i <= Len(b) /\ i \in Nat
            BY <1>3, <1>5
        <3>3. i \in A /\ i < Len(a)
            BY <1>1, <1>4, <1>9, <3>2
        <3>4. QED
            BY <1>1, <1>7, <3>2, <3>3
    <2>2. QED
        BY <1>2, <1>9, <2>1
<1>10. QED
    BY <1>8, <1>9

\* Whatever has arrived of a packet and of what follows it: the parser takes
\* the packet when it is complete and waits for it before.
LEMMA Recognised ==
    ASSUME NEW d \in Direction, NEW seg \in Segment, Genuine(d, seg),
           NEW b \in Seq(Byte), Len(b) >= 2, Agree(b, seg.bytes)
    PROVE  /\ Starts(d, b) /\ Opcode(b) = seg.opcode /\ Len(seg.bytes) \in Nat /\ Len(seg.bytes) >= 2
           /\ ~(Measure(SpecOf(d, b), b).size < 0)
           /\ Measure(SpecOf(d, b), b).valid <=> Len(b) >= Len(seg.bytes)
           /\ Measure(SpecOf(d, b), b).valid => Measure(SpecOf(d, b), b).size = Len(seg.bytes)
<1> DEFINE a     == seg.bytes
           table == PacketDatabase(d)
           spec  == table[seg.opcode]
           L     == Len(a)
           m     == Measure(spec, b)
<1>1. a \in Seq(Byte) /\ L \in Nat /\ Len(b) \in Nat
    <2>1. a \in Seq(Byte)
        BY DEF Segment
    <2>2. QED
        BY <2>1, LenProperties
<1>2. /\ seg.opcode \in DOMAIN table /\ L >= (IF spec.size = -1 THEN 4 ELSE 2) /\ Opcode(a) = seg.opcode
      /\ \/ spec.type \in {"fixed", "fixedMin"} /\ spec.size = L
         \/ spec.type = "indicated" /\ L >= 4 /\ Uint16(SubSeq(a, 3, 4)) = L
         \/ spec.type = "http" /\ HTTPSize(a) = L
    BY DEF Genuine
<1>3. L >= 2
    <2> HIDE DEF spec, L
    <2>1. QED
        BY <1>1, <1>2
<1>4. Agree(b, a)
    OBVIOUS
<1> HIDE DEF a, table, L
<1>5. Opcode(b) = seg.opcode
    BY <1>1, <1>2, <1>3, <1>4, OpcodeIs DEF L
<1>6. spec.type # "unknown"
    BY <1>2
<1>7. Starts(d, b) /\ SpecOf(d, b) = spec
    BY <1>2, <1>5, <1>6 DEF Starts, SpecOf, table
<1> SUFFICES ~(m.size < 0) /\ (m.valid <=> Len(b) >= L) /\ (m.valid => m.size = L)
    BY <1>1, <1>3, <1>5, <1>7 DEF L, a
<1> HIDE DEF spec, m
<1>8. CASE spec.type \in {"fixed", "fixedMin"} /\ spec.size = L
    <2>1. m = [size |-> spec.size, valid |-> Len(b) >= spec.size]
        BY <1>8 DEF Measure, m
    <2>2. m.size = L /\ (m.valid <=> Len(b) >= L)
        BY <1>8, <2>1
    <2>3. QED
        BY <1>1, <2>2
<1>9. CASE spec.type = "indicated" /\ L >= 4 /\ Uint16(SubSeq(a, 3, 4)) = L
    <2>1. m = [size |-> IF Len(b) >= 4 THEN Indicated(b) ELSE 0,
               valid |-> Len(b) >= 4 /\ Len(b) >= Indicated(b)]
        BY <1>9 DEF Measure, m
    <2>2. CASE Len(b) >= 4
        <3>1. SubSeq(b, 3, 4) = SubSeq(a, 3, 4)
            <4>1. 3 \in Nat \ {0} /\ 4 \in Nat /\ 4 <= Len(a) /\ 4 <= Len(b)
                BY <1>1, <1>9, <2>2 DEF L
            <4>2. QED
                BY <1>1, <1>4, <4>1, SamePart
        <3>2. Indicated(b) = L
            <4>1. Uint16(SubSeq(b, 3, 4)) = L
                BY <1>9, <3>1, Zenon
            <4>2. ~(L < 2)
                BY <1>1, <1>3
            <4>3. QED
                BY <4>1, <4>2, Zenon DEF Indicated
        <3>3. m.size = L /\ (m.valid <=> Len(b) >= L)
            BY <2>1, <2>2, <3>2
        <3>4. QED
            BY <1>1, <3>3
    <2>3. CASE ~(Len(b) >= 4)
        <3>1. m.size = 0 /\ ~m.valid
            BY <2>1, <2>3
        <3>2. ~(Len(b) >= L)
            BY <1>1, <1>9, <2>3
        <3>3. QED
            BY <3>1, <3>2
    <2>4. QED
        BY <2>2, <2>3
<1>10. CASE spec.type = "http" /\ HTTPSize(a) = L
    <2>1. m = [size |-> HTTPSize(b), valid |-> HTTPSize(b) > 0]
        BY <1>10 DEF Measure, m
    <2>2. HTTPSize(b) = IF Len(b) >= L THEN L ELSE 0
        BY <1>1, <1>3, <1>4, <1>10, SameHeader DEF L
    <2>3. m.size = HTTPSize(b) /\ (m.valid <=> HTTPSize(b) > 0)
        BY <2>1
    <2>4. QED
        BY <1>1, <1>3, <2>2, <2>3
<1>11. QED
    BY <1>2, <1>8, <1>9, <1>10
-----------------------------------------------------------------------------
(* Where the parser stands in a stream of packets.                         *)

\* A stream of d's packets; one whose checksums start no opcode.
Real(d, ss) == ss \in Seq(Segment) /\ \A i \in 1 .. Len(ss) : Genuine(d, ss[i])
Clear(ss) ==
    \A i \in 1 .. Len(ss) - 1 :
        ss[i].sum # <<>> => Uint16(ss[i].sum \o <<Head(ss[i + 1].bytes)>>) \notin DOMAIN Send

\* b has the bytes of the stream after the first a of them, as far as b goes.
Window(ss, a, b) ==
    /\ a \in Nat /\ b \in Seq(Byte) /\ a + Len(b) <= Len(Laid(ss))
    /\ \A j \in 1 .. Len(b) : b[j] = Laid(ss)[a + j]

\* k packets are behind a, or all but the checksum of the last of them.
Place(ss, k, a) == a = Upto(ss, k) \/ (k # 0 /\ a = EndAt(ss, k))

LEMMA AtPacket ==
    ASSUME NEW d \in Direction, NEW ss, Real(d, ss), NEW k \in 0 .. Len(ss),
           NEW b, Window(ss, Upto(ss, k), b), Len(b) > 0
    PROVE  /\ k + 1 \in 1 .. Len(ss) /\ ss[k + 1] \in Segment /\ Genuine(d, ss[k + 1])
           /\ EndAt(ss, k + 1) = Upto(ss, k) + Len(ss[k + 1].bytes)
           /\ Agree(b, ss[k + 1].bytes)
<1> DEFINE i == k + 1
           s == Laid(ss)
           y == ss[i].bytes
           u == Upto(ss, k)
<1>1. ss \in Seq(Segment) /\ Len(ss) \in Nat /\ k \in Nat /\ i - 1 = k
    BY LenProperties DEF Real
<1>2. u \in Nat /\ Len(b) \in Nat /\ u + Len(b) <= Len(s) /\ \A j \in 1 .. Len(b) : b[j] = s[u + j]
    BY LenProperties DEF Window
<1>3. i \in 1 .. Len(ss)
    <2>1. SUFFICES ASSUME k = Len(ss) PROVE FALSE
        BY <1>1
    <2>2. u = Len(s)
        BY <1>1, <2>1, LaidEnds
    <2>3. QED
        BY <1>2, <2>2
<1> HIDE DEF i
<1>4. ss[i] \in Segment /\ Len(y) \in Nat /\ EndAt(ss, i) = u + Len(y) /\ Holds(s, u + 1, y)
    BY <1>1, <1>3, LaidAt DEF EndAt
<1>5. Agree(b, y)
    <2>1. SUFFICES ASSUME NEW j \in 1 .. Len(b), j <= Len(y) PROVE b[j] = y[j]
        BY DEF Agree
    <2>2. j \in 1 .. Len(y) /\ u + 1 + j - 1 = u + j
        BY <1>2, <1>4, <2>1
    <2>3. s[u + 1 + j - 1] = y[j]
        BY <1>4, <2>2 DEF Holds
    <2>4. QED
        BY <1>2, <2>2, <2>3
<1>6. Genuine(d, ss[i])
    BY <1>3 DEF Real
<1>7. QED
    BY <1>3, <1>4, <1>5, <1>6 DEF i

LEMMA WindowRest ==
    ASSUME NEW ss, NEW a, NEW b, Window(ss, a, b), NEW n \in 0 .. Len(b)
    PROVE  /\ Window(ss, a + n, SubSeq(b, n + 1, Len(b)))
           /\ Len(SubSeq(b, n + 1, Len(b))) = Len(b) - n /\ Len(b) \in Nat
<1> DEFINE L == Len(b)
           m == n + 1
           r == SubSeq(b, m, L)
           s == Laid(ss)
<1>1. /\ L \in Nat /\ n \in Nat /\ n <= L /\ a \in Nat /\ b \in Seq(Byte)
      /\ a + L <= Len(s) /\ \A j \in 1 .. L : b[j] = s[a + j] /\ b[j] \in Byte
    BY LenProperties, ElementOfSeq DEF Window
<1>2. m \in Int /\ L \in Int /\ \A j \in m .. L : b[j] \in Byte
    BY <1>1
<1> HIDE DEF L, s
<1>3. /\ r \in Seq(Byte) /\ Len(r) = (IF m <= L THEN L - m + 1 ELSE 0)
      /\ \A i \in 1 .. L - m + 1 : r[i] = b[m + i - 1]
    BY <1>2, SubSeqProperties
<1> HIDE DEF r
<1>4. Len(r) = L - n
    BY <1>1, <1>3
<1>5. ASSUME NEW i \in 1 .. Len(r) PROVE r[i] = s[(a + n) + i]
    <2>1. i \in 1 .. L - m + 1 /\ m + i - 1 = n + i /\ n + i \in 1 .. L /\ (a + n) + i = a + (n + i)
        BY <1>1, <1>4
    <2>2. QED
        BY <1>1, <1>3, <2>1
<1>6. a + n \in Nat /\ (a + n) + Len(r) <= Len(s)
    BY <1>1, <1>4
<1>7. QED
    BY <1>1, <1>3, <1>4, <1>5, <1>6 DEF Window, r, L, s

\* After a packet: its checksum comes next, which starts no packet.
LEMMA AtChecksum ==
    ASSUME NEW d \in Direction, NEW ss, Real(d, ss), d = "c2s" => Clear(ss),
           NEW k \in 1 .. Len(ss), NEW b, Window(ss, EndAt(ss, k), b), ss[k].sum # <<>>
    PROVE  /\ d = "c2s" /\ Len(ss[k].sum) = 1 /\ EndAt(ss, k) + 1 = Upto(ss, k)
           /\ Len(b) > 0 => SubSeq(b, 1, 1) = ss[k].sum
           /\ ~Starts(d, b)
<1> DEFINE s == Laid(ss)
           z == ss[k].sum
           e == EndAt(ss, k)
<1>1. ss \in Seq(Segment) /\ Len(ss) \in Nat /\ k \in Nat
    BY LenProperties DEF Real
<1>2. /\ e \in Nat /\ Len(b) \in Nat /\ b \in Seq(Byte) /\ e + Len(b) <= Len(s)
      /\ \A j \in 1 .. Len(b) : b[j] = s[e + j]
    BY LenProperties DEF Window
<1>3. ss[k] \in Segment /\ Len(z) \in Nat /\ Upto(ss, k) = e + Len(z) /\ Holds(s, e + 1, z)
    BY <1>1, LaidAt
<1>4. z \in Seq(Byte)
    BY <1>3 DEF Segment
<1>5. Len(z) <= (IF d = "c2s" THEN 1 ELSE 0)
    <2>1. Genuine(d, ss[k])
        BY DEF Real
    <2>2. QED
        BY <2>1 DEF Genuine
<1>6. Len(z) # 0
    BY <1>4, EmptySeq
<1>7. d = "c2s" /\ Len(z) = 1
    <2> DEFINE n == Len(z)
    <2>1. n \in Nat /\ n # 0
        BY <1>3, <1>6
    <2>2. n <= 1 /\ (d # "c2s" => n <= 0)
        <3> HIDE DEF n
        <3>1. CASE d = "c2s"
            <4>1. n <= 1
                BY <1>5, <3>1 DEF n
            <4>2. QED
                BY <3>1, <4>1
        <3>2. CASE d # "c2s"
            <4>1. n <= 0
                BY <1>5, <3>2 DEF n
            <4>2. QED
                BY <2>1, <3>2, <4>1
        <3>3. QED
            BY <3>1, <3>2
    <2> HIDE DEF n
    <2>3. n = 1
        BY <2>1, <2>2
    <2>4. d = "c2s"
        <3>1. SUFFICES ASSUME d # "c2s" PROVE FALSE
            OBVIOUS
        <3>2. n <= 0
            BY <2>2, <3>1, Zenon
        <3>3. QED
            BY <2>1, <3>2
    <2>5. QED
        BY <2>3, <2>4 DEF n
<1>8. Len(b) > 0 => b[1] = z[1]
    <2>1. SUFFICES ASSUME Len(b) > 0 PROVE b[1] = z[1]
        OBVIOUS
    <2>2. 1 \in 1 .. Len(b) /\ 1 \in 1 .. Len(z) /\ e + 1 + 1 - 1 = e + 1
        BY <1>2, <1>7, <2>1
    <2>3. s[e + 1 + 1 - 1] = z[1]
        BY <1>3, <2>2 DEF Holds
    <2>4. QED
        BY <1>2, <2>2, <2>3
<1>9. Len(b) > 0 => SubSeq(b, 1, 1) = z
    <2>1. SUFFICES ASSUME Len(b) > 0 PROVE SubSeq(b, 1, 1) = z
        OBVIOUS
    <2> DEFINE x == SubSeq(b, 1, 1)
    <2>2. 1 \in 0 .. Len(b)
        BY <1>2, <2>1
    <2>3. x \in Seq(Byte) /\ Len(x) = 1
        BY <1>2, <2>2, CutAt
    <2>4. x[1] = b[1]
        OBVIOUS
    <2> HIDE DEF x
    <2>5. \A i \in 1 .. Len(x) : x[i] = z[i]
        BY <1>8, <2>1, <2>3, <2>4
    <2>6. QED
        BY <1>4, <1>7, <2>3, <2>5, SeqEqual DEF x
<1>10. ~Starts(d, b)
    <2>1. SUFFICES ASSUME Len(b) >= 2 PROVE Opcode(b) \notin DOMAIN Send
        BY <1>7 DEF Starts, PacketDatabase
    <2> DEFINE u == Upto(ss, k)
               r == SubSeq(b, 2, Len(b))
               h == Head(ss[k + 1].bytes)
    <2>2. u = e + 1
        BY <1>3, <1>7
    <2>3. Window(ss, u, r) /\ Len(r) = Len(b) - 1
        <3>1. 1 \in 0 .. Len(b) /\ 1 + 1 = 2
            BY <1>2, <2>1
        <3>2. Window(ss, e + 1, SubSeq(b, 1 + 1, Len(b))) /\ Len(SubSeq(b, 1 + 1, Len(b))) = Len(b) - 1
            BY <3>1, WindowRest
        <3>3. QED
            BY <2>2, <3>1, <3>2
    <2>4. k \in 0 .. Len(ss) /\ Len(r) > 0
        BY <1>2, <2>1, <2>3
    <2>5. /\ k + 1 \in 1 .. Len(ss) /\ ss[k + 1] \in Segment /\ Genuine(d, ss[k + 1])
          /\ Agree(r, ss[k + 1].bytes)
        BY <2>3, <2>4, AtPacket
    <2>6. k \in 1 .. Len(ss) - 1
        BY <1>1, <2>5
    <2>7. r[1] = b[2]
        BY <1>2, <2>1
    <2> HIDE DEF r, u
    <2>8. b[2] = ss[k + 1].bytes[1] /\ Len(ss[k + 1].bytes) >= 1
        <3>1. Len(ss[k + 1].bytes) \in Nat /\ Len(ss[k + 1].bytes) >= 1
            <4>1. ss[k + 1].bytes \in Seq(Byte)
                BY <2>5 DEF Segment
            <4>2. Len(ss[k + 1].bytes) >= 4 \/ Len(ss[k + 1].bytes) >= 2
                BY <2>5 DEF Genuine
            <4>3. QED
                BY <4>1, <4>2, LenProperties
        <3>2. 1 \in 1 .. Len(r) /\ 1 <= Len(ss[k + 1].bytes)
            BY <1>2, <2>1, <2>3, <3>1
        <3>3. QED
            BY <2>5, <2>7, <3>1, <3>2 DEF Agree
    <2>9. h = b[2]
        BY <2>8
    <2>10. Uint16(z \o <<h>>) \notin DOMAIN Send
        BY <1>7, <2>6 DEF Clear
    <2> HIDE DEF h
    <2>11. Opcode(b) = Uint16(z \o <<h>>)
        <3>1. Opcode(b) = b[1] + Radix * b[2]
            <4>1. SubSeq(b, 1, 2)[1] = b[1] /\ SubSeq(b, 1, 2)[2] = b[2]
                OBVIOUS
            <4>2. QED
                BY <4>1 DEF Opcode, Uint16
        <3>2. (z \o <<h>>)[1] = z[1] /\ (z \o <<h>>)[2] = h
            BY <1>4, <1>7
        <3>3. Uint16(z \o <<h>>) = z[1] + Radix * h
            BY <3>2 DEF Uint16
        <3>4. b[1] = z[1]
            BY <1>2, <1>8, <2>1
        <3>5. QED
            BY <2>9, <3>1, <3>3, <3>4
    <2>12. QED
        BY <2>10, <2>11
<1>11. QED
    BY <1>3, <1>7, <1>9, <1>10

\* With two bytes the parser either starts the next packet, or has the checksum
\* of the last one before it.
LEMMA Placed ==
    ASSUME NEW d \in Direction, NEW ss, Real(d, ss), d = "c2s" => Clear(ss),
           NEW k \in 0 .. Len(ss), NEW a, Place(ss, k, a), NEW b, Window(ss, a, b), Len(b) >= 2
    PROVE  IF Starts(d, b)
              THEN a = Upto(ss, k)
              ELSE k # 0 /\ a # Upto(ss, k) /\ a + 1 = Upto(ss, k)
<1>1. ss \in Seq(Segment) /\ Len(ss) \in Nat /\ k \in Nat /\ b \in Seq(Byte) /\ Len(b) \in Nat
    BY LenProperties DEF Real, Window
<1>2. CASE a = Upto(ss, k)
    <2>1. Len(b) > 0 /\ Window(ss, Upto(ss, k), b)
        BY <1>1, <1>2
    <2>2. ss[k + 1] \in Segment /\ Genuine(d, ss[k + 1]) /\ Agree(b, ss[k + 1].bytes)
        BY <2>1, AtPacket
    <2>3. Starts(d, b)
        BY <1>1, <2>2, Recognised
    <2>4. QED
        BY <1>2, <2>3
<1>3. CASE a # Upto(ss, k)
    <2>1. k # 0 /\ a = EndAt(ss, k)
        BY <1>3 DEF Place
    <2>2. k \in 1 .. Len(ss)
        BY <1>1, <2>1
    <2>3. ss[k].sum # <<>>
        <3>1. SUFFICES ASSUME ss[k].sum = <<>> PROVE FALSE
            OBVIOUS
        <3>2. Len(ss[k].sum) = 0
            BY <3>1
        <3>3. Upto(ss, k) = EndAt(ss, k) + Len(ss[k].sum) /\ EndAt(ss, k) \in Nat
            BY <1>1, <2>2, LaidAt
        <3>4. QED
            BY <1>3, <2>1, <3>2, <3>3
    <2>4. EndAt(ss, k) + 1 = Upto(ss, k) /\ ~Starts(d, b)
        BY <2>1, <2>2, <2>3, AtChecksum
    <2>5. QED
        BY <1>3, <2>1, <2>4
<1>4. QED
    BY <1>2, <1>3

\* What is taken as the checksum: a byte, or nothing.
SumOf(d, rest) == SubSeq(rest, 1, IF HasChecksum(d, rest) THEN 1 ELSE 0)

LEMMA SumIs ==
    ASSUME NEW d, NEW rest \in Seq(Byte)
    PROVE  /\ SumOf(d, rest) \in Seq(Byte) /\ Len(SumOf(d, rest)) \in 0 .. Len(rest)
           /\ Len(SumOf(d, rest)) \in Nat /\ Len(rest) \in Nat
           /\ IF HasChecksum(d, rest) THEN Len(rest) > 0 /\ SumOf(d, rest) = SubSeq(rest, 1, 1)
                                      ELSE SumOf(d, rest) = <<>> /\ Len(SumOf(d, rest)) = 0
<1>1. Len(rest) \in Nat
    BY LenProperties
<1>2. CASE HasChecksum(d, rest)
    <2>1. Len(rest) = 1 \/ Len(rest) >= 3
        BY <1>2 DEF HasChecksum
    <2>2. Len(rest) > 0 /\ 1 \in 0 .. Len(rest)
        <3> DEFINE L == Len(rest)
        <3>1. L \in Nat /\ (L = 1 \/ L >= 3)
            BY <1>1, <2>1
        <3> HIDE DEF L
        <3>2. L > 0 /\ 1 \in 0 .. L
            BY <3>1
        <3>3. QED
            BY <3>2 DEF L
    <2>3. SumOf(d, rest) = SubSeq(rest, 1, 1)
        BY <1>2 DEF SumOf
    <2>4. SubSeq(rest, 1, 1) \in Seq(Byte) /\ Len(SubSeq(rest, 1, 1)) = 1
        BY <2>2, CutAt
    <2>5. QED
        BY <1>1, <1>2, <2>2, <2>3, <2>4
<1>3. CASE ~HasChecksum(d, rest)
    <2>1. SumOf(d, rest) = SubSeq(rest, 1, 0)
        BY <1>3 DEF SumOf
    <2>2. SumOf(d, rest) = <<>>
        BY <2>1, SubSeqEmpty
    <2>3. Len(<<>>) = 0
        OBVIOUS
    <2>4. QED
        BY <1>1, <1>3, <2>2, <2>3, EmptySeq
<1>4. QED
    BY <1>2, <1>3

\* What may be taken as the checksum of packet i is it, or is empty.
LEMMA SumTaken ==
    ASSUME NEW d \in Direction, NEW ss, Real(d, ss), d = "c2s" => Clear(ss),
           NEW i \in 1 .. Len(ss), NEW rest, Window(ss, EndAt(ss, i), rest),
           d = "c2s" /\ i # Len(ss) /\ ss[i].sum = <<>> => Len(rest) # 1
    PROVE  /\ SumOf(d, rest) \in {<<>>, ss[i].sum}
           /\ Place(ss, i, EndAt(ss, i) + Len(SumOf(d, rest)))
<1> DEFINE z == ss[i].sum
           e == EndAt(ss, i)
           u == Upto(ss, i)
           sum == SumOf(d, rest)
<1>1. ss \in Seq(Segment) /\ Len(ss) \in Nat /\ i \in Nat /\ i # 0 /\ i \in 0 .. Len(ss)
    BY LenProperties DEF Real
<1>2. rest \in Seq(Byte) /\ Len(rest) \in Nat /\ e \in Nat
    BY LenProperties DEF Window
<1>3. u = e + Len(z)
    BY <1>1, LaidAt
<1>4. ~HasChecksum(d, rest) => sum = <<>> /\ Len(sum) = 0
    BY <1>2, SumIs
<1>5. HasChecksum(d, rest) => sum = SubSeq(rest, 1, 1) /\ Len(rest) > 0
    BY <1>2, SumIs
<1>6. CASE z = <<>>
    <2>1. u = e
        <3>1. Len(z) = 0
            BY <1>6
        <3>2. QED
            BY <1>2, <1>3, <3>1
    <2>2. ~HasChecksum(d, rest)
        <3>1. SUFFICES ASSUME HasChecksum(d, rest) PROVE FALSE
            OBVIOUS
        <3>2. d = "c2s" /\ Len(rest) > 0
            BY <1>5, <3>1 DEF HasChecksum
        <3>3. Len(rest) = 1 \/ (Len(rest) >= 2 /\ Opcode(rest) \notin DOMAIN Send)
            BY <1>2, <3>1 DEF HasChecksum
        <3>4. Window(ss, Upto(ss, i), rest)
            BY <2>1
        <3>5. i + 1 \in 1 .. Len(ss) /\ ss[i + 1] \in Segment /\ Genuine(d, ss[i + 1])
              /\ Agree(rest, ss[i + 1].bytes)
            BY <1>1, <3>2, <3>4, AtPacket
        <3>6. Len(rest) # 1
            BY <1>1, <1>6, <3>2, <3>5
        <3>7. Len(rest) >= 2 /\ Opcode(rest) \notin DOMAIN Send
            BY <3>3, <3>6
        <3>8. Starts(d, rest)
            BY <1>2, <3>5, <3>7, Recognised
        <3>9. PacketDatabase(d) = Send
            BY <3>2 DEF PacketDatabase
        <3>10. Opcode(rest) \in DOMAIN Send
            BY <3>8, <3>9 DEF Starts
        <3>11. QED
            BY <3>7, <3>10
    <2>3. e + Len(sum) = u
        BY <1>2, <1>4, <2>1, <2>2
    <2>4. QED
        BY <1>4, <2>2, <2>3 DEF Place
<1>7. CASE z # <<>>
    <2>1. Len(z) = 1 /\ e + 1 = u
        BY <1>7, AtChecksum
    <2>2. Len(rest) > 0 => SubSeq(rest, 1, 1) = z
        BY <1>7, AtChecksum
    <2>3. CASE HasChecksum(d, rest)
        <3>1. sum = z
            BY <1>5, <2>2, <2>3
        <3>2. e + Len(sum) = u
            BY <2>1, <3>1
        <3>3. QED
            BY <3>1, <3>2 DEF Place
    <2>4. CASE ~HasChecksum(d, rest)
        <3>1. e + Len(sum) = e
            BY <1>2, <1>4, <2>4
        <3>2. QED
            BY <1>1, <1>4, <2>4, <3>1 DEF Place
    <2>5. QED
        BY <2>3, <2>4
<1>8. QED
    BY <1>6, <1>7

\* The client's delivered bytes do not end one byte after a packet that has no
\* checksum, unless the parser is behind it.
Whole(ss, k, t) == \A i \in k + 1 .. Len(ss) - 1 : ss[i].sum = <<>> => t # EndAt(ss, i) + 1

\* What the parser takes is the next packet, with its checksum or before it.
LEMMA Taken ==
    ASSUME NEW d \in Direction, NEW ss, Real(d, ss), d = "c2s" => Clear(ss),
           NEW k \in 0 .. Len(ss), NEW b, Window(ss, Upto(ss, k), b),
           d = "c2s" => Whole(ss, k, Upto(ss, k) + Len(b)),
           Starts(d, b), Measure(SpecOf(d, b), b).valid
    PROVE  LET n    == Measure(SpecOf(d, b), b).size
               rest == SubSeq(b, n + 1, Len(b))
               e    == EndAt(ss, k + 1)
           IN  /\ k + 1 \in 1 .. Len(ss) /\ n \in 0 .. Len(b) /\ SubSeq(b, 1, n) = ss[k + 1].bytes
               /\ Upto(ss, k) + n = e /\ Window(ss, e, rest)
               /\ SumOf(d, rest) \in {<<>>, ss[k + 1].sum} /\ Place(ss, k + 1, e + Len(SumOf(d, rest)))
<1> DEFINE i == k + 1
           y == ss[i].bytes
           a == Upto(ss, k)
           e == EndAt(ss, i)
           n == Measure(SpecOf(d, b), b).size
           rest == SubSeq(b, n + 1, Len(b))
<1>1. /\ ss \in Seq(Segment) /\ Len(ss) \in Nat /\ k \in Nat
      /\ b \in Seq(Byte) /\ Len(b) \in Nat /\ Len(b) >= 2 /\ a \in Nat
    BY LenProperties DEF Real, Window, Starts
<1>2. /\ i \in 1 .. Len(ss) /\ ss[i] \in Segment /\ Genuine(d, ss[i])
      /\ e = a + Len(y) /\ Agree(b, y)
    BY <1>1, AtPacket
<1>3. n = Len(y) /\ Len(y) \in Nat /\ Len(b) >= Len(y)
    BY <1>1, <1>2, Recognised
<1>4. y \in Seq(Byte)
    BY <1>2 DEF Segment
<1> HIDE DEF n, i, a
<1>5. SubSeq(b, 1, n) = y
    <2>1. 1 \in Nat \ {0} /\ n \in Nat /\ n <= Len(b) /\ n <= Len(y)
        BY <1>1, <1>3
    <2>2. SubSeq(b, 1, n) = SubSeq(y, 1, n)
        BY <1>1, <1>2, <1>4, <2>1, SamePart
    <2>3. SubSeq(y, 1, Len(y)) = y
        BY <1>4, SubSeqFull
    <2>4. QED
        BY <1>3, <2>2, <2>3
<1>6. n \in 0 .. Len(b) /\ a + n = e
    BY <1>1, <1>2, <1>3
<1>7. Window(ss, e, rest) /\ Len(rest) = Len(b) - n
    <2>1. Window(ss, a + n, rest) /\ Len(rest) = Len(b) - n
        BY <1>6, WindowRest DEF a
    <2>2. QED
        BY <1>6, <2>1
<1> HIDE DEF rest, e
<1>8. d = "c2s" /\ i # Len(ss) /\ ss[i].sum = <<>> => Len(rest) # 1
    <2>1. SUFFICES ASSUME d = "c2s", i # Len(ss), ss[i].sum = <<>>, Len(rest) = 1 PROVE FALSE
        OBVIOUS
    <2>2. i \in k + 1 .. Len(ss) - 1
        BY <1>1, <1>2, <2>1 DEF i
    <2>3. a + Len(b) # e + 1
        BY <2>1, <2>2 DEF Whole, a, e
    <2>4. Len(rest) = 1 /\ Len(rest) = Len(b) - n
        BY <1>7, <2>1
    <2>5. a \in Nat /\ Len(b) \in Nat /\ n \in 0 .. Len(b) /\ a + n = e
        BY <1>1, <1>6
    <2> DEFINE L == Len(b)
               M == Len(rest)
    <2>6. M = 1 /\ M = L - n /\ L \in Nat /\ n \in 0 .. L /\ a + L # e + 1
        BY <2>3, <2>4, <2>5
    <2> HIDE DEF L, M
    <2>7. QED
        BY <2>5, <2>6
<1>9. SumOf(d, rest) \in {<<>>, ss[i].sum} /\ Place(ss, i, e + Len(SumOf(d, rest)))
    BY <1>2, <1>7, <1>8, SumTaken DEF e
<1>10. QED
    BY <1>2, <1>5, <1>6, <1>7, <1>9 DEF n, i, a, rest, e

\* When a call ends, the next packet is not complete.
LEMMA Waits ==
    ASSUME NEW d \in Direction, NEW ss, Real(d, ss), d = "c2s" => Clear(ss),
           NEW k \in 0 .. Len(ss), NEW a, Place(ss, k, a), NEW b, Window(ss, a, b),
           Len(b) < 2 \/ (Starts(d, b) /\ ~Measure(SpecOf(d, b), b).valid)
    PROVE  k = Len(ss) \/ a + Len(b) < EndAt(ss, k + 1)
<1> DEFINE i == k + 1
           y == ss[i].bytes
           u == Upto(ss, k)
<1> SUFFICES ASSUME k # Len(ss) PROVE a + Len(b) < EndAt(ss, i)
    OBVIOUS
<1>1. ss \in Seq(Segment) /\ Len(ss) \in Nat /\ k \in Nat /\ b \in Seq(Byte) /\ Len(b) \in Nat /\ a \in Nat
    BY LenProperties DEF Real, Window
<1>2. i \in 1 .. Len(ss) /\ i - 1 = k
    BY <1>1
<1>3. ss[i] \in Segment /\ EndAt(ss, i) = u + Len(y) /\ u \in Nat /\ Len(y) \in Nat
    BY <1>1, <1>2, LaidAt DEF EndAt
<1>4. Len(y) >= 2
    <2>1. Genuine(d, ss[i])
        BY <1>2 DEF Real
    <2>2. Len(y) >= 4 \/ Len(y) >= 2
        BY <2>1 DEF Genuine
    <2> HIDE DEF y
    <2>3. QED
        BY <1>3, <2>2
<1>5. CASE Len(b) < 2
    <2>1. a <= u
        <3>1. CASE k = 0
            BY <1>3, <3>1 DEF Place
        <3>2. CASE k # 0
            <4>1. k \in 1 .. Len(ss)
                BY <1>1, <3>2
            <4>2. u = EndAt(ss, k) + Len(ss[k].sum) /\ EndAt(ss, k) \in Nat /\ Len(ss[k].sum) \in Nat
                BY <1>1, <4>1, LaidAt
            <4>3. a = u \/ a = EndAt(ss, k)
                BY DEF Place
            <4> HIDE DEF u
            <4>4. QED
                BY <1>1, <4>2, <4>3
        <3>3. QED
            BY <3>1, <3>2
    <2> HIDE DEF u, y, i
    <2>2. QED
        BY <1>1, <1>3, <1>4, <1>5, <2>1
<1>6. CASE Len(b) >= 2 /\ Starts(d, b) /\ ~Measure(SpecOf(d, b), b).valid
    <2>1. a = u
        BY <1>6, Placed
    <2>2. Len(b) > 0 /\ Window(ss, Upto(ss, k), b)
        BY <1>1, <1>6, <2>1
    <2>3. Genuine(d, ss[i]) /\ Agree(b, y)
        BY <2>2, AtPacket
    <2>4. ~(Len(b) >= Len(y))
        BY <1>1, <1>3, <1>6, <2>3, Recognised
    <2> HIDE DEF u, y, i
    <2>5. QED
        BY <1>1, <1>3, <2>1, <2>4
<1>7. QED
    BY <1>1, <1>5, <1>6
-----------------------------------------------------------------------------
(* The parser's invariant, for one direction.                              *)

\* Of the stream of ss the pieces ps are behind the parser and b is in its
\* buffer: it has found the packets of the first k segments.  Between two calls
\* the next one is not complete.
Stands(d, ss, ps, b, k, running) ==
    /\ Place(ss, k, Size(ps)) /\ AllFound(ss, ps, k)
    /\ ~running => k = Len(ss) \/ Size(ps) + Len(b) < EndAt(ss, k + 1)
    /\ running /\ d = "c2s" => Whole(ss, k, Size(ps) + Len(b))

\* The segments of a stream and what was made of it.
Parse(d, ss, ps, b) ==
    /\ d \in Direction /\ Real(d, ss) /\ (d = "c2s" => Clear(ss))
    /\ ps \in Seq(PieceType) /\ Window(ss, Size(ps), b)

\* A byte is skipped only when it is a checksum.
LEMMA SkipKeeps ==
    ASSUME NEW d, NEW ss, NEW ps, NEW b, Parse(d, ss, ps, b), NEW k \in 0 .. Len(ss),
           Stands(d, ss, ps, b, k, TRUE), Len(b) >= 2, ~Starts(d, b)
    PROVE  Stands(d, ss, ps \o <<Piece("skip", <<Head(b)>>)>>, Tail(b), k, TRUE)
<1> DEFINE p  == Piece("skip", <<Head(b)>>)
           rs == <<p>>
           a  == Size(ps)
           t  == Tail(b)
<1>1. /\ d \in Direction /\ Real(d, ss) /\ (d = "c2s" => Clear(ss)) /\ ps \in Seq(PieceType)
      /\ Window(ss, a, b) /\ b \in Seq(Byte) /\ Len(b) \in Nat /\ a \in Nat
    BY LenProperties DEF Parse, Window
<1>2. k # 0 /\ a + 1 = Upto(ss, k)
    <2>1. Place(ss, k, a)
        BY DEF Stands
    <2>2. QED
        BY <1>1, <2>1, Placed
<1>3. Head(b) \in Byte /\ Len(t) = Len(b) - 1
    <2>1. b # <<>>
        BY <1>1
    <2>2. QED
        BY <1>1, <2>1, HeadTailProperties
<1>4. p \in PieceType /\ p.bytes = <<Head(b)>> /\ p.what = "skip"
    BY <1>3 DEF Piece, PieceType
<1> HIDE DEF p, t
<1>5. rs \in Seq(PieceType) /\ (\A n \in DOMAIN rs : rs[n].what # "packet") /\ Size(rs) = 1
    <2>1. rs \in Seq(PieceType) /\ \A n \in DOMAIN rs : rs[n].what # "packet"
        BY <1>4
    <2>2. Size(<<p>>) = Len(p.bytes)
        BY <1>4, SizeOne
    <2>3. Len(<<Head(b)>>) = 1
        OBVIOUS
    <2>4. QED
        BY <1>4, <2>1, <2>2, <2>3
<1> HIDE DEF rs
<1>6. Size(ps \o rs) = a + 1
    BY <1>1, <1>5, Longer
<1>7. AllFound(ss, ps \o rs, k)
    BY <1>1, <1>5, SkipFound DEF Stands
<1>8. Place(ss, k, Size(ps \o rs))
    BY <1>2, <1>6 DEF Place
<1>9. d = "c2s" => Whole(ss, k, Size(ps \o rs) + Len(t))
    <2>1. (a + 1) + Len(t) = a + Len(b)
        BY <1>1, <1>3
    <2>2. QED
        BY <1>6, <2>1 DEF Stands
<1>10. QED
    BY <1>7, <1>8, <1>9 DEF Stands, rs, p, t

\* A packet that is taken is the next one sent.
LEMMA TakeKeeps ==
    ASSUME NEW d, NEW ss, NEW ps, NEW b, Parse(d, ss, ps, b), NEW k \in 0 .. Len(ss),
           Stands(d, ss, ps, b, k, TRUE), Starts(d, b), Measure(SpecOf(d, b), b).valid
    PROVE  LET n    == Measure(SpecOf(d, b), b).size
               rest == SubSeq(b, n + 1, Len(b))
               sum  == SumOf(d, rest)
           IN  /\ k + 1 \in 0 .. Len(ss)
               /\ Stands(d, ss, ps \o <<Piece("packet", SubSeq(b, 1, n)), Piece("sum", sum)>>,
                         SubSeq(rest, Len(sum) + 1, Len(rest)), k + 1, TRUE)
<1> DEFINE i    == k + 1
           a    == Size(ps)
           n    == Measure(SpecOf(d, b), b).size
           rest == SubSeq(b, n + 1, Len(b))
           sum  == SumOf(d, rest)
           left == SubSeq(rest, Len(sum) + 1, Len(rest))
           head == SubSeq(b, 1, n)
           p    == Piece("packet", head)
           q    == Piece("sum", sum)
           rs   == <<p, q>>
           e    == EndAt(ss, i)
<1>1. /\ d \in Direction /\ Real(d, ss) /\ (d = "c2s" => Clear(ss)) /\ ps \in Seq(PieceType)
      /\ Window(ss, a, b) /\ b \in Seq(Byte) /\ Len(b) \in Nat /\ a \in Nat
      /\ ss \in Seq(Segment) /\ k \in Nat /\ Len(ss) \in Nat
    BY LenProperties DEF Parse, Window, Real
<1>2. a = Upto(ss, k)
    <2>1. Place(ss, k, a)
        BY DEF Stands
    <2>2. Len(b) >= 2
        BY DEF Starts
    <2>3. QED
        BY <1>1, <2>1, <2>2, Placed
<1>3. /\ i \in 1 .. Len(ss) /\ n \in 0 .. Len(b) /\ head = ss[i].bytes
      /\ a + n = e /\ Window(ss, e, rest)
      /\ sum \in {<<>>, ss[i].sum} /\ Place(ss, i, e + Len(sum))
    <2>1. Window(ss, Upto(ss, k), b) /\ (d = "c2s" => Whole(ss, k, Upto(ss, k) + Len(b)))
        BY <1>1, <1>2 DEF Stands
    <2>2. QED
        BY <1>1, <1>2, <2>1, Taken
<1>4. ss[i] \in Segment
    BY <1>1, <1>3, LaidAt
<1>5. head \in Seq(Byte) /\ Len(head) = n /\ Len(rest) = Len(b) - n
    <2>1. head \in Seq(Byte) /\ Len(head) = n
        BY <1>1, <1>3, CutAt
    <2> HIDE DEF n
    <2>2. Window(ss, a, b) /\ n \in 0 .. Len(b)
        BY <1>1, <1>3
    <2> HIDE DEF a
    <2>3. Len(SubSeq(b, n + 1, Len(b))) = Len(b) - n
        BY <2>2, WindowRest
    <2>4. QED
        BY <2>1, <2>3
<1>6. sum \in Seq(Byte) /\ ss[i].sum \in Seq(Byte)
    <2>1. ss[i].sum \in Seq(Byte) /\ <<>> \in Seq(Byte)
        BY <1>4, EmptySeq DEF Segment
    <2>2. QED
        BY <1>3, <2>1
<1>7. /\ p \in PieceType /\ p.bytes = head /\ p.what = "packet"
      /\ q \in PieceType /\ q.bytes = sum /\ q.what = "sum"
    BY <1>5, <1>6 DEF Piece, PieceType
<1>8. rest \in Seq(Byte) /\ Len(rest) \in Nat /\ Len(sum) \in Nat /\ Len(sum) \in 0 .. Len(rest)
    <2>1. rest \in Seq(Byte)
        BY <1>3 DEF Window
    <2> HIDE DEF rest
    <2>2. QED
        BY <2>1, SumIs
<1> HIDE DEF n, rest, sum, head, p, q, i, e
<1>9. Len(left) = Len(rest) - Len(sum)
    <2>1. Len(sum) \in 0 .. Len(rest)
        BY <1>8
    <2>2. QED
        BY <1>3, <2>1, WindowRest
<1> HIDE DEF left
<1>10. AllFound(ss, ps \o <<p, q>>, i)
    <2>1. /\ AllFound(ss, ps, k) /\ p.what = "packet" /\ q.what # "packet"
          /\ Size(ps) + Len(p.bytes) = EndAt(ss, k + 1)
          /\ p.bytes = ss[k + 1].bytes /\ q.bytes \in {<<>>, ss[k + 1].sum}
        BY <1>3, <1>5, <1>7 DEF Stands, i, e
    <2>2. QED
        BY <1>1, <1>7, <2>1, TakeFound DEF i
<1>11. Size(ps \o rs) = e + Len(sum)
    <2>1. rs \in Seq(PieceType) /\ FlatMap(rs, BytesOf) = BytesOf[p] \o BytesOf[q]
        BY <1>7, TwoPieces
    <2>2. BytesOf[p] = head /\ BytesOf[q] = sum
        BY <1>7 DEF BytesOf
    <2>3. Len(head \o sum) = Len(head) + Len(sum)
        BY <1>5, <1>6, Parts
    <2>4. Size(rs) = n + Len(sum)
        BY <1>5, <2>1, <2>2, <2>3 DEF Size
    <2> HIDE DEF rs
    <2>5. Size(ps \o rs) = a + Size(rs)
        BY <1>1, <2>1, Longer
    <2> HIDE DEF a
    <2>6. n \in Nat
        BY <1>1, <1>3
    <2>7. QED
        BY <1>1, <1>3, <1>8, <2>4, <2>5, <2>6
<1> HIDE DEF rs
<1>12. Place(ss, i, Size(ps \o rs))
    BY <1>3, <1>11
<1>13. d = "c2s" => Whole(ss, i, Size(ps \o rs) + Len(left))
    <2>1. e + Len(sum) + Len(left) = a + Len(b)
        <3> DEFINE L == Len(b)
                   R == Len(rest)
                   S == Len(sum)
                   F == Len(left)
        <3>1. /\ L \in Nat /\ a \in Nat /\ n \in 0 .. L /\ R = L - n /\ S \in Nat /\ F = R - S
              /\ a + n = e
            BY <1>1, <1>3, <1>5, <1>8, <1>9
        <3> HIDE DEF L, R, S, F, a
        <3>2. e + S + F = a + L
            BY <3>1
        <3>3. QED
            BY <3>2 DEF L, S, F
    <2>2. SUFFICES ASSUME d = "c2s", NEW j \in i + 1 .. Len(ss) - 1, ss[j].sum = <<>>
                   PROVE  a + Len(b) # EndAt(ss, j) + 1
        BY <1>11, <2>1 DEF Whole
    <2>3. Whole(ss, k, a + Len(b))
        BY <2>2 DEF Stands
    <2>4. j \in k + 1 .. Len(ss) - 1
        BY <1>1 DEF i
    <2>5. QED
        BY <2>2, <2>3, <2>4 DEF Whole
<1>14. i \in 0 .. Len(ss)
    BY <1>1, <1>3
<1>15. QED
    BY <1>10, <1>12, <1>13, <1>14 DEF Stands, rs, n, rest, sum, left, head, p, q, i

LEMMA ReturnKeeps ==
    ASSUME NEW d, NEW ss, NEW ps, NEW b, Parse(d, ss, ps, b), NEW k \in 0 .. Len(ss),
           Stands(d, ss, ps, b, k, TRUE),
           Len(b) < 2 \/ (Starts(d, b) /\ ~Measure(SpecOf(d, b), b).valid)
    PROVE  Stands(d, ss, ps, b, k, FALSE)
<1>1. /\ d \in Direction /\ Real(d, ss) /\ (d = "c2s" => Clear(ss)) /\ Window(ss, Size(ps), b)
      /\ Place(ss, k, Size(ps)) /\ AllFound(ss, ps, k)
    BY DEF Parse, Stands
<1>2. k = Len(ss) \/ Size(ps) + Len(b) < EndAt(ss, k + 1)
    BY <1>1, Waits
<1>3. QED
    BY <1>1, <1>2 DEF Stands

\* A chunk of more bytes, unless it tears a packet.
LEMMA ChunkKeeps ==
    ASSUME NEW d, NEW ss, NEW ps, NEW b, Parse(d, ss, ps, b), NEW k \in 0 .. Len(ss),
           NEW c, Stands(d, ss, ps, b, k, FALSE),
           d = "c2s" => ~\E i \in 1 .. Len(ss) - 1 :
                            /\ ss[i].sum = <<>> /\ Size(ps) + Len(b) < EndAt(ss, i)
                            /\ Size(ps) + Len(c) = EndAt(ss, i) + 1
    PROVE  Stands(d, ss, ps, c, k, TRUE)
<1> DEFINE t == Size(ps) + Len(b)
           s == Size(ps) + Len(c)
<1>1. ss \in Seq(Segment) /\ Len(ss) \in Nat /\ k \in Nat /\ ps \in Seq(PieceType) /\ t \in Nat
    <2>1. ps \in Seq(PieceType) /\ b \in Seq(Byte) /\ ss \in Seq(Segment)
        BY DEF Parse, Window, Real
    <2>2. Size(ps) \in Nat /\ Len(b) \in Nat /\ Len(ss) \in Nat
        BY <2>1, SizeType, LenProperties
    <2>3. QED
        BY <2>1, <2>2
<1> SUFFICES ASSUME d = "c2s", NEW i \in k + 1 .. Len(ss) - 1, ss[i].sum = <<>>, s = EndAt(ss, i) + 1
             PROVE  FALSE
    BY DEF Stands, Whole
<1> HIDE DEF t, s
<1>2. i \in 1 .. Len(ss) - 1 /\ i \in 1 .. Len(ss) /\ k # Len(ss) /\ k + 1 \in 1 .. Len(ss)
    BY <1>1
<1>3. t < EndAt(ss, k + 1)
    BY <1>2 DEF Stands, t
<1>4. EndAt(ss, k + 1) <= EndAt(ss, i) /\ EndAt(ss, k + 1) \in Nat /\ EndAt(ss, i) \in Nat
    <2>1. k + 1 \in 1 .. i
        BY <1>1
    <2>2. QED
        BY <1>1, <1>2, <2>1, EndsInOrder
<1>5. t < EndAt(ss, i)
    BY <1>1, <1>3, <1>4
<1>6. QED
    BY <1>2, <1>5 DEF t, s
-----------------------------------------------------------------------------
(* The invariant of the parser, in the states of Wire.                     *)

\* Everything that was made of d's stream.
Log(d) == IF parsing = d THEN pieces[d] \o call ELSE pieces[d]

\* What the properties say of the stream, and a client's of what became of it.
Good(d) ==
    OnlyPackets(d) /\ (d = "c2s" => NeverPanicked /\ ~Ambiguous /\ ~torn)

Parsed(d) ==
    Good(d) => \E k \in 0 .. Len(sent[d]) :
                  IF parsing = d
                     THEN Stands(d, sent[d], Log(d), buffer[d], k, TRUE)
                     ELSE Stands(d, sent[d], Log(d), buffer[d], k, FALSE)

ParseInv == \A d \in Direction : Parsed(d)

\* The streams are what the lemmas above are about.
LEMMA SentIs ==
    ASSUME Typed, NEW d \in Direction
    PROVE  /\ sent[d] \in Seq(Segment) /\ Stream(d) = Laid(sent[d])
           /\ \A i \in 1 .. Len(sent[d]) : EndOf(d, i) = EndAt(sent[d], i)
<1> DEFINE ss == sent[d]
           flat(j) == ss[j].bytes \o ss[j].sum
<1>1. ss \in Seq(Segment)
    <2>1. ss \in Seq(Segments[d]) /\ Segments[d] \subseteq Segment
        BY WireAssumption DEF Typed
    <2>2. QED
        BY <2>1, SeqMonotonic
<1>2. DOMAIN ss = 1 .. Len(ss) /\ Len(ss) \in Nat /\ \A i \in 1 .. Len(ss) : ss[i] \in Segment
    BY <1>1, LenProperties, ElementOfSeq
<1>3. \A j \in 1 .. Len(ss) : SegmentBytes[ss[j]] = flat(j)
    BY <1>2 DEF SegmentBytes
<1>4. Stream(d) = Laid(ss)
    <2>1. Mapped(ss, SegmentBytes) = [i \in DOMAIN ss |-> flat(i)]
        BY <1>2, <1>3 DEF Mapped
    <2>2. QED
        BY <2>1 DEF Stream, Laid, FlatMap
<1>5. ASSUME NEW i \in 1 .. Len(ss) PROVE EndOf(d, i) = EndAt(ss, i)
    <2> DEFINE fs == SubSeq(ss, 1, i)
    <2>1. fs \in Seq(Segment)
        BY <1>1, FirstOnes
    <2>2. Len(fs) = i /\ \A j \in 1 .. i : fs[j] = ss[j]
        <3>1. 1 \in Int /\ i \in Int /\ 1 <= i /\ \A j \in 1 .. i : ss[j] \in Segment
            BY <1>2
        <3>2. /\ Len(fs) = (IF 1 <= i THEN i - 1 + 1 ELSE 0)
              /\ \A j \in 1 .. i - 1 + 1 : fs[j] = ss[1 + j - 1]
            BY <3>1, SubSeqProperties
        <3>3. Len(fs) = i /\ i - 1 + 1 = i /\ \A j \in 1 .. i : 1 + j - 1 = j
            BY <3>1, <3>2
        <3> HIDE DEF fs
        <3>4. QED
            BY <3>2, <3>3
    <2> HIDE DEF fs
    <2>3. DOMAIN fs = 1 .. i
        BY <2>1, <2>2, LenProperties
    <2>4. ASSUME NEW j \in 1 .. i PROVE SegmentBytes[fs[j]] = flat(j)
        <3>1. j \in 1 .. Len(ss)
            BY <1>2
        <3>2. fs[j] = ss[j]
            BY <2>2
        <3>3. SegmentBytes[ss[j]] = flat(j)
            BY <1>3, <3>1
        <3>4. QED
            BY <3>2, <3>3
    <2>5. Mapped(fs, SegmentBytes) = [j \in 1 .. i |-> flat(j)]
        BY <2>3, <2>4 DEF Mapped
    <2>6. EndOf(d, i) = Upto(ss, i) - Len(ss[i].sum)
        BY <2>5 DEF EndOf, Upto, Laid, FlatMap, fs
    <2>7. Upto(ss, i) = EndAt(ss, i) + Len(ss[i].sum) /\ EndAt(ss, i) \in Nat /\ Len(ss[i].sum) \in Nat
        BY <1>1, LaidAt
    <2> HIDE DEF ss
    <2>8. QED
        BY <2>6, <2>7
<1>6. QED
    BY <1>1, <1>4, <1>5

LEMMA LogIs ==
    ASSUME IInv, NEW d \in Direction
    PROVE  /\ Log(d) \in Seq(PieceType) /\ Window(sent[d], Size(Log(d)), buffer[d])
           /\ Len(Delivered(d)) = Size(Log(d)) + Len(buffer[d])
<1> DEFINE t == FlatMap(Log(d), BytesOf)
           b == buffer[d]
           s == Stream(d)
           D == Delivered(d)
<1>1. pieces[d] \in Seq(PieceType) /\ call \in Seq(PieceType) /\ b \in Seq(Byte)
    BY DEF IInv, Typed
<1>2. Log(d) \in Seq(PieceType) /\ t = Bytes(pieces[d]) \o (IF parsing = d THEN Bytes(call) ELSE <<>>)
    <2>1. Bytes(pieces[d]) = FlatMap(pieces[d], BytesOf) /\ Bytes(call) = FlatMap(call, BytesOf)
        BY <1>1, BytesIs
    <2>2. CASE parsing = d
        <3>1. Log(d) = pieces[d] \o call
            BY <2>2 DEF Log
        <3>2. pieces[d] \o call \in Seq(PieceType)
            BY <1>1, ConcatProperties
        <3>3. \A x, y \in Seq(PieceType) :
                 FlatMap(x \o y, BytesOf) = FlatMap(x, BytesOf) \o FlatMap(y, BytesOf)
            BY Maps, FlatMapJoin
        <3>4. QED
            BY <1>1, <2>1, <2>2, <3>1, <3>2, <3>3
    <2>3. CASE parsing # d
        <3>1. Log(d) = pieces[d]
            BY <2>3 DEF Log
        <3>2. FlatMap(pieces[d], BytesOf) \in Seq(Byte)
            BY PartsType DEF IInv
        <3>3. FlatMap(pieces[d], BytesOf) \o <<>> = FlatMap(pieces[d], BytesOf)
            BY <3>2, ConcatEmptySeq
        <3>4. QED
            BY <1>1, <2>1, <2>3, <3>1, <3>3
    <2>4. QED
        BY <2>2, <2>3
<1>3. t \in Seq(Byte)
    BY <1>2, Maps, FlatMapType
<1>4. D = t \o b
    BY <1>2 DEF Delivered
<1>5. IsPrefix(D, s) /\ s \in Seq(Byte)
    BY AccountFollows, PartsType DEF IInv, BytesAccounted
<1>6. s = Laid(sent[d])
    BY SentIs DEF IInv
<1> HIDE DEF t, s, D, b
<1>7. /\ D \in Seq(Byte) /\ Len(D) = Len(t) + Len(b) /\ Len(t) \in Nat /\ Len(b) \in Nat
      /\ \A i \in 1 .. Len(t) + Len(b) : D[i] = IF i <= Len(t) THEN t[i] ELSE b[i - Len(t)]
    BY <1>1, <1>3, <1>4, ConcatProperties, LenProperties
<1>8. Len(D) <= Len(s) /\ SubSeq(D, 1, Len(D)) = SubSeq(s, 1, Len(D))
    BY <1>5 DEF IsPrefix
<1>9. ASSUME NEW j \in 1 .. Len(b) PROVE b[j] = s[Len(t) + j]
    <2> DEFINE L == Len(t)
               M == Len(b)
    <2>1. L \in Nat /\ M \in Nat /\ Len(D) = L + M /\ j \in 1 .. M
        BY <1>7
    <2>2. SubSeq(s, 1, Len(D)) = D
        BY <1>7, <1>8, SubSeqFull
    <2> HIDE DEF L, M
    <2>3. L + j \in 1 .. Len(D) /\ ~(L + j <= L) /\ (L + j) - L = j /\ L + j \in 1 .. L + M
        BY <2>1
    <2>4. D[L + j] = b[j]
        BY <1>7, <2>3 DEF L, M
    <2>5. SubSeq(s, 1, Len(D))[L + j] = s[L + j]
        <3> DEFINE n == L + j
                   N == Len(D)
        <3>1. n \in 1 .. N /\ N \in Nat
            BY <2>1, <2>3
        <3> HIDE DEF n, N
        <3>2. SubSeq(s, 1, N)[n] = s[n]
            BY <3>1
        <3>3. QED
            BY <3>2 DEF n, N
    <2>6. QED
        BY <2>2, <2>4, <2>5 DEF L
<1>10. Window(sent[d], Len(t), b)
    BY <1>1, <1>6, <1>7, <1>8, <1>9 DEF Window, b
<1>11. QED
    BY <1>2, <1>4, <1>7, <1>10 DEF Size, t, b, D

\* A stream the properties speak of is one of the lemmas above.
LEMMA GoodParse ==
    ASSUME IInv, NEW d \in Direction, Good(d)
    PROVE  Parse(d, sent[d], Log(d), buffer[d])
<1>1. /\ sent[d] \in Seq(Segment) /\ Log(d) \in Seq(PieceType)
      /\ Window(sent[d], Size(Log(d)), buffer[d])
    BY SentIs, LogIs DEF IInv
<1>2. Real(d, sent[d])
    <2>1. ASSUME NEW i \in 1 .. Len(sent[d]) PROVE Genuine(d, sent[d][i])
        <3>1. sent[d][i] \in Segments[d]
            BY ElementOfSeq DEF IInv, Typed
        <3>2. i \in DOMAIN sent[d]
            BY <1>1, LenProperties
        <3>3. sent[d][i].real
            BY <3>2 DEF Good, OnlyPackets
        <3>4. QED
            BY <3>1, <3>3, GameAssumption
    <2>2. QED
        BY <1>1, <2>1 DEF Real
<1>3. d = "c2s" => Clear(sent[d])
    BY DEF Good, Ambiguous, Clear
<1>4. QED
    BY <1>1, <1>2, <1>3 DEF Parse

\* A direction that a step does not touch.
LEMMA Untouched ==
    ASSUME NEW e \in Direction, Parsed(e), Good(e)' => Good(e),
           sent' = sent, Log(e)' = Log(e), buffer'[e] = buffer[e], (parsing' = e) <=> (parsing = e)
    PROVE  Parsed(e)'
<1> SUFFICES ASSUME Good(e)'
             PROVE  \E k \in 0 .. Len(sent[e]) :
                       IF parsing' = e THEN Stands(e, sent[e], Log(e), buffer[e], k, TRUE)
                                       ELSE Stands(e, sent[e], Log(e), buffer[e], k, FALSE)
    BY DEF Parsed
<1>1. PICK k \in 0 .. Len(sent[e]) :
         IF parsing = e THEN Stands(e, sent[e], Log(e), buffer[e], k, TRUE)
                        ELSE Stands(e, sent[e], Log(e), buffer[e], k, FALSE)
    BY DEF Parsed
<1>2. CASE parsing = e
    <2>1. parsing' = e /\ Stands(e, sent[e], Log(e), buffer[e], k, TRUE)
        BY <1>1, <1>2
    <2>2. QED
        BY <2>1
<1>3. CASE parsing # e
    <2>1. parsing' # e /\ Stands(e, sent[e], Log(e), buffer[e], k, FALSE)
        BY <1>1, <1>3
    <2>2. QED
        BY <2>1
<1>4. QED
    BY <1>2, <1>3

\* What is good now was good before: pieces only come in addition.
LEMMA GoodBefore ==
    ASSUME IInv, NEW d \in Direction, Good(d)', sent' = sent, torn => torn',
           \A e \in Direction : pieces'[e] = pieces[e]
                                \/ \E x \in Seq(PieceType) : pieces'[e] = pieces[e] \o x
    PROVE  Good(d)
<1>1. OnlyPackets(d) /\ (d = "c2s" => ~Ambiguous /\ ~torn)
    BY DEF Good, OnlyPackets, Ambiguous
<1>2. ASSUME d = "c2s" PROVE NeverPanicked
    <2>1. NeverPanicked'
        BY <1>2 DEF Good
    <2>2. SUFFICES ASSUME NEW e \in Direction, NEW i \in DOMAIN pieces[e] PROVE pieces[e][i].what # "lost"
        BY DEF NeverPanicked
    <2>3. CASE pieces'[e] = pieces[e]
        BY <2>1, <2>3 DEF NeverPanicked
    <2>4. ASSUME NEW x \in Seq(PieceType), pieces'[e] = pieces[e] \o x PROVE pieces[e][i].what # "lost"
        <3>1. pieces[e] \in Seq(PieceType)
            BY DEF IInv, Typed
        <3>2. /\ DOMAIN pieces[e] = 1 .. Len(pieces[e]) /\ Len(pieces[e]) \in Nat
              /\ Len(x) \in Nat
            BY <3>1, LenProperties
        <3>3. DOMAIN pieces'[e] = 1 .. Len(pieces[e]) + Len(x) /\ pieces'[e][i] = pieces[e][i]
            BY <2>4, <3>1, <3>2, Longer
        <3>4. i \in DOMAIN pieces'[e]
            BY <3>2, <3>3
        <3>5. QED
            BY <2>1, <3>3, <3>4 DEF NeverPanicked
    <2>5. QED
        BY <2>3, <2>4
<1>3. QED
    BY <1>1, <1>2 DEF Good

\* Outside tryParsePackets, but for a chunk that comes in, nothing moves.
LEMMA ParseSilent ==
    ASSUME ParseInv, UNCHANGED <<sent, parsing, buffer, call, pieces, torn>> PROVE ParseInv'
<1> SUFFICES ASSUME NEW d \in Direction PROVE Parsed(d)'
    BY DEF ParseInv
<1>1. Parsed(d)
    BY DEF ParseInv
<1>2. Good(d)' => Good(d)
    BY DEF Good, OnlyPackets, NeverPanicked, Ambiguous
<1>3. Log(d)' = Log(d)
    BY DEF Log
<1>4. QED
    BY <1>1, <1>2, <1>3, Untouched

\* One iteration that takes pieces off the buffer.
LEMMA ParseOne ==
    ASSUME IInv, ParseInv, NEW d \in Direction, parsing = d, NEW rs \in Seq(PieceType), NEW left,
           call' = call \o rs, buffer' = [buffer EXCEPT ![d] = left],
           UNCHANGED <<sent, parsing, pieces, torn>>,
           Good(d) => \A k \in 0 .. Len(sent[d]) :
              Stands(d, sent[d], Log(d), buffer[d], k, TRUE) =>
                 \E n \in 0 .. Len(sent[d]) : Stands(d, sent[d], Log(d) \o rs, left, n, TRUE)
    PROVE  ParseInv'
<1> SUFFICES ASSUME NEW e \in Direction PROVE Parsed(e)'
    BY DEF ParseInv
<1>1. Parsed(e) /\ buffer \in [Direction -> Seq(Byte)]
    BY DEF ParseInv, IInv, Typed
<1>2. Good(e)' => Good(e)
    BY DEF Good, OnlyPackets, NeverPanicked, Ambiguous
<1>3. CASE e = d
    <2>1. SUFFICES ASSUME Good(d) PROVE Parsed(d)'
        BY <1>2, <1>3 DEF Parsed
    <2>2. PICK k \in 0 .. Len(sent[d]) : Stands(d, sent[d], Log(d), buffer[d], k, TRUE)
        BY <1>1, <1>3, <2>1 DEF Parsed
    <2>3. PICK n \in 0 .. Len(sent[d]) : Stands(d, sent[d], Log(d) \o rs, left, n, TRUE)
        BY <2>1, <2>2
    <2>4. Log(d)' = Log(d) \o rs
        <3>1. pieces[d] \in Seq(PieceType) /\ call \in Seq(PieceType)
            BY DEF IInv, Typed
        <3>2. pieces[d] \o (call \o rs) = (pieces[d] \o call) \o rs
            BY <3>1, PiecesAssociate
        <3>3. QED
            BY <3>2 DEF Log
    <2>5. buffer'[d] = left /\ parsing' = d /\ sent' = sent
        BY <1>1
    <2>6. Stands(d, sent'[d], Log(d)', buffer'[d], n, TRUE)
        BY <2>3, <2>4, <2>5
    <2>7. QED
        BY <2>5, <2>6 DEF Parsed
<1>4. CASE e # d
    <2>1. Log(e)' = Log(e) /\ buffer'[e] = buffer[e]
        BY <1>1, <1>4 DEF Log
    <2>2. QED
        BY <1>1, <1>2, <2>1, Untouched
<1>5. QED
    BY <1>3, <1>4

LEMMA ParseSkip == ASSUME IInv, ParseInv, NEW d \in Direction, SkipByte(d) PROVE ParseInv'
<1> DEFINE b  == buffer[d]
           p  == Piece("skip", <<Head(b)>>)
           rs == <<p>>
<1>1. /\ parsing = d /\ Len(b) >= 2 /\ ~Starts(d, b)
      /\ call' = Append(call, p) /\ buffer' = [buffer EXCEPT ![d] = Tail(b)]
      /\ UNCHANGED <<sent, parsing, pieces, torn>>
    BY DEF SkipByte
<1>2. b \in Seq(Byte) /\ call \in Seq(PieceType)
    BY DEF IInv, Typed
<1>3. p \in PieceType
    <2>1. b # <<>>
        BY <1>1
    <2>2. Head(b) \in Byte
        BY <1>2, <2>1, HeadTailProperties
    <2>3. QED
        BY <2>2 DEF Piece, PieceType
<1>4. ASSUME Good(d), NEW k \in 0 .. Len(sent[d]), Stands(d, sent[d], Log(d), b, k, TRUE)
      PROVE  Stands(d, sent[d], Log(d) \o rs, Tail(b), k, TRUE)
    BY <1>1, <1>4, GoodParse, SkipKeeps
<1> HIDE DEF p, b
<1>5. call' = call \o rs /\ rs \in Seq(PieceType)
    BY <1>1, <1>2, <1>3, AppendIsConcat
<1> HIDE DEF rs
<1>6. QED
    BY <1>1, <1>4, <1>5, ParseOne DEF b

LEMMA ParseTake == ASSUME IInv, ParseInv, NEW d \in Direction, TakePacket(d) PROVE ParseInv'
<1> DEFINE b    == buffer[d]
           n    == Measure(SpecOf(d, b), b).size
           rest == SubSeq(b, n + 1, Len(b))
           sum  == SumOf(d, rest)
           left == SubSeq(rest, Len(sum) + 1, Len(rest))
           p    == Piece("packet", SubSeq(b, 1, n))
           q    == Piece("sum", sum)
           rs   == <<p, q>>
<1>1. /\ parsing = d /\ Starts(d, b) /\ Measure(SpecOf(d, b), b).valid /\ n >= 0
      /\ call' = call \o rs /\ buffer' = [buffer EXCEPT ![d] = left]
      /\ UNCHANGED <<sent, parsing, pieces, torn>>
    BY DEF TakePacket, SumOf
<1>2. b \in Seq(Byte)
    BY DEF IInv, Typed
<1>3. n \in 0 .. Len(b)
    <2>1. n \in 1 .. Len(b) /\ Len(b) \in Nat
        BY <1>1, <1>2, Measured, LenProperties
    <2> HIDE DEF n
    <2>2. QED
        BY <2>1
<1>4. rs \in Seq(PieceType)
    <2> HIDE DEF n
    <2>1. SubSeq(b, 1, n) \in Seq(Byte) /\ rest \in Seq(Byte)
        BY <1>2, <1>3, CutAt
    <2> HIDE DEF rest
    <2>2. sum \in Seq(Byte)
        BY <2>1, SumIs
    <2> HIDE DEF sum
    <2>3. p \in PieceType /\ q \in PieceType
        BY <2>1, <2>2 DEF Piece, PieceType
    <2>4. QED
        BY <2>3
<1>5. ASSUME Good(d), NEW k \in 0 .. Len(sent[d]), Stands(d, sent[d], Log(d), b, k, TRUE)
      PROVE  k + 1 \in 0 .. Len(sent[d]) /\ Stands(d, sent[d], Log(d) \o rs, left, k + 1, TRUE)
    BY <1>1, <1>5, GoodParse, TakeKeeps
<1> HIDE DEF rs, left
<1>6. QED
    BY <1>1, <1>4, <1>5, ParseOne DEF b

\* The client's table has no size that makes the parser panic.
LEMMA SendSizes ==
    ASSUME NEW b \in Seq(Byte), Starts("c2s", b)
    PROVE  ~(Measure(SpecOf("c2s", b), b).size < 0)
<1> DEFINE spec == SpecOf("c2s", b)
           m    == Measure(spec, b)
<1>1. /\ spec.type \in {"fixed", "fixedMin", "indicated", "unknown", "http"} /\ spec.type # "unknown"
      /\ spec.size \in Int /\ (spec.size >= 2 \/ spec.size = -1)
      /\ spec.type \in {"fixed", "fixedMin"} => spec.size # -1
    <2>1. PacketDatabase("c2s") = Send /\ Opcode(b) \in DOMAIN Send
        BY DEF PacketDatabase, Starts
    <2>2. spec \in PacketSpec /\ (spec.size >= 2 \/ spec.size = -1)
        BY <2>1, WireAssumption DEF SpecOf
    <2>3. spec.type # "unknown"
        BY DEF Starts, SpecOf
    <2>4. spec.type \in {"fixed", "fixedMin"} => spec.size # -1
        BY <2>1, GameAssumption DEF SpecOf
    <2>5. QED
        BY <2>2, <2>3, <2>4 DEF PacketSpec
<1> HIDE DEF spec
<1>2. CASE spec.type \in {"fixed", "fixedMin"}
    <2>1. m.size = spec.size
        BY <1>2 DEF Measure
    <2> HIDE DEF m
    <2>2. spec.size \in Int /\ spec.size >= 2
        BY <1>1, <1>2
    <2>3. QED
        BY <2>1, <2>2 DEF m, spec
<1>3. CASE spec.type = "indicated"
    <2> DEFINE x == Uint16(SubSeq(b, 3, 4))
    <2>1. m.size = IF Len(b) >= 4 THEN Indicated(b) ELSE 0
        BY <1>3 DEF Measure
    <2>2. CASE Len(b) >= 4
        <3>1. x \in Int
            <4>1. b[3] \in Byte /\ b[4] \in Byte
                <5>1. Len(b) \in Nat
                    BY LenProperties
                <5>2. 3 \in 1 .. Len(b) /\ 4 \in 1 .. Len(b)
                    BY <2>2, <5>1
                <5>3. QED
                    BY <5>2, ElementOfSeq
            <4>2. SubSeq(b, 3, 4)[1] = b[3] /\ SubSeq(b, 3, 4)[2] = b[4]
                OBVIOUS
            <4>3. x = b[3] + Radix * b[4]
                BY <4>2 DEF Uint16
            <4>4. Radix \in Nat
                BY Sizes
            <4>5. QED
                BY <4>1, <4>3, <4>4 DEF Byte
        <3> HIDE DEF x
        <3>2. Indicated(b) = IF x < 2 THEN 2 ELSE x
            BY DEF Indicated, x
        <3>3. ~(Indicated(b) < 0)
            BY <3>1, <3>2
        <3> HIDE DEF m
        <3>4. m.size = Indicated(b)
            BY <2>1, <2>2
        <3>5. QED
            BY <3>3, <3>4 DEF m, spec
    <2>3. CASE ~(Len(b) >= 4)
        <3> HIDE DEF m
        <3>1. m.size = 0
            BY <2>1, <2>3
        <3>2. ~(m.size < 0)
            BY <3>1
        <3>3. QED
            BY <3>2 DEF m, spec
    <2>4. QED
        BY <2>2, <2>3
<1>4. CASE spec.type = "http"
    <2>1. m.size = HTTPSize(b)
        BY <1>4 DEF Measure
    <2>2. HTTPSize(b) \in Nat
        <3> DEFINE Ends == {i \in Len(Delimiter) .. Len(b) :
                               SubSeq(b, i - Len(Delimiter) + 1, i) = Delimiter}
        <3>1. HTTPSize(b) = IF Ends = {} THEN 0 ELSE CHOOSE i \in Ends : \A j \in Ends : i <= j
            BY DEF HTTPSize
        <3>2. Ends \subseteq Nat
            <4>1. Len(Delimiter) \in Nat
                BY WireAssumption, LenProperties
            <4>2. QED
                BY <4>1
        <3> HIDE DEF Ends
        <3>3. CASE Ends = {}
            BY <3>1, <3>3
        <3>4. CASE Ends # {}
            <4>1. HTTPSize(b) \in Ends
                BY <3>1, <3>2, <3>4, Least
            <4>2. QED
                BY <3>2, <4>1
        <3>5. QED
            BY <3>3, <3>4
    <2> HIDE DEF m
    <2>3. ~(m.size < 0)
        BY <2>1, <2>2
    <2>4. QED
        BY <2>3 DEF m, spec
<1>5. QED
    BY <1>1, <1>2, <1>3, <1>4

\* A panic is the server's: a packet the table has no size for.  It is not one
\* of those the game sends, and it ends what is said of the client.
LEMMA ParsePanic == ASSUME IInv, ParseInv, NEW d \in Direction, Panic(d) PROVE ParseInv'
<1> DEFINE b == buffer[d]
<1>1. /\ parsing = d /\ Starts(d, b) /\ Measure(SpecOf(d, b), b).size < 0 /\ sent' = sent
      /\ pieces' = [e \in Direction |-> pieces[e] \o (IF e = d THEN LostOf(call) ELSE <<>>)
                                                  \o <<Piece("lost", buffer[e])>>]
    BY DEF Panic, LostOf
<1>2. /\ b \in Seq(Byte) /\ Len(b) \in Nat /\ call \in Seq(PieceType)
      /\ pieces \in [Direction -> Seq(PieceType)] /\ buffer \in [Direction -> Seq(Byte)]
    BY LenProperties DEF IInv, Typed
<1> HIDE DEF b
<1>3. d # "c2s"
    BY <1>1, <1>2, SendSizes
<1>4. d = "s2c"
    BY <1>3 DEF Direction
<1>5. ~NeverPanicked'
    <2> DEFINE u == pieces["c2s"]
               w == Piece("lost", buffer["c2s"])
               us == <<w>>
               vs == u \o <<>>
    <2>1. "c2s" \in Direction /\ pieces'["c2s"] = vs \o us
        BY <1>1, <1>3 DEF Direction
    <2>2. u \in Seq(PieceType) /\ vs = u /\ w \in PieceType /\ w.what = "lost"
        <3>1. u \in Seq(PieceType) /\ buffer["c2s"] \in Seq(Byte)
            BY <1>2, <2>1
        <3>2. QED
            BY <3>1, ConcatEmptySeq DEF Piece, PieceType
    <2> HIDE DEF u, w, vs
    <2>3. us \in Seq(PieceType) /\ Len(us) = 1 /\ us[1] = w /\ 1 \in 1 .. Len(us)
        BY <2>2
    <2> HIDE DEF us
    <2>4. /\ DOMAIN (u \o us) = 1 .. Len(u) + Len(us)
          /\ (u \o us)[Len(u) + 1] = us[1] /\ Len(u) \in Nat
        BY <2>2, <2>3, Longer, LenProperties
    <2>5. Len(u) + 1 \in DOMAIN pieces'["c2s"] /\ pieces'["c2s"][Len(u) + 1].what = "lost"
        BY <2>1, <2>2, <2>3, <2>4
    <2>6. QED
        BY <2>1, <2>5 DEF NeverPanicked
<1>6. ~OnlyPackets("s2c")
    <2>1. SUFFICES ASSUME OnlyPackets("s2c") PROVE FALSE
        OBVIOUS
    <2>2. Good(d)
        BY <1>4, <2>1 DEF Good
    <2> DEFINE ss == sent[d]
               a  == Size(Log(d))
    <2>3. PICK k \in 0 .. Len(ss) : Stands(d, ss, Log(d), b, k, TRUE)
        BY <1>1, <2>2 DEF ParseInv, Parsed, b
    <2>4. Parse(d, ss, Log(d), b)
        BY <2>2, GoodParse DEF b
    <2> HIDE DEF ss, a
    <2>5. /\ Real(d, ss) /\ (d = "c2s" => Clear(ss)) /\ Window(ss, a, b) /\ Place(ss, k, a)
        BY <2>3, <2>4 DEF Parse, Stands, a
    <2>6. Len(b) >= 2
        BY <1>1 DEF Starts
    <2>7. a = Upto(ss, k)
        BY <1>1, <2>5, <2>6, Placed
    <2>8. Window(ss, Upto(ss, k), b) /\ Len(b) > 0
        BY <1>2, <2>5, <2>6, <2>7
    <2>9. ss[k + 1] \in Segment /\ Genuine(d, ss[k + 1]) /\ Agree(b, ss[k + 1].bytes)
        BY <2>5, <2>8, AtPacket
    <2>10. ~(Measure(SpecOf(d, b), b).size < 0)
        BY <1>2, <2>6, <2>9, Recognised
    <2>11. QED
        BY <1>1, <2>10
<1>7. ASSUME NEW e \in Direction PROVE ~Good(e)'
    <2>1. CASE e = "c2s"
        BY <1>5, <2>1 DEF Good
    <2>2. CASE e = "s2c"
        BY <1>1, <1>6, <2>2 DEF Good, OnlyPackets
    <2>3. QED
        BY <2>1, <2>2 DEF Direction
<1>8. QED
    BY <1>7 DEF ParseInv, Parsed

LEMMA ParseReturn == ASSUME IInv, ParseInv, NEW d \in Direction, Return(d) PROVE ParseInv'
<1> DEFINE b == buffer[d]
<1>1. /\ parsing = d
      /\ Len(b) < 2 \/ (Starts(d, b) /\ ~Measure(SpecOf(d, b), b).valid)
      /\ pieces' = [pieces EXCEPT ![d] = @ \o call] /\ call' = <<>> /\ parsing' = "none"
      /\ UNCHANGED <<sent, buffer, torn>>
    BY DEF Return
<1>2. call \in Seq(PieceType) /\ pieces \in [Direction -> Seq(PieceType)]
    BY DEF IInv, Typed
<1> HIDE DEF b
<1> SUFFICES ASSUME NEW e \in Direction PROVE Parsed(e)'
    BY DEF ParseInv
<1>3. parsing' # e /\ Parsed(e)
    BY <1>1 DEF ParseInv, Direction
<1>4. Good(e)' => Good(e)
    <2>1. \A o \in Direction : pieces'[o] = pieces[o]
                               \/ \E x \in Seq(PieceType) : pieces'[o] = pieces[o] \o x
        BY <1>1, <1>2
    <2>2. QED
        BY <1>1, <2>1, GoodBefore
<1>5. Log(e)' = Log(e)
    <2>1. CASE e = d
        BY <1>1, <1>2, <1>3, <2>1 DEF Log
    <2>2. CASE e # d
        BY <1>1, <1>2, <1>3, <2>2 DEF Log
    <2>3. QED
        BY <2>1, <2>2
<1>6. CASE e = d
    <2>1. SUFFICES ASSUME Good(d) PROVE Parsed(d)'
        BY <1>4, <1>6 DEF Parsed
    <2>2. PICK k \in 0 .. Len(sent[d]) : Stands(d, sent[d], Log(d), b, k, TRUE)
        BY <1>1, <1>3, <1>6, <2>1 DEF Parsed, b
    <2>3. Parse(d, sent[d], Log(d), b)
        BY <2>1, GoodParse DEF b
    <2>4. Stands(d, sent[d], Log(d), b, k, FALSE)
        BY <1>1, <2>2, <2>3, ReturnKeeps
    <2>5. Stands(d, sent'[d], Log(d)', buffer'[d], k, FALSE) /\ sent' = sent /\ parsing' # d
        BY <1>1, <1>3, <1>5, <1>6, <2>4 DEF b
    <2>6. QED
        BY <2>5 DEF Parsed
<1>7. CASE e # d
    <2>1. buffer'[e] = buffer[e] /\ sent' = sent /\ parsing # e
        BY <1>1, <1>7
    <2>2. QED
        BY <1>3, <1>4, <1>5, <2>1, Untouched
<1>8. QED
    BY <1>6, <1>7

\* A chunk comes in between two calls.
LEMMA ParseChunk ==
    ASSUME IInv, ParseInv, NEW d \in Direction, NEW data \in Seq(Byte),
           parsing = "none", call = <<>>, UNCHANGED <<sent, call, pieces>>,
           parsing' = d, buffer' = [buffer EXCEPT ![d] = @ \o data], torn => torn',
           d = "c2s" /\ Tears(Len(Delivered(d)), Len(Delivered(d)) + Len(data)) => torn'
    PROVE  ParseInv'
<1> DEFINE c    == buffer[d] \o data
           x    == Size(Log(d))
           b    == buffer[d]
           from == Len(Delivered(d))
<1>1. /\ pieces \in [Direction -> Seq(PieceType)] /\ buffer \in [Direction -> Seq(Byte)]
      /\ b \in Seq(Byte)
    BY DEF IInv, Typed
<1>2. buffer' = [buffer EXCEPT ![d] = c]
    OBVIOUS
<1> HIDE DEF c, from
<1> SUFFICES ASSUME NEW e \in Direction PROVE Parsed(e)'
    BY DEF ParseInv
<1>3. Parsed(e) /\ parsing # e
    BY DEF ParseInv, Direction
<1>4. Good(e)' => Good(e)
    BY GoodBefore
<1>5. Log(e)' = pieces[e] /\ Log(e) = pieces[e]
    <2>1. pieces[e] \o <<>> = pieces[e]
        BY <1>1, ConcatEmptySeq
    <2>2. QED
        BY <1>3, <2>1 DEF Log
<1>6. CASE e # d
    <2>1. buffer'[e] = buffer[e] /\ parsing' # e
        BY <1>1, <1>2, <1>6
    <2>2. QED
        BY <1>3, <1>4, <1>5, <2>1, Untouched
<1>7. CASE e = d
    <2>1. SUFFICES ASSUME Good(d)' PROVE Parsed(d)'
        BY <1>7 DEF Parsed
    <2>2. Good(d)
        BY <1>4, <1>7, <2>1
    <2>3. PICK k \in 0 .. Len(sent[d]) : Stands(d, sent[d], Log(d), b, k, FALSE)
        BY <1>3, <1>7, <2>2 DEF Parsed
    <2>4. Parse(d, sent[d], Log(d), b)
        BY <2>2, GoodParse
    <2>5. from = x + Len(b) /\ x \in Nat /\ Len(b) \in Nat /\ Len(data) \in Nat
        BY <1>1, LogIs, SizeType, LenProperties DEF from
    <2>6. from + Len(data) = x + Len(c)
        <3>1. Len(c) = Len(b) + Len(data)
            <4> HIDE DEF b
            <4>1. Len(b \o data) = Len(b) + Len(data)
                BY <1>1, Parts
            <4>2. QED
                BY <4>1 DEF b, c
        <3> DEFINE B == Len(b)
                   F == Len(data)
                   C == Len(c)
        <3>2. from = x + B /\ C = B + F /\ x \in Nat /\ B \in Nat /\ F \in Nat
            BY <2>5, <3>1
        <3> HIDE DEF x, B, F, C
        <3>3. from + F = x + C
            BY <3>2
        <3>4. QED
            BY <3>3 DEF F, C
    <2>7. d = "c2s" => ~\E i \in 1 .. Len(sent[d]) - 1 :
                           /\ sent[d][i].sum = <<>> /\ x + Len(b) < EndAt(sent[d], i)
                           /\ x + Len(c) = EndAt(sent[d], i) + 1
        <3>1. SUFFICES ASSUME d = "c2s", NEW i \in 1 .. Len(sent[d]) - 1, sent[d][i].sum = <<>>,
                              x + Len(b) < EndAt(sent[d], i), x + Len(c) = EndAt(sent[d], i) + 1
                       PROVE  FALSE
            BY Zenon
        <3>2. i \in 1 .. Len(sent[d])
            <4>1. Len(sent[d]) \in Nat
                BY SentIs, LenProperties DEF IInv
            <4>2. QED
                BY <4>1
        <3>3. EndOf(d, i) = EndAt(sent[d], i)
            BY <3>2, SentIs DEF IInv
        <3> HIDE DEF x, b
        <3>4. from < EndOf(d, i) /\ from + Len(data) = EndOf(d, i) + 1
            BY <2>5, <2>6, <3>1, <3>3
        <3>5. Tears(from, from + Len(data))
            <4>1. i \in 1 .. Len(sent["c2s"]) - 1 /\ sent["c2s"][i].sum = <<>>
                  /\ from < EndOf("c2s", i) /\ from + Len(data) = EndOf("c2s", i) + 1
                BY <3>1, <3>4
            <4>2. QED
                BY <4>1 DEF Tears
        <3>6. torn'
            BY <3>1, <3>5 DEF from
        <3>7. ~torn'
            BY <2>1, <3>1 DEF Good
        <3>8. QED
            BY <3>6, <3>7
    <2>8. Stands(d, sent[d], Log(d), c, k, TRUE)
        BY <2>3, <2>4, <2>7, ChunkKeeps
    <2>9. Log(d)' = Log(d) /\ buffer'[d] = c /\ sent' = sent
        BY <1>1, <1>2, <1>5, <1>7
    <2>10. Stands(d, sent'[d], Log(d)', buffer'[d], k, TRUE) /\ k \in 0 .. Len(sent'[d])
        BY <2>8, <2>9
    <2>11. QED
        BY <2>10 DEF Parsed
<1>8. QED
    BY <1>6, <1>7

LEMMA ParseReceive == ASSUME IInv, ParseInv, ReceiveFrame PROVE ParseInv'
<1> DEFINE f == Head(inFlight)
<1>1. inFlight # <<>>
    <2>1. SUFFICES ASSUME inFlight = <<>> PROVE FALSE
        OBVIOUS
    <2>2. socket = <<>>
        BY <2>1, FlatMapEmpty DEF IInv, InStep
    <2>3. Len(socket) >= 7
        BY DEF ReceiveFrame, Readable
    <2>4. Len(<<>>) = 0
        OBVIOUS
    <2>5. QED
        BY <2>2, <2>3, <2>4
<1>2. f \in FrameSet /\ DecodeFrame(socket) = f
    BY <1>1, OldestFirst DEF IInv
<1>3. PICK d \in Direction, data \in Seq(Byte) : f.dir = d /\ f.data = data
    BY <1>2 DEF FrameSet
<1>4. parsing = "none" /\ call = <<>> /\ UNCHANGED <<sent, call, pieces>>
    BY DEF ReceiveFrame, IInv, Calling
<1>5. IF f.type = "data"
         THEN /\ parsing' = d /\ buffer' = [buffer EXCEPT ![d] = @ \o data]
              /\ torn' = (torn \/ (d = "c2s" /\ Tears(Len(Delivered(d)), Len(Delivered(d)) + Len(data))))
         ELSE UNCHANGED <<parsing, buffer, torn>>
    BY <1>2, <1>3 DEF ReceiveFrame, ToRawChunk
<1> HIDE DEF f
<1>6. CASE f.type # "data"
    BY <1>4, <1>5, <1>6, ParseSilent
<1>7. CASE f.type = "data"
    <2>1. parsing' = d /\ buffer' = [buffer EXCEPT ![d] = @ \o data]
        BY <1>5, <1>7
    <2>2. torn => torn'
        BY <1>5, <1>7
    <2>3. d = "c2s" /\ Tears(Len(Delivered(d)), Len(Delivered(d)) + Len(data)) => torn'
        BY <1>5, <1>7, Zenon
    <2>4. QED
        BY <1>4, <2>1, <2>2, <2>3, ParseChunk
<1>8. QED
    BY <1>6, <1>7

LEMMA ParseInit == Init => ParseInv
<1> SUFFICES ASSUME Init, NEW d \in Direction, Good(d)
             PROVE  \E k \in 0 .. Len(sent[d]) :
                       IF parsing = d THEN Stands(d, sent[d], Log(d), buffer[d], k, TRUE)
                                      ELSE Stands(d, sent[d], Log(d), buffer[d], k, FALSE)
    BY DEF ParseInv, Parsed
<1>1. IInv
    BY InitInv
<1>2. parsing # d /\ buffer[d] = <<>> /\ Log(d) = <<>>
    <2>1. parsing = "none" /\ buffer[d] = <<>> /\ pieces[d] = <<>>
        BY DEF Init
    <2>2. QED
        BY <2>1 DEF Log, Direction
<1>3. Parse(d, sent[d], <<>>, <<>>)
    BY <1>1, <1>2, GoodParse
<1> DEFINE ss == sent[d]
<1> HIDE DEF ss
<1>4. /\ Real(d, ss) /\ (d = "c2s" => Clear(ss)) /\ Window(ss, Size(<<>>), <<>>)
      /\ ss \in Seq(Segment)
    BY <1>3 DEF Parse, Real, ss
<1>5. Size(<<>>) = 0
    BY FlatMapEmpty DEF Size
<1>6. 0 \in 0 .. Len(ss) /\ Upto(ss, 0) = 0
    BY <1>4, LaidEnds
<1>7. Place(ss, 0, Size(<<>>))
    BY <1>5, <1>6 DEF Place
<1>8. 0 = Len(ss) \/ Size(<<>>) + Len(<<>>) < EndAt(ss, 0 + 1)
    <2>1. Len(<<>>) < 2
        OBVIOUS
    <2>2. QED
        BY <1>4, <1>6, <1>7, <2>1, Waits
<1>9. AllFound(ss, <<>>, 0)
    BY DEF AllFound
<1>10. Stands(d, ss, <<>>, <<>>, 0, FALSE)
    BY <1>7, <1>8, <1>9 DEF Stands
<1>11. QED
    BY <1>2, <1>6, <1>10 DEF ss

LEMMA ParseStep == IInv /\ ParseInv /\ [Next]_vars => ParseInv'
<1> SUFFICES ASSUME IInv, ParseInv, [Next]_vars PROVE ParseInv'
    OBVIOUS
<1>1. CASE Open \/ Close
    BY <1>1, ParseSilent DEF Open, Close
<1>2. CASE \E d \in Direction, n \in 1 .. MaxChunk : Relay(d, n)
    BY <1>2, ParseSilent DEF Relay
<1>3. CASE ReceiveFrame
    BY <1>3, ParseReceive
<1>4. CASE \E d \in Direction : SkipByte(d)
    BY <1>4, ParseSkip
<1>5. CASE \E d \in Direction : TakePacket(d)
    BY <1>5, ParseTake
<1>6. CASE \E d \in Direction : Panic(d)
    BY <1>6, ParsePanic
<1>7. CASE \E d \in Direction : Return(d)
    BY <1>7, ParseReturn
<1>8. CASE UNCHANGED vars
    BY <1>8, ParseSilent DEF vars
<1>9. QED
    BY <1>1, <1>2, <1>3, <1>4, <1>5, <1>6, <1>7, <1>8 DEF Next

LEMMA ParseHolds == Spec => [](IInv /\ ParseInv)
<1>1. Init => IInv /\ ParseInv
    BY InitInv, ParseInit
<1>2. (IInv /\ ParseInv) /\ [Next]_vars => (IInv /\ ParseInv)'
    BY InvStep, ParseStep
<1>3. QED
    BY <1>1, <1>2, PTL DEF Spec

\* What the deserializer of a packet of the game gets is what was sent.
LEMMA Same ==
    ASSUME NEW d \in Direction, NEW seg \in Segment, Genuine(d, seg), NEW sum
    PROVE  ParsedPacket(d, seg.bytes, sum) =
              [opcode |-> seg.opcode, payload |-> seg.payload, checksum |-> sum]
<1> DEFINE a    == seg.bytes
           spec == PacketDatabase(d)[seg.opcode]
           head == IF spec.size = -1 THEN 4 ELSE 2
           L    == Len(a)
<1>1. Opcode(a) = seg.opcode /\ seg.payload = SubSeq(a, head + 1, L) /\ L >= head
    BY DEF Genuine
<1>2. L \in Nat
    <2>1. a \in Seq(Byte)
        BY DEF Segment
    <2>2. QED
        BY <2>1, LenProperties
<1>3. SpecOf(d, a) = spec
    BY <1>1 DEF SpecOf
<1>4. StartData(spec, L) = IF head > L THEN L ELSE head
    BY DEF StartData
<1>5. head \in Nat
    BY Zenon
<1> HIDE DEF a, spec, head, L
<1>6. ~(head > L)
    BY <1>1, <1>2, <1>5
<1>7. StartData(spec, L) = head
    BY <1>4, <1>6
<1>8. ParsedPacket(d, a, sum) =
         [opcode |-> Opcode(a), checksum |-> sum, payload |-> SubSeq(a, StartData(spec, L) + 1, L)]
    BY <1>3 DEF ParsedPacket, L
<1>9. ParsedPacket(d, a, sum) =
         [opcode |-> seg.opcode, payload |-> seg.payload, checksum |-> sum]
    BY <1>1, <1>7, <1>8
<1>10. QED
    BY <1>9 DEF a

\* Between two calls the packets found are those sent.
LEMMA SameFollows ==
    ASSUME IInv, ParseInv, parsing = "none", NEW d \in Direction, Good(d)
    PROVE  SameAsSent(d)
<1> DEFINE ss == sent[d]
           ps == pieces[d]
           b  == buffer[d]
<1>1. parsing # d /\ Log(d) = ps
    BY DEF Log, Direction
<1>2. PICK k \in 0 .. Len(ss) : Stands(d, ss, ps, b, k, FALSE)
    BY <1>1 DEF ParseInv, Parsed
<1>3. Parse(d, ss, ps, b)
    BY <1>1, GoodParse
<1>4. Len(Delivered(d)) = Size(ps) + Len(b) /\ \A i \in 1 .. Len(ss) : EndOf(d, i) = EndAt(ss, i)
    BY <1>1, LogIs, SentIs DEF IInv
<1> HIDE DEF ss, ps, b
<1>5. /\ Real(d, ss) /\ ss \in Seq(Segment) /\ Len(ss) \in Nat /\ DOMAIN ss = 1 .. Len(ss)
      /\ ps \in Seq(PieceType) /\ Len(ps) \in Nat /\ DOMAIN ps = 1 .. Len(ps) /\ k \in Nat
      /\ Size(ps) \in Nat /\ Len(b) \in Nat
    BY <1>3, SizeType, LenProperties DEF Parse, Real, Window
<1>6. ASSUME NEW n \in DOMAIN ps, NEW i \in 1 .. k, PacketAt(ss, ps, n, i) PROVE Found(d, ps, n, i)
    <2> DEFINE seg == ss[i]
               sum == ps[n + 1].bytes
    <2>1. i \in 1 .. Len(ss)
        BY <1>5
    <2>2. seg \in Segment /\ Genuine(d, seg)
        BY <1>5, <2>1, LaidAt DEF Real
    <2>3. /\ ps[n].what = "packet" /\ Size(SubSeq(ps, 1, n)) = EndAt(ss, i)
          /\ ps[n].bytes = seg.bytes /\ sum \in {<<>>, seg.sum}
        BY <1>6 DEF PacketAt
    <2>4. Len(Bytes(SubSeq(ps, 1, n))) = EndOf(d, i)
        <3>1. SubSeq(ps, 1, n) \in Seq(PieceType)
            <4>1. \A j \in 1 .. n : ps[j] \in PieceType
                <5>1. \A j \in 1 .. n : j \in 1 .. Len(ps)
                    BY <1>5
                <5>2. QED
                    BY <1>5, <5>1, ElementOfSeq
            <4>2. 1 \in Int /\ n \in Int
                BY <1>5
            <4>3. QED
                BY <4>1, <4>2, SubSeqProperties
        <3>2. Len(Bytes(SubSeq(ps, 1, n))) = Size(SubSeq(ps, 1, n))
            BY <3>1, BytesIs DEF Size
        <3>3. QED
            BY <1>4, <2>1, <2>3, <3>2
    <2>5. ParsedPacket(d, seg.bytes, sum) =
             [opcode |-> seg.opcode, payload |-> seg.payload, checksum |-> sum]
        BY <2>2, Same
    <2> HIDE DEF sum
    <2>6. ParsedPacket(d, seg.bytes, sum) \in
             {[opcode |-> seg.opcode, payload |-> seg.payload, checksum |-> x] : x \in {<<>>, seg.sum}}
        BY <2>3, <2>5
    <2>7. seg = sent[d][i]
        BY DEF ss
    <2> HIDE DEF seg
    <2>8. QED
        BY <2>3, <2>4, <2>6, <2>7 DEF Found, sum
<1>7. ASSUME NEW n \in DOMAIN ps, ps[n].what = "packet" PROVE \E i \in DOMAIN ss : Found(d, ps, n, i)
    <2>1. PICK i \in 1 .. k : PacketAt(ss, ps, n, i)
        BY <1>2, <1>7 DEF Stands, AllFound
    <2>2. i \in DOMAIN ss
        BY <1>5
    <2>3. QED
        BY <1>6, <2>1, <2>2
<1>8. ASSUME NEW i \in DOMAIN ss, EndOf(d, i) <= Len(Delivered(d)) PROVE \E n \in DOMAIN ps : Found(d, ps, n, i)
    <2>1. i \in 1 .. k
        <3>1. SUFFICES ASSUME i \notin 1 .. k PROVE FALSE
            OBVIOUS
        <3>2. i \in 1 .. Len(ss) /\ k # Len(ss) /\ k + 1 \in 1 .. i
            <4>1. i \in 1 .. Len(ss)
                BY <1>5
            <4>2. i \in Nat /\ i >= 1 /\ i <= Len(ss) /\ Len(ss) \in Nat /\ k \in Nat
                BY <1>5, <4>1
            <4>3. i > k
                BY <3>1, <4>2
            <4>4. QED
                BY <4>1, <4>2, <4>3
        <3>3. Size(ps) + Len(b) < EndAt(ss, k + 1)
            BY <1>2, <3>2 DEF Stands
        <3>4. EndAt(ss, k + 1) <= EndAt(ss, i) /\ EndAt(ss, k + 1) \in Nat /\ EndAt(ss, i) \in Nat
            BY <1>5, <3>2, EndsInOrder
        <3>5. EndOf(d, i) = EndAt(ss, i) /\ Len(Delivered(d)) = Size(ps) + Len(b)
            BY <1>4, <3>2
        <3>6. EndAt(ss, i) <= Size(ps) + Len(b)
            BY <1>8, <3>5
        <3> DEFINE x == Size(ps) + Len(b)
                   y == EndAt(ss, k + 1)
                   z == EndAt(ss, i)
        <3>7. x \in Nat /\ y \in Nat /\ z \in Nat /\ x < y /\ y <= z /\ z <= x
            BY <1>5, <3>3, <3>4, <3>6
        <3> HIDE DEF x, y, z
        <3>8. QED
            BY <3>7
    <2>2. PICK n \in DOMAIN ps : PacketAt(ss, ps, n, i)
        BY <1>2, <2>1 DEF Stands, AllFound
    <2>3. QED
        BY <1>6, <2>1, <2>2
<1>9. QED
    BY <1>7, <1>8 DEF SameAsSent, ss, ps

(* However TCP cuts the server's stream of packets, whatever they are and  *)
(* whatever the client's stream is: tryParsePackets finds exactly the      *)
(* packets sent, each in the call that has its last byte.                  *)
THEOREM ServerPacketsFound == Spec => []ServerPackets
<1>1. IInv /\ ParseInv => ServerPackets
    BY SameFollows DEF ServerPackets, Good, Direction
<1>2. QED
    BY <1>1, ParseHolds, PTL

(* The same of the client's stream: a checksum byte, if it is there, is    *)
(* given to its packet or skipped and never read as an opcode, as long as  *)
(* none reads as the start of one and no chunk tears a packet.             *)
THEOREM ClientPacketsFound == Spec => []ClientPackets
<1>1. IInv /\ ParseInv => ClientPackets
    BY SameFollows DEF ClientPackets, Good, Direction
<1>2. QED
    BY <1>1, ParseHolds, PTL
=============================================================================
