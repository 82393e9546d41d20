----------------------- MODULE TranscriptFraming_proofs -----------------------
(***************************************************************************)
(* The bytes of a transcript determine the calls that wrote it, for every  *)
(* number of byte values, width of the length prefix and number of calls,  *)
(* as long as the lengths of labels and data fit the prefix.               *)
(***************************************************************************)
EXTENDS TranscriptFraming, SequenceTheorems, WellFoundedInduction, TLAPS

\* Domains, labels and data are shorter than 2^32 bytes, the limit of the prefix.
LengthsFit == \A s \in Domains \cup Labels \cup Data : Len(s) < Base ^ PrefixLen

Word == {s \in Seq(Byte) : Len(s) < Base ^ PrefixLen}

Call == [op : {"append"}, label : Word, data : Word]
        \cup [op : {"challenge"}, label : Word, data : Hashes]

-----------------------------------------------------------------------------
(* Least elements *)

LEMMA LeastElement ==
    ASSUME NEW S \in SUBSET Nat, S # {}
    PROVE  \E m \in S : \A x \in S : m <= x
<1> DEFINE R == OpToRel(<, Nat)
<1>1. \A x, y \in Nat : x < y => <<x, y>> \in R
  BY DEF OpToRel
<1>2. IsWellFoundedOn(R, Nat)
  BY NatLessThanWellFounded
<1> HIDE DEF R
<1>3. PICK m \in S : \A y \in S : ~ (<<y, m>> \in R)
  BY <1>2, WFMin
<1>4. ASSUME NEW y \in S PROVE m <= y
  <2>1. m \in Nat /\ y \in Nat
    OBVIOUS
  <2>2. ~(y < m)
    BY <1>1, <1>3, <2>1, Zenon
  <2> QED BY <2>1, <2>2
<1> QED BY <1>4

-----------------------------------------------------------------------------
(* Length prefixes *)

LEMMA DivMod ==
    ASSUME NEW x \in Nat, NEW b \in Nat \ {0}
    PROVE  x = b * (x \div b) + (x % b) /\ x % b \in 0..(b-1) /\ x \div b \in Nat
OBVIOUS

\* The quotient is the only one that leaves a remainder below b.
LEMMA DivUnique ==
    ASSUME NEW x \in Nat, NEW b \in Nat \ {0}, NEW k \in Nat, NEW r \in 0..(b-1),
           x = b * k + r
    PROVE  x \div b = k
<1> DEFINE d == x \div b
           m == x % b
<1>1. x = b * d + m /\ m \in 0..(b-1) /\ d \in Nat
  BY DivMod
<1> HIDE DEF d, m
<1>2. b * (d - k) = r - m /\ r - m < b /\ m - r < b
  BY <1>1
<1>3. d - k = 0
  <2>1. CASE d - k >= 1
    <3>1. b * (d - k) >= b
      BY <2>1, <1>1
    <3> QED BY <3>1, <1>2, <1>1
  <2>2. CASE d - k <= -1
    <3>1. b * (k - d) >= b
      BY <2>2, <1>1
    <3>2. b * (k - d) = m - r
      BY <1>2, <1>1
    <3> QED BY <3>1, <3>2, <1>2, <1>1
  <2> QED BY <2>1, <2>2, <1>1
<1> QED BY <1>3, <1>1 DEF d

LEMMA DivDiv ==
    ASSUME NEW x \in Nat, NEW b \in Nat \ {0}, NEW c \in Nat \ {0}
    PROVE  (x \div b) \div c = x \div (c * b)
<1> DEFINE d == x \div b
           m == x % b
           e == d \div c
           f == d % c
<1>1. x = b * d + m /\ m \in 0..(b-1) /\ d \in Nat
  BY DivMod
<1>2. d = c * e + f /\ f \in 0..(c-1) /\ e \in Nat
  BY <1>1, DivMod
<1> HIDE DEF d, m, e, f
<1>3. c * b \in Nat \ {0}
  OBVIOUS
<1>4. b * (c * e + f) = (c * b) * e + b * f
  BY <1>2
<1>5. b * f + m \in 0..(c * b - 1)
  <2>1. b * f \in Nat /\ b * f <= b * (c - 1)
    BY <1>2
  <2>2. b * (c - 1) = c * b - b
    OBVIOUS
  <2> QED BY <2>1, <2>2, <1>1, <1>3
<1>6. x = (c * b) * e + (b * f + m)
  <2>1. x = b * (c * e + f) + m
    BY <1>1, <1>2
  <2>2. (c * b) * e \in Nat /\ b * f \in Nat
    BY <1>2, <1>3
  <2> QED BY <2>1, <2>2, <1>4, <1>1
<1>7. x \div (c * b) = e
  BY <1>3, <1>5, <1>6, <1>2, DivUnique
<1> QED BY <1>7 DEF e, d

\* Different lengths that fit have different prefixes: equal digits mean equal
\* quotients, from the last digit down to the first.
LEMMA PrefixInjective ==
    ASSUME NEW n \in Nat, NEW m \in Nat,
           n < Base ^ PrefixLen, m < Base ^ PrefixLen,
           \A i \in 1..PrefixLen : PutUint32(n)[i] = PutUint32(m)[i]
    PROVE  n = m
<1>0. Base \in Nat \ {0} /\ PrefixLen \in Nat
  BY FramingAssumption
<1> DEFINE pw(k) == Base ^ (PrefixLen - k)
           D == {k \in 0..PrefixLen : n \div pw(k) # m \div pw(k)}
<1>1. \A k \in 0..PrefixLen : pw(k) \in Nat \ {0}
  BY <1>0, PowerAssumption
<1>2. SUFFICES ASSUME D # {} PROVE FALSE
  <2>1. CASE D = {}
    <3>0. PrefixLen \in 0..PrefixLen /\ PrefixLen - PrefixLen = 0
      BY <1>0
    <3>1. n \div Base ^ 0 = m \div Base ^ 0
      <4>1. n \div pw(PrefixLen) = m \div pw(PrefixLen)
        BY <2>1, <3>0
      <4> QED BY <4>1, <3>0
    <3>2. n \div 1 = m \div 1
      BY <3>1, PowerAssumption
    <3> QED BY <3>2
  <2> QED BY <2>1, <1>2
<1>3. D \in SUBSET Nat
  BY <1>0
<1>4. PICK k \in D : \A x \in D : k <= x
  BY <1>2, <1>3, LeastElement
<1>5. k # 0
  <2>1. n \div Base ^ PrefixLen = 0 /\ m \div Base ^ PrefixLen = 0
    <3>1. Base ^ PrefixLen \in Nat \ {0}
      BY <1>0, PowerAssumption
    <3>2. n = (Base ^ PrefixLen) * 0 + n /\ m = (Base ^ PrefixLen) * 0 + m
      BY <3>1
    <3>3. n \in 0..(Base ^ PrefixLen - 1) /\ m \in 0..(Base ^ PrefixLen - 1)
      BY <3>1
    <3> HIDE DEF D, pw
    <3> QED BY <3>1, <3>2, <3>3, DivUnique
  <2>2. PrefixLen - 0 = PrefixLen
    BY <1>0
  <2> QED BY <2>1, <2>2
<1>6. k - 1 \in 0..PrefixLen /\ k - 1 \notin D /\ k \in 1..PrefixLen
  <2>1. k \in 0..PrefixLen
    OBVIOUS
  <2> HIDE DEF D
  <2> QED BY <2>1, <1>4, <1>5, <1>0
<1> DEFINE j == PrefixLen - k
           a == n \div Base ^ j
           b == m \div Base ^ j
<1>7. j \in 0..PrefixLen /\ j + 1 \in 1..PrefixLen /\ PrefixLen - (k - 1) = j + 1 /\ (j + 1) - 1 = j
  BY <1>6, <1>0
<1>8. n \div Base ^ (j + 1) = m \div Base ^ (j + 1)
  BY <1>6, <1>7
<1>9. Base ^ j \in Nat \ {0} /\ Base ^ (j + 1) = Base * Base ^ j
  BY <1>7, PowerAssumption
<1>10. a # b
  BY <1>4
<1>11. a % Base = b % Base
  BY <1>7 DEF PutUint32
<1> HIDE DEF D, pw, j
<1>12. a \div Base = b \div Base
  BY <1>8, <1>9, <1>0, DivDiv
<1>13. a \in Nat /\ b \in Nat
  BY <1>9, DivMod
<1> HIDE DEF a, b
<1>14. a = Base * (a \div Base) + (a % Base) /\ b = Base * (b \div Base) + (b % Base)
  BY <1>13, <1>0, DivMod
<1> QED BY <1>10, <1>11, <1>12, <1>14

-----------------------------------------------------------------------------
(* Reading frames *)

\* The string w stands in s behind the first a bytes.
At(s, a, w) == a + Len(w) <= Len(s) /\ \A k \in 1..Len(w) : s[a + k] = w[k]

\* What a call appends behind its label, and what it appends in all.
Payload(c) == IF c.op = "append" THEN Prefixed(c.data) ELSE c.data
Frame(c) == Prefixed(c.label) \o Payload(c)

LEMMA PutType ==
    ASSUME NEW n \in Nat
    PROVE  PutUint32(n) \in Seq(Byte) /\ Len(PutUint32(n)) = PrefixLen
<1>1. \A i \in 1..PrefixLen : (n \div Base ^ (i - 1)) % Base \in Byte
  <2> SUFFICES ASSUME NEW i \in 1..PrefixLen
               PROVE  (n \div Base ^ (i - 1)) % Base \in Byte
    OBVIOUS
  <2>1. i - 1 \in 0..PrefixLen /\ Base \in Nat \ {0}
    BY FramingAssumption
  <2>2. Base ^ (i - 1) \in Nat \ {0}
    BY <2>1, PowerAssumption
  <2>3. n \div Base ^ (i - 1) \in Nat
    BY <2>2, DivMod
  <2> QED BY <2>1, <2>3, DivMod DEF Byte
<1>2. PutUint32(n) \in [1..PrefixLen -> Byte]
  BY <1>1 DEF PutUint32
<1>3. PrefixLen \in Nat
  BY FramingAssumption
<1> QED BY <1>2, <1>3

\* A prefixed string: its length, its prefix and its content.
LEMMA PrefixedShape ==
    ASSUME NEW w \in Seq(Byte)
    PROVE  /\ Prefixed(w) \in Seq(Byte)
           /\ Len(w) \in Nat
           /\ Len(Prefixed(w)) = PrefixLen + Len(w)
           /\ \A k \in 1..PrefixLen : Prefixed(w)[k] = PutUint32(Len(w))[k]
           /\ \A k \in 1..Len(w) : Prefixed(w)[PrefixLen + k] = w[k]
<1> DEFINE pre == PutUint32(Len(w))
<1>1. Len(w) \in Nat
  OBVIOUS
<1>2. pre \in Seq(Byte) /\ Len(pre) = PrefixLen /\ PrefixLen \in Nat
  BY <1>1, PutType, FramingAssumption
<1> HIDE DEF pre
<1>3. /\ pre \o w \in Seq(Byte) /\ Len(pre \o w) = Len(pre) + Len(w)
      /\ \A i \in 1..(Len(pre) + Len(w)) :
             (pre \o w)[i] = IF i <= Len(pre) THEN pre[i] ELSE w[i - Len(pre)]
  BY <1>2, ConcatProperties
<1> DEFINE x == pre \o w
<1>4. Prefixed(w) = x
  BY DEF Prefixed, pre
<1> HIDE DEF x
<1>5. \A k \in 1..PrefixLen : x[k] = pre[k]
  BY <1>1, <1>2, <1>3 DEF x
<1>6. ASSUME NEW k \in 1..Len(w) PROVE x[PrefixLen + k] = w[k]
  <2>1. PrefixLen + k \in 1..(Len(pre) + Len(w)) /\ ~(PrefixLen + k <= Len(pre))
        /\ (PrefixLen + k) - Len(pre) = k
    BY <1>1, <1>2
  <2> QED BY <2>1, <1>3 DEF x
<1> QED BY <1>1, <1>2, <1>3, <1>4, <1>5, <1>6 DEF x, pre

\* A length-prefixed string is read in one way only.
LEMMA StringUnique ==
    ASSUME NEW s, NEW a \in Nat, NEW w \in Word, NEW v \in Word,
           At(s, a, Prefixed(w)), At(s, a, Prefixed(v))
    PROVE  w = v
<1>1. w \in Seq(Byte) /\ v \in Seq(Byte) /\ Len(w) < Base ^ PrefixLen /\ Len(v) < Base ^ PrefixLen
  BY DEF Word
<1>2. PrefixLen \in Nat
  BY FramingAssumption
<1>len. /\ Len(w) \in Nat /\ Len(Prefixed(w)) = PrefixLen + Len(w)
        /\ Len(v) \in Nat /\ Len(Prefixed(v)) = PrefixLen + Len(v)
  BY <1>1, PrefixedShape
<1>3. Len(w) = Len(v)
  <2>1. ASSUME NEW i \in 1..PrefixLen PROVE PutUint32(Len(w))[i] = PutUint32(Len(v))[i]
    <3>1. i \in 1..Len(Prefixed(w)) /\ i \in 1..Len(Prefixed(v))
      BY <1>2, <1>len
    <3>2. Prefixed(w)[i] = Prefixed(v)[i]
      BY <3>1 DEF At
    <3> QED BY <3>2, <1>1, PrefixedShape
  <2> QED BY <2>1, <1>1, PrefixedShape, PrefixInjective
<1>4. ASSUME NEW k \in 1..Len(w) PROVE w[k] = v[k]
  <2>1. PrefixLen + k \in 1..Len(Prefixed(w)) /\ PrefixLen + k \in 1..Len(Prefixed(v))
    BY <1>2, <1>3, <1>len
  <2>2. Prefixed(w)[PrefixLen + k] = Prefixed(v)[PrefixLen + k]
    BY <2>1 DEF At
  <2> QED BY <2>2, <1>1, <1>3, PrefixedShape
<1> QED BY <1>1, <1>3, <1>4, SeqEqual

\* Reading a concatenation is reading its parts.
LEMMA AtConcat ==
    ASSUME NEW s \in Seq(Byte), NEW a \in Nat, NEW x \in Seq(Byte), NEW y \in Seq(Byte)
    PROVE  At(s, a, x \o y) <=> At(s, a, x) /\ At(s, a + Len(x), y)
<1>1. /\ Len(x) \in Nat /\ Len(y) \in Nat /\ Len(s) \in Nat
      /\ Len(x \o y) = Len(x) + Len(y)
      /\ \A i \in 1..(Len(x) + Len(y)) :
             (x \o y)[i] = IF i <= Len(x) THEN x[i] ELSE y[i - Len(x)]
  BY ConcatProperties
<1> DEFINE z == x \o y
<1> HIDE DEF z
<1>2. ASSUME At(s, a, z) PROVE At(s, a, x) /\ At(s, a + Len(x), y)
  <2>1. \A k \in 1..Len(x) : s[a + k] = x[k]
    BY <1>1, <1>2 DEF At, z
  <2>2. ASSUME NEW k \in 1..Len(y) PROVE s[(a + Len(x)) + k] = y[k]
    <3>1. Len(x) + k \in 1..(Len(x) + Len(y)) /\ ~(Len(x) + k <= Len(x))
          /\ (Len(x) + k) - Len(x) = k /\ a + (Len(x) + k) = (a + Len(x)) + k
      BY <1>1
    <3>2. z[Len(x) + k] = y[k]
      BY <3>1, <1>1 DEF z
    <3>3. s[a + (Len(x) + k)] = z[Len(x) + k]
      BY <3>1, <1>1, <1>2 DEF At, z
    <3> QED BY <3>1, <3>2, <3>3
  <2>3. a + Len(x) <= Len(s) /\ (a + Len(x)) + Len(y) <= Len(s)
    BY <1>1, <1>2 DEF At, z
  <2> QED BY <2>1, <2>2, <2>3 DEF At
<1>3. ASSUME At(s, a, x), At(s, a + Len(x), y) PROVE At(s, a, z)
  <2>1. ASSUME NEW i \in 1..(Len(x) + Len(y)) PROVE s[a + i] = z[i]
    <3>1. CASE i <= Len(x)
      BY <3>1, <1>1, <1>3 DEF At, z
    <3>2. CASE ~(i <= Len(x))
      <4>1. i - Len(x) \in 1..Len(y) /\ (a + Len(x)) + (i - Len(x)) = a + i
        BY <3>2, <1>1
      <4>2. s[(a + Len(x)) + (i - Len(x))] = y[i - Len(x)]
        BY <4>1, <1>3 DEF At
      <4> QED BY <4>1, <4>2, <3>2, <1>1 DEF z
    <3> QED BY <3>1, <3>2
  <2>2. a + Len(z) <= Len(s)
    BY <1>1, <1>3 DEF At, z
  <2>3. Len(z) = Len(x) + Len(y)
    BY <1>1 DEF z
  <2> QED BY <2>1, <2>2, <2>3 DEF At
<1> QED BY <1>2, <1>3 DEF z

LEMMA CallShape ==
    ASSUME NEW c \in Call
    PROVE  /\ c.label \in Word /\ c.label \in Seq(Byte)
           /\ c.op = "append" => c.data \in Word /\ c.data \in Seq(Byte)
           /\ c.op # "append" => c.op = "challenge" /\ c.data \in Hashes
           /\ c.op # "append" => c.data \in Seq(Byte) /\ Len(c.data) = HashLen
           /\ c = [op |-> c.op, label |-> c.label, data |-> c.data]
<1>1. HashLen \in Nat
  BY FramingAssumption
<1>2. \A h \in Hashes : h \in Seq(Byte) /\ Len(h) = HashLen
  BY <1>1 DEF Hashes
<1> QED BY <1>2 DEF Call, Word

\* Every frame is a byte string, and not an empty one.
LEMMA FrameShape ==
    ASSUME NEW c \in Call
    PROVE  /\ Prefixed(c.label) \in Seq(Byte) /\ Payload(c) \in Seq(Byte)
           /\ Frame(c) \in Seq(Byte) /\ Len(Frame(c)) \in Nat \ {0}
<1>1. Prefixed(c.label) \in Seq(Byte) /\ Len(Prefixed(c.label)) = PrefixLen + Len(c.label)
      /\ Len(c.label) \in Nat
  BY CallShape, PrefixedShape
<1>2. Payload(c) \in Seq(Byte)
  BY CallShape, PrefixedShape DEF Payload
<1>3. PrefixLen \in Nat /\ PrefixLen > 0
  BY FramingAssumption
<1>4. Len(Payload(c)) \in Nat
  BY <1>2
<1>5. Frame(c) \in Seq(Byte) /\ Len(Frame(c)) = Len(Prefixed(c.label)) + Len(Payload(c))
  BY <1>1, <1>2, ConcatProperties DEF Frame
<1> QED BY <1>1, <1>2, <1>3, <1>4, <1>5

\* Who knows whether a challenge or an append comes next reads one call only.
LEMMA FrameUnique ==
    ASSUME NEW s \in Seq(Byte), NEW a \in Nat, NEW c \in Call, NEW e \in Call, c.op = e.op,
           At(s, a, Frame(c)), At(s, a, Frame(e))
    PROVE  c = e
<1> DEFINE b == a + Len(Prefixed(c.label))
           d == a + Len(Prefixed(e.label))
<1>1. /\ At(s, a, Prefixed(c.label)) /\ At(s, b, Payload(c))
      /\ At(s, a, Prefixed(e.label)) /\ At(s, d, Payload(e))
  BY AtConcat, FrameShape DEF Frame
<1>2. c.label = e.label
  BY <1>1, CallShape, StringUnique
<1>3. b = d /\ b \in Nat
  BY <1>2, FrameShape
<1> HIDE DEF b, d
<1>4. c.data = e.data
  <2>1. CASE c.op = "append"
    BY <2>1, <1>1, <1>3, CallShape, StringUnique DEF Payload
  <2>2. CASE c.op # "append"
    <3>1. c.data \in Seq(Byte) /\ e.data \in Seq(Byte) /\ Len(c.data) = HashLen /\ Len(e.data) = HashLen
      BY <2>2, CallShape
    <3>2. At(s, b, c.data) /\ At(s, b, e.data)
      BY <2>2, <1>1, <1>3 DEF Payload
    <3>3. \A k \in 1..HashLen : c.data[k] = e.data[k]
      BY <3>1, <3>2 DEF At
    <3> QED BY <3>1, <3>3, SeqEqual
  <2> QED BY <2>1, <2>2
<1> QED BY <1>2, <1>4, CallShape

-----------------------------------------------------------------------------
(* Reading whole transcripts *)

\* cut[i] bytes of s hold the domain and the first i calls.
Cuts(s, d, calls, cut) ==
    /\ cut \in [0..Len(calls) -> Nat]
    /\ At(s, 0, Prefixed(d)) /\ cut[0] = Len(Prefixed(d))
    /\ \A i \in 1..Len(calls) :
           At(s, cut[i - 1], Frame(calls[i])) /\ cut[i] = cut[i - 1] + Len(Frame(calls[i]))
    /\ cut[Len(calls)] = Len(s)

Framed(s, d, calls) ==
    /\ s \in Seq(Byte) /\ d \in Word /\ calls \in Seq(Call)
    /\ \E cut : Cuts(s, d, calls, cut)

\* The two readers agree on what comes next for as long as both go on.
Agree(calls1, calls2) ==
    \A i \in 1..Len(calls1) : i \in 1..Len(calls2) => calls1[i].op = calls2[i].op

\* ... and have read the same calls.
SameStart(calls1, calls2) ==
    \A i \in 1..Len(calls1) : i <= Len(calls2) => calls1[i] = calls2[i]

\* Reading the same bytes, they read the same calls ...
LEMMA SameCuts ==
    ASSUME NEW s \in Seq(Byte), NEW d1 \in Word, NEW d2 \in Word,
           NEW calls1 \in Seq(Call), NEW calls2 \in Seq(Call), NEW cut1, NEW cut2,
           Cuts(s, d1, calls1, cut1), Cuts(s, d2, calls2, cut2), Agree(calls1, calls2)
    PROVE  /\ d1 = d2
           /\ \A i \in 0..Len(calls1) : i <= Len(calls2) => cut1[i] = cut2[i]
           /\ SameStart(calls1, calls2)
<1>1. d1 = d2
  BY StringUnique DEF Cuts
<1>2. Len(calls1) \in Nat /\ Len(calls2) \in Nat
  OBVIOUS
<1> DEFINE D == {i \in 0..Len(calls1) : i <= Len(calls2) /\ cut1[i] # cut2[i]}
<1>3. ASSUME NEW i \in 1..Len(calls1), i <= Len(calls2), cut1[i - 1] = cut2[i - 1]
      PROVE  calls1[i] = calls2[i] /\ cut1[i] = cut2[i]
  <2>1. i \in 1..Len(calls2) /\ i - 1 \in 0..Len(calls1)
    BY <1>2, <1>3
  <2>2. cut1[i - 1] \in Nat
    BY <2>1 DEF Cuts
  <2>3. calls1[i] \in Call /\ calls2[i] \in Call /\ calls1[i].op = calls2[i].op
    BY <2>1, ElementOfSeq DEF Agree
  <2>4. At(s, cut1[i - 1], Frame(calls1[i])) /\ At(s, cut1[i - 1], Frame(calls2[i]))
    BY <2>1, <1>3 DEF Cuts
  <2>5. calls1[i] = calls2[i]
    BY <2>2, <2>3, <2>4, FrameUnique
  <2> QED BY <2>5, <2>1, <1>3 DEF Cuts
<1>4. D = {}
  <2> SUFFICES ASSUME D # {} PROVE FALSE
    OBVIOUS
  <2>1. D \in SUBSET Nat
    BY <1>2
  <2>2. PICK k \in D : \A x \in D : k <= x
    BY <2>1, LeastElement
  <2>3. k \in 0..Len(calls1) /\ k <= Len(calls2) /\ cut1[k] # cut2[k]
    OBVIOUS
  <2>4. k # 0
    BY <2>3, <1>1 DEF Cuts
  <2>5. k - 1 \in 0..Len(calls1) /\ k - 1 <= Len(calls2) /\ k - 1 \notin D /\ k \in 1..Len(calls1)
    <3> HIDE DEF D
    <3> QED BY <2>2, <2>3, <2>4, <1>2
  <2>6. cut1[k - 1] = cut2[k - 1]
    BY <2>5
  <2> HIDE DEF D
  <2> QED BY <2>3, <2>5, <2>6, <1>3
<1>5. ASSUME NEW i \in 1..Len(calls1), i <= Len(calls2) PROVE calls1[i] = calls2[i]
  <2>1. i - 1 \in 0..Len(calls1) /\ i - 1 <= Len(calls2)
    BY <1>2, <1>5
  <2>2. cut1[i - 1] = cut2[i - 1]
    BY <2>1, <1>4
  <2> QED BY <2>2, <1>3, <1>5
<1> QED BY <1>1, <1>4, <1>5 DEF SameStart

\* ... and neither goes on when the other has reached the end.
LEMMA NotLonger ==
    ASSUME NEW s \in Seq(Byte), NEW d1 \in Word, NEW d2 \in Word,
           NEW calls1 \in Seq(Call), NEW calls2 \in Seq(Call), NEW cut1, NEW cut2,
           Cuts(s, d1, calls1, cut1), Cuts(s, d2, calls2, cut2), Agree(calls1, calls2)
    PROVE  ~(Len(calls1) < Len(calls2))
<1> SUFFICES ASSUME Len(calls1) < Len(calls2) PROVE FALSE
  OBVIOUS
<1> DEFINE k == Len(calls1)
<1>1. k \in Nat /\ k \in 0..Len(calls1) /\ k <= Len(calls2) /\ k + 1 \in 1..Len(calls2)
      /\ (k + 1) - 1 = k
  OBVIOUS
<1>2. cut2[k] = Len(s)
  <2>1. cut1[k] = cut2[k]
    BY <1>1, SameCuts
  <2> QED BY <2>1 DEF Cuts
<1>3. At(s, cut2[k], Frame(calls2[k + 1]))
  BY <1>1 DEF Cuts
<1>4. Len(Frame(calls2[k + 1])) \in Nat \ {0}
  BY <1>1, ElementOfSeq, FrameShape
<1>5. Len(s) \in Nat
  OBVIOUS
<1> QED BY <1>2, <1>3, <1>4, <1>5 DEF At

\* The bytes determine the calls.
LEMMA ReadOnce ==
    ASSUME NEW s, NEW d1, NEW d2, NEW calls1, NEW calls2,
           Framed(s, d1, calls1), Framed(s, d2, calls2),
           Agree(calls1, calls2), Agree(calls2, calls1)
    PROVE  d1 = d2 /\ calls1 = calls2
<1>1. PICK cut1 : Cuts(s, d1, calls1, cut1)
  BY DEF Framed
<1>2. PICK cut2 : Cuts(s, d2, calls2, cut2)
  BY DEF Framed
<1>3. s \in Seq(Byte) /\ d1 \in Word /\ d2 \in Word /\ calls1 \in Seq(Call) /\ calls2 \in Seq(Call)
  BY DEF Framed
<1>4. ~(Len(calls1) < Len(calls2)) /\ ~(Len(calls2) < Len(calls1))
  BY <1>1, <1>2, <1>3, NotLonger
<1>5. Len(calls1) = Len(calls2)
  BY <1>3, <1>4
<1>6. d1 = d2 /\ SameStart(calls1, calls2)
  BY <1>1, <1>2, <1>3, SameCuts
<1>7. ASSUME NEW i \in 1..Len(calls1) PROVE calls1[i] = calls2[i]
  <2>1. i <= Len(calls2)
    BY <1>3, <1>5
  <2> QED BY <2>1, <1>6 DEF SameStart
<1> QED BY <1>3, <1>5, <1>6, <1>7, SeqEqual

-----------------------------------------------------------------------------
(* The invariant *)

FrameInv ==
    /\ DOMAIN state = Transcripts /\ DOMAIN ops = Transcripts
    /\ \A t \in Transcripts : Framed(state[t], domain[t], ops[t])

LEMMA FramedNew ==
    ASSUME NEW d \in Word
    PROVE  Framed(NewTranscript(d), d, <<>>)
<1>1. d \in Seq(Byte)
  BY DEF Word
<1> DEFINE s == Prefixed(d)
           cut == [i \in 0..0 |-> Len(s)]
<1>2. s \in Seq(Byte) /\ Len(s) \in Nat
  BY <1>1, PrefixedShape
<1> HIDE DEF s
<1>3. Len(<<>>) = 0 /\ <<>> \in Seq(Call)
  OBVIOUS
<1>4. cut \in [0..0 -> Nat] /\ cut[0] = Len(s)
  BY <1>2
<1>5. At(s, 0, s)
  BY <1>2 DEF At
<1> HIDE DEF cut
<1>6. Cuts(s, d, <<>>, cut)
  BY <1>3, <1>4, <1>5 DEF Cuts, s
<1> QED BY <1>2, <1>3, <1>6 DEF Framed, NewTranscript, s

\* What stands in a string stands in every extension of it.
LEMMA AtExtend ==
    ASSUME NEW s \in Seq(Byte), NEW f \in Seq(Byte), NEW a \in Nat, NEW w \in Seq(Byte), At(s, a, w)
    PROVE  At(s \o f, a, w)
<1>1. /\ Len(s) \in Nat /\ Len(f) \in Nat /\ Len(w) \in Nat /\ Len(s \o f) = Len(s) + Len(f)
      /\ \A i \in 1..(Len(s) + Len(f)) :
             (s \o f)[i] = IF i <= Len(s) THEN s[i] ELSE f[i - Len(s)]
  BY ConcatProperties
<1> DEFINE z == s \o f
<1> HIDE DEF z
<1>2. a + Len(w) <= Len(s) /\ \A k \in 1..Len(w) : s[a + k] = w[k]
  BY DEF At
<1>3. ASSUME NEW k \in 1..Len(w) PROVE z[a + k] = w[k]
  <2>1. a + k \in 1..(Len(s) + Len(f)) /\ a + k <= Len(s)
    BY <1>1, <1>2
  <2> QED BY <2>1, <1>1, <1>2 DEF z
<1>4. a + Len(w) <= Len(z)
  BY <1>1, <1>2 DEF z
<1> QED BY <1>3, <1>4 DEF At, z

LEMMA FramedAppend ==
    ASSUME NEW s, NEW d, NEW calls, Framed(s, d, calls), NEW c \in Call
    PROVE  Framed(s \o Frame(c), d, Append(calls, c))
<1> DEFINE f == Frame(c)
           z == s \o f
           n == Len(calls)
           all == Append(calls, c)
<1>1. s \in Seq(Byte) /\ d \in Word /\ d \in Seq(Byte) /\ calls \in Seq(Call)
  BY DEF Framed, Word
<1>2. PICK cut : Cuts(s, d, calls, cut)
  BY DEF Framed
<1>3. f \in Seq(Byte) /\ Len(f) \in Nat /\ Len(s) \in Nat /\ n \in Nat
  BY <1>1, FrameShape
<1>4. /\ all \in Seq(Call) /\ Len(all) = n + 1 /\ all[n + 1] = c
      /\ \A i \in 1..n : all[i] = calls[i]
  BY <1>1
<1> HIDE DEF f, all
<1>5. z \in Seq(Byte) /\ Len(z) = Len(s) + Len(f)
  BY <1>1, <1>3, ConcatProperties
<1>6. At(z, Len(s), f)
  <2>1. At(z, 0, z)
    BY <1>5 DEF At
  <2>2. At(z, 0 + Len(s), f)
    BY <2>1, <1>1, <1>3, <1>5, AtConcat
  <2> QED BY <2>2, <1>3
<1> DEFINE cut2 == [i \in 0..(n + 1) |-> IF i = n + 1 THEN Len(z) ELSE cut[i]]
<1>7. cut \in [0..n -> Nat] /\ cut[n] = Len(s) /\ cut[0] = Len(Prefixed(d))
  BY <1>2 DEF Cuts
<1> HIDE DEF z
<1>8. /\ cut2 \in [0..(n + 1) -> Nat] /\ cut2[n + 1] = Len(z)
      /\ \A i \in 0..n : cut2[i] = cut[i]
  BY <1>3, <1>5, <1>7
<1> HIDE DEF cut2
<1>9. At(z, 0, Prefixed(d)) /\ cut2[0] = Len(Prefixed(d))
  <2>1. At(s, 0, Prefixed(d)) /\ Prefixed(d) \in Seq(Byte)
    BY <1>1, <1>2, PrefixedShape DEF Cuts
  <2>2. At(z, 0, Prefixed(d))
    BY <2>1, <1>1, <1>3, AtExtend DEF z
  <2> QED BY <2>2, <1>7, <1>8, <1>3
<1>10. ASSUME NEW i \in 1..(n + 1)
       PROVE  At(z, cut2[i - 1], Frame(all[i])) /\ cut2[i] = cut2[i - 1] + Len(Frame(all[i]))
  <2>1. i - 1 \in 0..n
    BY <1>3
  <2>2. cut2[i - 1] = cut[i - 1] /\ cut[i - 1] \in Nat
    BY <2>1, <1>7, <1>8
  <2>3. CASE i = n + 1
    <3>1. i - 1 = n
      BY <2>3, <1>3
    <3>2. cut2[i - 1] = Len(s) /\ Frame(all[i]) = f
      BY <2>2, <2>3, <3>1, <1>4, <1>7 DEF f
    <3> QED BY <3>2, <2>3, <1>5, <1>6, <1>8
  <2>4. CASE i # n + 1
    <3>1. i \in 1..n /\ i \in 0..n
      BY <2>4, <1>3
    <3>2. At(s, cut[i - 1], Frame(calls[i])) /\ cut[i] = cut[i - 1] + Len(Frame(calls[i]))
      BY <3>1, <1>2 DEF Cuts
    <3>3. calls[i] \in Call
      BY <3>1, <1>1, ElementOfSeq
    <3>4. At(z, cut[i - 1], Frame(calls[i]))
      BY <3>2, <3>3, <2>2, <1>1, <1>3, FrameShape, AtExtend DEF z
    <3> QED BY <3>1, <3>2, <3>4, <2>2, <1>4, <1>8
  <2> QED BY <2>3, <2>4
<1>11. Cuts(z, d, all, cut2)
  BY <1>4, <1>8, <1>9, <1>10 DEF Cuts
<1> QED BY <1>1, <1>4, <1>5, <1>11 DEF Framed, z, f, all

LEMMA Words ==
    ASSUME LengthsFit
    PROVE  Domains \cup Labels \cup Data \subseteq Word
BY FramingAssumption DEF LengthsFit, Word

LEMMA FrameInit ==
    ASSUME LengthsFit, Init
    PROVE  FrameInv
<1> SUFFICES ASSUME NEW t \in Transcripts PROVE Framed(state[t], domain[t], ops[t])
  BY DEF Init, FrameInv
<1>1. domain[t] \in Word
  BY Words DEF Init
<1>2. state[t] = NewTranscript(domain[t]) /\ ops[t] = <<>>
  BY DEF Init
<1> QED BY <1>1, <1>2, FramedNew

LEMMA StoreInv ==
    ASSUME FrameInv, NEW t \in Transcripts, NEW c \in Call,
           state' = [state EXCEPT ![t] = state[t] \o Frame(c)],
           ops' = [ops EXCEPT ![t] = Append(ops[t], c)],
           domain' = domain
    PROVE  FrameInv'
<1>1. DOMAIN state' = Transcripts /\ DOMAIN ops' = Transcripts
  BY DEF FrameInv
<1>2. ASSUME NEW u \in Transcripts PROVE Framed(state'[u], domain'[u], ops'[u])
  <2>1. Framed(state[u], domain[u], ops[u])
    BY DEF FrameInv
  <2>2. CASE u = t
    <3>1. state'[u] = state[u] \o Frame(c) /\ ops'[u] = Append(ops[u], c)
      BY <2>2 DEF FrameInv
    <3> QED BY <3>1, <2>1, FramedAppend
  <2>3. CASE u # t
    <3>1. state'[u] = state[u] /\ ops'[u] = ops[u]
      BY <2>3 DEF FrameInv
    <3> QED BY <3>1, <2>1
  <2> QED BY <2>2, <2>3
<1> QED BY <1>1, <1>2 DEF FrameInv

LEMMA FrameStep ==
    ASSUME LengthsFit, FrameInv, [Next]_framingVars
    PROVE  FrameInv'
<1>1. CASE UNCHANGED framingVars
  BY <1>1 DEF FrameInv, framingVars
<1>2. ASSUME NEW t \in Transcripts, NEW label \in Labels, NEW data \in Data, Append1(t, label, data)
      PROVE  FrameInv'
  <2> DEFINE c == [op |-> "append", label |-> label, data |-> data]
  <2>1. c \in Call /\ c.op = "append" /\ c.label = label /\ c.data = data
    BY Words DEF Call
  <2>2. state[t] \in Seq(Byte) /\ Prefixed(label) \in Seq(Byte) /\ Prefixed(data) \in Seq(Byte)
    BY <2>1, CallShape, PrefixedShape DEF FrameInv, Framed
  <2>3. AppendBytes(state[t], label, data) = state[t] \o Frame(c)
    <3>1. Frame(c) = Prefixed(label) \o Prefixed(data)
      BY <2>1 DEF Frame, Payload
    <3>2. (state[t] \o Prefixed(label)) \o Prefixed(data) = state[t] \o (Prefixed(label) \o Prefixed(data))
      <4> DEFINE x == state[t]
                 y == Prefixed(label)
                 z == Prefixed(data)
      <4>1. x \in Seq(Byte) /\ y \in Seq(Byte) /\ z \in Seq(Byte)
        BY <2>2
      <4> HIDE DEF x, y, z
      <4>2. (x \o y) \o z = x \o (y \o z)
        BY <4>1, ConcatAssociative
      <4> QED BY <4>2 DEF x, y, z
    <3> HIDE DEF c
    <3> QED BY <3>1, <3>2 DEF AppendBytes
  <2> HIDE DEF c
  <2>4. /\ state' = [state EXCEPT ![t] = state[t] \o Frame(c)]
        /\ ops' = [ops EXCEPT ![t] = Append(ops[t], c)]
        /\ domain' = domain
    BY <1>2, <2>3 DEF Append1, c
  <2> QED BY <2>1, <2>4, StoreInv
<1>3. ASSUME NEW t \in Transcripts, NEW label \in Labels, NEW hash \in Hashes, Challenge(t, label, hash)
      PROVE  FrameInv'
  <2> DEFINE c == [op |-> "challenge", label |-> label, data |-> hash]
  <2>1. c \in Call /\ c.op = "challenge" /\ c.label = label /\ c.data = hash
    BY Words DEF Call
  <2>2. state[t] \in Seq(Byte) /\ Prefixed(label) \in Seq(Byte) /\ hash \in Seq(Byte)
    BY <2>1, CallShape, PrefixedShape DEF FrameInv, Framed
  <2>3. ChallengeScalar(state[t], label, hash) = state[t] \o Frame(c)
    <3>1. Frame(c) = Prefixed(label) \o hash
      BY <2>1 DEF Frame, Payload
    <3>2. (state[t] \o Prefixed(label)) \o hash = state[t] \o (Prefixed(label) \o hash)
      <4> DEFINE x == state[t]
                 y == Prefixed(label)
                 z == hash
      <4>1. x \in Seq(Byte) /\ y \in Seq(Byte) /\ z \in Seq(Byte)
        BY <2>2
      <4> HIDE DEF x, y, z
      <4>2. (x \o y) \o z = x \o (y \o z)
        BY <4>1, ConcatAssociative
      <4> QED BY <4>2 DEF x, y, z
    <3> HIDE DEF c
    <3> QED BY <3>1, <3>2 DEF ChallengeScalar
  <2> HIDE DEF c
  <2>4. /\ state' = [state EXCEPT ![t] = state[t] \o Frame(c)]
        /\ ops' = [ops EXCEPT ![t] = Append(ops[t], c)]
        /\ domain' = domain
    BY <1>3, <2>3 DEF Challenge, c
  <2> QED BY <2>1, <2>4, StoreInv
<1> QED BY <1>1, <1>2, <1>3 DEF Next

-----------------------------------------------------------------------------
(* Theorems *)

\* Every transcript, at any time, is its domain and its calls one behind the
\* other, each in a frame that can be found by reading from the front.
THEOREM FramingInvariant ==
    ASSUME LengthsFit
    PROVE  Spec => []FrameInv
BY FrameInit, FrameStep, PTL DEF Spec

\* NoTwoSequencesCollide: what the comments of NewTranscript and AppendBytes
\* promise is true whenever lengths fit their prefix.
THEOREM SequencesNeverCollide ==
    ASSUME LengthsFit
    PROVE  Spec => []NoTwoSequencesCollide
<1>1. FrameInv => NoTwoSequencesCollide
  <2> SUFFICES ASSUME FrameInv, NEW t \in Transcripts, NEW u \in Transcripts,
                      OnlyAppends(ops[t]), OnlyAppends(ops[u]), state[t] = state[u]
               PROVE  domain[t] = domain[u] /\ ops[t] = ops[u]
    BY DEF NoTwoSequencesCollide
  <2>1. Framed(state[t], domain[t], ops[t]) /\ Framed(state[t], domain[u], ops[u])
    BY DEF FrameInv
  <2>2. DOMAIN ops[t] = 1..Len(ops[t]) /\ DOMAIN ops[u] = 1..Len(ops[u])
    BY <2>1 DEF Framed
  <2>3. Agree(ops[t], ops[u]) /\ Agree(ops[u], ops[t])
    BY <2>2 DEF Agree, OnlyAppends
  <2> QED BY <2>1, <2>3, ReadOnce
<1> QED BY <1>1, FramingInvariant, PTL

\* ScheduledRunsNeverCollide: the bare hashes that ChallengeScalar folds in do
\* no harm to parties that agree on where the challenges are.
THEOREM ScheduledRunsDiffer ==
    ASSUME LengthsFit
    PROVE  Spec => []ScheduledRunsNeverCollide
<1>1. FrameInv => ScheduledRunsNeverCollide
  <2> SUFFICES ASSUME FrameInv, NEW t \in Transcripts, NEW u \in Transcripts,
                      Schedule(ops[t]) = Schedule(ops[u]), state[t] = state[u]
               PROVE  domain[t] = domain[u] /\ ops[t] = ops[u]
    BY DEF ScheduledRunsNeverCollide
  <2>1. Framed(state[t], domain[t], ops[t]) /\ Framed(state[t], domain[u], ops[u])
    BY DEF FrameInv
  <2>2. DOMAIN ops[t] = 1..Len(ops[t]) /\ DOMAIN ops[u] = 1..Len(ops[u])
    BY <2>1 DEF Framed
  <2>3. \A i \in 1..Len(ops[t]) : i \in 1..Len(ops[u]) => ops[t][i].op = ops[u][i].op
    BY <2>2 DEF Schedule
  <2>4. Agree(ops[t], ops[u]) /\ Agree(ops[u], ops[t])
    BY <2>3 DEF Agree
  <2> QED BY <2>1, <2>4, ReadOnce
<1> QED BY <1>1, FramingInvariant, PTL
=============================================================================
