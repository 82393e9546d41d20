------------------------ MODULE Serialization_proofs ------------------------
(***************************************************************************)
(* Canonical decoding, for every field and word size, every set of values  *)
(* and any number of calls and alterations.  The inductive invariant says  *)
(* that last is an outcome of Unmarshal and that every accepted value was  *)
(* one; the properties then are facts about Unmarshal.                     *)
(***************************************************************************)
EXTENDS Serialization, WellFoundedInduction, TLAPS

-----------------------------------------------------------------------------
(* Layouts *)

LEMMA LayoutType ==
    ASSUME NEW t
    PROVE  /\ Scalars(t) \in Nat /\ Points(t) \in Nat \ {0}
           /\ Size(t) = Scalars(t) + 2 * Points(t)
<1>1. Scalars(t) \in {0, 1, 3, 4}
  BY DEF Scalars
<1>2. Points(t) \in {1, 2, 3, 4, 6}
  BY DEF Points
<1> QED BY <1>1, <1>2 DEF Size

\* Every word of the point part is the first or the second of one point.
LEMMA WordOfPoint ==
    ASSUME NEW t, NEW i \in 1..Size(t), i > Scalars(t)
    PROVE  /\ PointOf(t, i) \in 1..Points(t)
           /\ \/ CoordOf(t, i) = 1 /\ i = First(t, PointOf(t, i))
              \/ CoordOf(t, i) = 2 /\ i = Second(t, PointOf(t, i))
BY LayoutType DEF PointOf, CoordOf, First, Second

LEMMA PointOfWord ==
    ASSUME NEW t, NEW j \in 1..Points(t)
    PROVE  /\ First(t, j) \in 1..Size(t) /\ Second(t, j) \in 1..Size(t)
           /\ First(t, j) > Scalars(t) /\ Second(t, j) > Scalars(t)
           /\ PointOf(t, First(t, j)) = j /\ CoordOf(t, First(t, j)) = 1
           /\ PointOf(t, Second(t, j)) = j /\ CoordOf(t, Second(t, j)) = 2
<1>1. Scalars(t) \in Nat /\ Points(t) \in Nat /\ Size(t) = Scalars(t) + 2 * Points(t)
  BY LayoutType
<1>2. First(t, j) - Scalars(t) = 2 * j - 1 /\ Second(t, j) - Scalars(t) = 2 * j
  BY <1>1 DEF First, Second
<1>3. /\ (2 * j - 1 + 1) \div 2 = j /\ (2 * j + 1) \div 2 = j
      /\ (2 * j - 1) % 2 = 1 /\ (2 * j) % 2 = 0
  OBVIOUS
<1>4. First(t, j) \in 1..Size(t) /\ First(t, j) > Scalars(t)
  BY <1>1 DEF First
<1>5. Second(t, j) \in 1..Size(t) /\ Second(t, j) > Scalars(t)
  BY <1>1 DEF Second
<1> QED BY <1>2, <1>3, <1>4, <1>5 DEF PointOf, CoordOf

\* The words of an encoded value.
LEMMA MarshalWords ==
    ASSUME NEW t, NEW v
    PROVE  /\ DOMAIN Marshal(t, v) = 1..Size(t)
           /\ \A i \in 1..Scalars(t) : Marshal(t, v)[i] = v.s[i]
           /\ \A j \in 1..Points(t) : /\ Marshal(t, v)[First(t, j)] = v.P[j].X
                                      /\ Marshal(t, v)[Second(t, j)] = v.P[j].Y
<1>1. DOMAIN Marshal(t, v) = 1..Size(t)
  BY DEF Marshal
<1>2. ASSUME NEW i \in 1..Scalars(t) PROVE Marshal(t, v)[i] = v.s[i]
  <2>1. i \in 1..Size(t)
    BY LayoutType
  <2>2. i <= Scalars(t)
    BY LayoutType
  <2> QED BY <2>1, <2>2 DEF Marshal, marshalScalar
<1>3. ASSUME NEW j \in 1..Points(t)
      PROVE  Marshal(t, v)[First(t, j)] = v.P[j].X /\ Marshal(t, v)[Second(t, j)] = v.P[j].Y
  <2>1. /\ First(t, j) \in 1..Size(t) /\ ~(First(t, j) <= Scalars(t))
        /\ Second(t, j) \in 1..Size(t) /\ ~(Second(t, j) <= Scalars(t))
    BY PointOfWord, LayoutType
  <2>2. Marshal(t, v)[First(t, j)] = marshalPoint(v.P[j])[1]
    BY <2>1, PointOfWord DEF Marshal
  <2>3. Marshal(t, v)[Second(t, j)] = marshalPoint(v.P[j])[2]
    BY <2>1, PointOfWord DEF Marshal
  <2> QED BY <2>2, <2>3 DEF marshalPoint
<1> QED BY <1>1, <1>2, <1>3

\* Words that agree with the fields of a value are its encoding.
LEMMA WordsMarshal ==
    ASSUME NEW t, NEW v, NEW data, DOMAIN data = 1..Size(t), data = [i \in 1..Size(t) |-> data[i]],
           \A i \in 1..Scalars(t) : v.s[i] = data[i],
           \A j \in 1..Points(t) :
               v.P[j].X = data[First(t, j)] /\ v.P[j].Y = data[Second(t, j)]
    PROVE  Marshal(t, v) = data
<1>1. ASSUME NEW i \in 1..Size(t) PROVE Marshal(t, v)[i] = data[i]
  <2>1. CASE i <= Scalars(t)
    <3>1. i \in 1..Scalars(t)
      BY <2>1, LayoutType
    <3> QED BY <3>1, MarshalWords
  <2>2. CASE i > Scalars(t)
    <3> DEFINE j == PointOf(t, i)
    <3>1. j \in 1..Points(t) /\ (i = First(t, j) \/ i = Second(t, j))
      BY <2>2, WordOfPoint
    <3> HIDE DEF j
    <3>2. /\ Marshal(t, v)[First(t, j)] = v.P[j].X
          /\ Marshal(t, v)[Second(t, j)] = v.P[j].Y
      BY <3>1, MarshalWords
    <3> QED BY <3>1, <3>2
  <2> QED BY <2>1, <2>2, LayoutType
<1>2. Marshal(t, v) = [i \in 1..Size(t) |-> Marshal(t, v)[i]]
  BY DEF Marshal
<1> QED BY <1>1, <1>2

-----------------------------------------------------------------------------
(* Reading fields *)

LEMMA ScalarRead ==
    ASSUME NEW w \in Word, unmarshalScalar(w) # {}
    PROVE  (CHOOSE x \in unmarshalScalar(w) : TRUE) = w /\ w \in Scalar
<1>1. w \in Nat /\ q \in Nat
  BY SerializationAssumption DEF Word
<1>2. unmarshalScalar(w) = {w} /\ w < q
  BY DEF unmarshalScalar
<1> QED BY <1>1, <1>2 DEF Scalar

\* The uncompressed format.
LEMMA DecodeUncompressed ==
    ASSUME NEW w1, NEW w2, w1 \div Flag = 0
    PROVE  G1Decode(w1, w2)
               = {Z \in {[X |-> w1, Y |-> w2]} : w1 < p /\ w2 < p /\ IsOnCurve(Z)}
<1> DEFINE f == w1 \div Flag
           A == {Z \in {[X |-> w1, Y |-> w2]} : w1 < p /\ w2 < p /\ IsOnCurve(Z)}
           B == {Z \in {Infinity} : w1 = Flag}
           C == Decompress(w1 % Flag, FALSE)
           D == Decompress(w1 % Flag, TRUE)
<1>1. G1Decode(w1, w2) = CASE f = 0 -> A [] f = 1 -> B [] f = 2 -> C [] OTHER -> D
  BY Zenon DEF G1Decode
<1>2. f = 0
  OBVIOUS
<1> HIDE DEF f, A, B, C, D
<1>3. G1Decode(w1, w2) = A
  BY <1>1, <1>2
<1> QED BY <1>3 DEF A

\* A point that is accepted is the pair of the two words, and on the curve.
LEMMA PointRead ==
    ASSUME NEW t, NEW data, NEW j,
           data[First(t, j)] \in Word, data[Second(t, j)] \in Word,
           unmarshalPoint(t, data, j) # {}
    PROVE  LET R == [X |-> data[First(t, j)], Y |-> data[Second(t, j)]]
           IN  /\ (CHOOSE Q \in unmarshalPoint(t, data, j) : TRUE) = R
               /\ R \in G1Affine /\ IsOnCurve(R)
<1> DEFINE w1 == data[First(t, j)]
           w2 == data[Second(t, j)]
           R == [X |-> w1, Y |-> w2]
<1>1. w1 \in Nat /\ w2 \in Nat /\ p \in Nat
  BY SerializationAssumption DEF Word
<1>2. PICK S \in G1Decode(w1, w2) : requireUncompressedPoint(w1)
  BY DEF unmarshalPoint
<1>3. w1 \div Flag = 0
  BY <1>2 DEF requireUncompressedPoint
<1>4. G1Decode(w1, w2) = {Z \in {R} : w1 < p /\ w2 < p /\ IsOnCurve(Z)}
  BY <1>3, DecodeUncompressed
<1>5. unmarshalPoint(t, data, j) = {R} /\ w1 < p /\ w2 < p /\ IsOnCurve(R)
  BY <1>2, <1>4 DEF unmarshalPoint
<1>6. w1 \in Coord /\ w2 \in Coord
  BY <1>1, <1>5 DEF Coord
<1>7. R \in G1Affine
  BY <1>6 DEF G1Affine
<1> HIDE DEF R
<1>8. (CHOOSE Q \in unmarshalPoint(t, data, j) : TRUE) = R
  BY <1>5
<1> QED BY <1>5, <1>7, <1>8 DEF R

\* A point of the curve with reduced coordinates is accepted.
LEMMA PointAccepted ==
    ASSUME NEW t, NEW data, NEW j, NEW R \in G1Affine, IsOnCurve(R),
           data[First(t, j)] = R.X, data[Second(t, j)] = R.Y
    PROVE  unmarshalPoint(t, data, j) # {}
<1>1. R.X \in Coord /\ R.Y \in Coord /\ R = [X |-> R.X, Y |-> R.Y]
  BY DEF G1Affine
<1>2. R.X \in Nat /\ R.X < p /\ R.Y < p /\ p <= Flag /\ p \in Nat /\ Flag \in Nat
  BY <1>1, SerializationAssumption DEF Coord
<1>3. R.X \div Flag = 0
  BY <1>2
<1>4. R \in G1Decode(R.X, R.Y)
  BY <1>1, <1>2, <1>3, DecodeUncompressed
<1>5. R \in unmarshalPoint(t, data, j)
  BY <1>3, <1>4 DEF unmarshalPoint, requireUncompressedPoint
<1> QED BY <1>5

LEMMA StructChar ==
    ASSUME NEW t, NEW s, NEW P
    PROVE  /\ [s |-> s, P |-> P] \in Struct(t)
                <=> s \in [1..Scalars(t) -> Scalar] /\ P \in [1..Points(t) -> G1Affine]
           /\ \A v \in Struct(t) : /\ v = [s |-> v.s, P |-> v.P]
                                    /\ v.s \in [1..Scalars(t) -> Scalar]
                                    /\ v.P \in [1..Points(t) -> G1Affine]
BY DEF Struct

\* v is the receiver old written up to field k: the fields before k are what
\* the bytes say, points on the curve, the others are as before.
UpTo(t, data, old, k, v) ==
    /\ v \in Struct(t)
    /\ \A i \in 1..Scalars(t) : IF i < k THEN v.s[i] = data[i] ELSE v.s[i] = old.s[i]
    /\ \A j \in 1..Points(t) :
          IF Scalars(t) + j < k
          THEN /\ v.P[j] = [X |-> data[First(t, j)], Y |-> data[Second(t, j)]]
               /\ IsOnCurve(v.P[j])
          ELSE v.P[j] = old.P[j]

LEMMA WrittenFields ==
    ASSUME NEW t, NEW data \in [1..Size(t) -> Word], NEW old \in Struct(t), NEW k \in Nat,
           \A f \in Fields(t) : f < k => FieldOK(t, data, f)
    PROVE  UpTo(t, data, old, k, Written(t, data, old, k))
<1> DEFINE v == Written(t, data, old, k)
           vs == [i \in 1..Scalars(t) |->
                    IF i < k THEN CHOOSE x \in unmarshalScalar(data[i]) : TRUE ELSE old.s[i]]
           vP == [j \in 1..Points(t) |->
                    IF Scalars(t) + j < k THEN CHOOSE R \in unmarshalPoint(t, data, j) : TRUE
                    ELSE old.P[j]]
<1>1. v = [s |-> vs, P |-> vP]
  BY DEF Written
<1>2. Scalars(t) \in Nat /\ Points(t) \in Nat /\ Size(t) = Scalars(t) + 2 * Points(t)
  BY LayoutType
<1>3. /\ old.s \in [1..Scalars(t) -> Scalar] /\ old.P \in [1..Points(t) -> G1Affine]
  BY StructChar
<1>4. ASSUME NEW i \in 1..Scalars(t)
      PROVE  vs[i] \in Scalar /\ IF i < k THEN vs[i] = data[i] ELSE vs[i] = old.s[i]
  <2>1. CASE i < k
    <3>1. i \in 1..Size(t) /\ i \in Fields(t) /\ i <= Scalars(t)
      BY <1>2 DEF Fields
    <3>2. data[i] \in Word /\ unmarshalScalar(data[i]) # {}
      BY <2>1, <3>1 DEF FieldOK
    <3>3. (CHOOSE x \in unmarshalScalar(data[i]) : TRUE) = data[i] /\ data[i] \in Scalar
      BY <3>2, ScalarRead
    <3> QED BY <2>1, <3>3
  <2>2. CASE ~(i < k)
    BY <1>3, <2>2
  <2> QED BY <2>1, <2>2
<1>5. ASSUME NEW j \in 1..Points(t)
      PROVE  /\ vP[j] \in G1Affine
             /\ IF Scalars(t) + j < k
                THEN /\ vP[j] = [X |-> data[First(t, j)], Y |-> data[Second(t, j)]]
                     /\ IsOnCurve(vP[j])
                ELSE vP[j] = old.P[j]
  <2>1. CASE Scalars(t) + j < k
    <3>1. /\ Scalars(t) + j \in Fields(t) /\ ~(Scalars(t) + j <= Scalars(t))
          /\ (Scalars(t) + j) - Scalars(t) = j
      BY <1>2 DEF Fields
    <3>2. unmarshalPoint(t, data, j) # {}
      BY <2>1, <3>1 DEF FieldOK
    <3>3. data[First(t, j)] \in Word /\ data[Second(t, j)] \in Word
      BY PointOfWord
    <3> DEFINE R == [X |-> data[First(t, j)], Y |-> data[Second(t, j)]]
    <3>4. /\ (CHOOSE Q \in unmarshalPoint(t, data, j) : TRUE) = R
          /\ R \in G1Affine /\ IsOnCurve(R)
      BY <3>2, <3>3, PointRead
    <3> HIDE DEF R
    <3>5. vP[j] = R
      BY <2>1, <3>4
    <3> QED BY <2>1, <3>4, <3>5 DEF R
  <2>2. CASE ~(Scalars(t) + j < k)
    BY <1>3, <2>2
  <2> QED BY <2>1, <2>2
<1>6. vs \in [1..Scalars(t) -> Scalar] /\ vP \in [1..Points(t) -> G1Affine]
  BY <1>4, <1>5
<1> HIDE DEF vs, vP, v
<1>7. v \in Struct(t) /\ v.s = vs /\ v.P = vP
  BY <1>1, <1>6, StructChar
<1> QED BY <1>4, <1>5, <1>7 DEF v, UpTo

\* Zero values are values.
LEMMA ZeroType == \A t : Zero(t) \in Struct(t)
<1> SUFFICES ASSUME NEW t PROVE Zero(t) \in Struct(t)
  OBVIOUS
<1>1. 0 \in Scalar /\ 0 \in Coord
  BY SerializationAssumption DEF Scalar, Coord
<1>2. Infinity \in G1Affine
  BY <1>1 DEF Infinity, G1Affine
<1> QED BY <1>1, <1>2 DEF Zero, Struct

LEMMA ReceiverType ==
    ASSUME NEW t, NEW old \in Struct(t)
    PROVE  Receiver(t, old) \in Struct(t) /\ Receiver(t, Receiver(t, old)) = Receiver(t, old)
BY ZeroType DEF Receiver

\* A set of fields that is not empty has a first one.
LEMMA FirstField ==
    ASSUME NEW S \in SUBSET Nat, S # {}
    PROVE  Min(S) \in S /\ \A x \in S : Min(S) <= x
<1> DEFINE R == OpToRel(<, Nat)
<1>1. \A x, y \in Nat : x < y => <<x, y>> \in R
  BY DEF OpToRel
<1>2. IsWellFoundedOn(R, Nat)
  BY NatLessThanWellFounded
<1> HIDE DEF R
<1>3. \E x \in S : \A y \in S : ~ (<<y, x>> \in R)
  BY <1>2, WFMin
<1>4. PICK m \in S : \A y \in S : ~ (<<y, m>> \in R)
  BY <1>3
<1>5. ASSUME NEW y \in S PROVE m =< y
  <2>1. m \in Nat /\ y \in Nat
    OBVIOUS
  <2>2. ~(y < m)
    BY <1>1, <1>4, <2>1, Zenon
  <2> QED BY <2>1, <2>2
<1> QED BY <1>5 DEF Min

\* The receiver after a successful and after a failed call.
Whole(t, data, rec) == Written(t, data, rec, Scalars(t) + Points(t) + 1)

Accepted(t, data, rec, out) ==
    /\ Len(data) = Size(t) /\ \A f \in Fields(t) : FieldOK(t, data, f)
    /\ out.val = Whole(t, data, rec) /\ (out.ok <=> Validated(t, Whole(t, data, rec)))

RefusedAt(t, data, rec, out, k) ==
    /\ Len(data) = Size(t)
    /\ ~FieldOK(t, data, k) /\ \A f \in Fields(t) : f < k => FieldOK(t, data, f)
    /\ ~out.ok
    /\ \/ out.val = Written(t, data, rec, k)
       \/ /\ k > Scalars(t)
          /\ \E R \in G1Affine :
                out.val = [Written(t, data, rec, k) EXCEPT !.P[k - Scalars(t)] = R]

\* The outcomes of Unmarshal: wrong length, all fields read, or an error at
\* the first bad field.
LEMMA UnmarshalCases ==
    ASSUME NEW t, NEW data, NEW old \in Struct(t), NEW out \in Unmarshal(t, data, old)
    PROVE  LET rec == Receiver(t, old) IN
           \/ Len(data) # Size(t) /\ ~out.ok /\ out.val = rec
           \/ Accepted(t, data, rec, out)
           \/ \E k \in Fields(t) : RefusedAt(t, data, rec, out, k)
<1> DEFINE rec == Receiver(t, old)
           bad == {f \in Fields(t) : ~FieldOK(t, data, f)}
           k == Min(bad)
           j == k - Scalars(t)
           cut == Written(t, data, rec, k)
           full == Whole(t, data, rec)
           left == G1Leftovers(data[First(t, j)], data[Second(t, j)], rec.P[j])
           sc == k <= Scalars(t) \/ ~requireUncompressedPoint(data[First(t, j)])
<1>1. out \in IF Len(data) # Size(t) THEN {[ok |-> FALSE, val |-> rec]}
              ELSE IF bad = {} THEN {[ok |-> Validated(t, full), val |-> full]}
              ELSE IF sc THEN {[ok |-> FALSE, val |-> cut]}
              ELSE {[ok |-> FALSE, val |-> [cut EXCEPT !.P[j] = R]] : R \in left}
  BY DEF Unmarshal, Whole
<1>2. Scalars(t) \in Nat /\ Points(t) \in Nat \ {0} /\ Fields(t) \in SUBSET Nat
  BY LayoutType DEF Fields
<1>3. CASE Len(data) # Size(t)
  BY <1>1, <1>3
<1>4. CASE Len(data) = Size(t) /\ bad = {}
  <2>1. out = [ok |-> Validated(t, full), val |-> full]
    BY <1>1, <1>4
  <2>2. out.val = full /\ (out.ok <=> Validated(t, full))
    BY <2>1, Zenon
  <2> QED BY <1>4, <2>2 DEF Accepted
<1>5. CASE Len(data) = Size(t) /\ bad # {}
  <2>1. k \in bad /\ \A x \in bad : k <= x
    BY <1>2, <1>5, FirstField
  <2> HIDE DEF k
  <2>2. /\ k \in Fields(t) /\ k \in Nat /\ ~FieldOK(t, data, k)
        /\ \A f \in Fields(t) : f < k => FieldOK(t, data, f)
    BY <1>2, <2>1
  <2>3. CASE sc
    <3>1. out = [ok |-> FALSE, val |-> cut]
      BY <1>1, <1>5, <2>3
    <3>2. ~out.ok /\ out.val = cut
      BY <3>1
    <3> QED BY <1>5, <2>2, <3>2 DEF RefusedAt
  <2>4. CASE ~sc
    <3>1. PICK R \in left : out = [ok |-> FALSE, val |-> [cut EXCEPT !.P[j] = R]]
      BY <1>1, <1>5, <2>4
    <3>2. ~out.ok /\ out.val = [cut EXCEPT !.P[j] = R]
      BY <3>1
    <3>3. k > Scalars(t) /\ j \in 1..Points(t)
      BY <1>2, <2>2, <2>4 DEF Fields
    <3>4. R \in G1Affine
      <4>1. rec.P[j] \in G1Affine
        <5>1. rec \in Struct(t)
          BY ReceiverType
        <5> HIDE DEF rec
        <5>2. rec.P \in [1..Points(t) -> G1Affine]
          BY <5>1, StructChar
        <5> QED BY <3>3, <5>2
      <4> QED BY <3>1, <4>1 DEF G1Leftovers
    <3> QED BY <1>5, <2>2, <3>2, <3>3, <3>4 DEF RefusedAt
  <2> QED BY <2>3, <2>4
<1> QED BY <1>3, <1>4, <1>5

-----------------------------------------------------------------------------
(* What the outcomes of Unmarshal have in common *)

LEMMA WordSeq ==
    ASSUME NEW t, NEW data \in Seq(Word), Len(data) = Size(t)
    PROVE  data \in [1..Size(t) -> Word]
OBVIOUS

\* All fields were read.
LEMMA WholeFields ==
    ASSUME NEW t, NEW data \in Seq(Word), NEW rec \in Struct(t), Len(data) = Size(t),
           \A f \in Fields(t) : FieldOK(t, data, f)
    PROVE  LET v == Whole(t, data, rec)
           IN  /\ v \in Struct(t) /\ Marshal(t, v) = data
               /\ \A j \in 1..Points(t) : IsOnCurve(v.P[j])
<1> DEFINE k == Scalars(t) + Points(t) + 1
           v == Written(t, data, rec, k)
<1>1. data \in [1..Size(t) -> Word]
  BY WordSeq
<1>2. Scalars(t) \in Nat /\ Points(t) \in Nat /\ k \in Nat
  BY LayoutType
<1>3. /\ v \in Struct(t)
      /\ \A i \in 1..Scalars(t) : IF i < k THEN v.s[i] = data[i] ELSE v.s[i] = rec.s[i]
      /\ \A j \in 1..Points(t) :
            IF Scalars(t) + j < k
            THEN /\ v.P[j] = [X |-> data[First(t, j)], Y |-> data[Second(t, j)]]
                 /\ IsOnCurve(v.P[j])
            ELSE v.P[j] = rec.P[j]
  <2>1. \A f \in Fields(t) : f < k => FieldOK(t, data, f)
    OBVIOUS
  <2> HIDE DEF k
  <2>2. UpTo(t, data, rec, k, v)
    BY <1>1, <1>2, <2>1, WrittenFields
  <2> QED BY <2>2 DEF UpTo
<1> HIDE DEF v
<1>4. \A i \in 1..Scalars(t) : v.s[i] = data[i]
  BY <1>2, <1>3
<1>5. \A j \in 1..Points(t) : /\ v.P[j] = [X |-> data[First(t, j)], Y |-> data[Second(t, j)]]
                             /\ IsOnCurve(v.P[j])
  BY <1>2, <1>3
<1>6. \A j \in 1..Points(t) : v.P[j].X = data[First(t, j)] /\ v.P[j].Y = data[Second(t, j)]
  <2> SUFFICES ASSUME NEW j \in 1..Points(t)
               PROVE  v.P[j].X = data[First(t, j)] /\ v.P[j].Y = data[Second(t, j)]
    OBVIOUS
  <2>1. v.P[j] = [X |-> data[First(t, j)], Y |-> data[Second(t, j)]]
    BY <1>5
  <2> QED BY <2>1
<1>7. Marshal(t, v) = data
  BY <1>1, <1>4, <1>6, WordsMarshal
<1>8. Whole(t, data, rec) = v
  BY DEF Whole, v
<1> QED BY <1>3, <1>5, <1>7, <1>8

\* A successful call decodes exactly its bytes, to something sound.
LEMMA OutcomeOK ==
    ASSUME NEW t, NEW data \in Seq(Word), NEW old \in Struct(t),
           NEW out \in Unmarshal(t, data, old), out.ok
    PROVE  /\ out.val \in Struct(t) /\ Marshal(t, out.val) = data
           /\ \A j \in 1..Points(t) : IsOnCurve(out.val.P[j])
           /\ Validated(t, out.val)
<1> DEFINE rec == Receiver(t, old)
<1>1. rec \in Struct(t)
  BY ReceiverType
<1>2. Accepted(t, data, rec, out)
  BY UnmarshalCases DEF RefusedAt
<1> HIDE DEF rec
<1> QED BY <1>1, <1>2, WholeFields DEF Accepted

\* Whatever the outcome, scalars and coordinates are reduced.
LEMMA OutcomeType ==
    ASSUME NEW t, NEW data \in Seq(Word), NEW old \in Struct(t),
           NEW out \in Unmarshal(t, data, old)
    PROVE  out.val \in Struct(t)
<1> DEFINE rec == Receiver(t, old)
<1>1. rec \in Struct(t)
  BY ReceiverType
<1>2. \/ Len(data) # Size(t) /\ ~out.ok /\ out.val = rec
      \/ Accepted(t, data, rec, out)
      \/ \E k \in Fields(t) : RefusedAt(t, data, rec, out, k)
  BY UnmarshalCases
<1> HIDE DEF rec
<1>3. CASE Accepted(t, data, rec, out)
  BY <1>1, <1>3, WholeFields DEF Accepted
<1>4. ASSUME NEW k \in Fields(t), RefusedAt(t, data, rec, out, k) PROVE out.val \in Struct(t)
  <2> DEFINE v == Written(t, data, rec, k)
             j == k - Scalars(t)
  <2>1. data \in [1..Size(t) -> Word]
    BY <1>4, WordSeq DEF RefusedAt
  <2>2. Scalars(t) \in Nat /\ Points(t) \in Nat /\ k \in 1..(Scalars(t) + Points(t))
    BY LayoutType DEF Fields
  <2>3. v \in Struct(t)
    BY <1>1, <1>4, <2>1, <2>2, WrittenFields DEF RefusedAt, UpTo
  <2>4. CASE out.val = v
    BY <2>3, <2>4
  <2>5. ASSUME k > Scalars(t), NEW R \in G1Affine, out.val = [v EXCEPT !.P[j] = R]
        PROVE  out.val \in Struct(t)
    <3> HIDE DEF v
    <3>1. j \in 1..Points(t)
      BY <2>2, <2>5
    <3>2. /\ v = [s |-> v.s, P |-> v.P] /\ v.s \in [1..Scalars(t) -> Scalar]
          /\ v.P \in [1..Points(t) -> G1Affine]
      BY <2>3, StructChar
    <3> HIDE DEF j
    <3>3. out.val = [s |-> v.s, P |-> [v.P EXCEPT ![j] = R]]
      BY <2>5, <3>2
    <3>4. [v.P EXCEPT ![j] = R] \in [1..Points(t) -> G1Affine]
      BY <3>1, <3>2
    <3>5. [s |-> v.s, P |-> [v.P EXCEPT ![j] = R]] \in Struct(t)
      BY <3>2, <3>4, StructChar
    <3> QED BY <3>3, <3>5
  <2> QED BY <1>4, <2>4, <2>5 DEF RefusedAt
<1> QED BY <1>1, <1>2, <1>3, <1>4

\* Two values of a type with the same encoding are equal.
LEMMA MarshalInjective ==
    ASSUME NEW t, NEW u \in Struct(t), NEW v \in Struct(t), Marshal(t, u) = Marshal(t, v)
    PROVE  u = v
<1>1. /\ u = [s |-> u.s, P |-> u.P] /\ v = [s |-> v.s, P |-> v.P]
      /\ u.s \in [1..Scalars(t) -> Scalar] /\ v.s \in [1..Scalars(t) -> Scalar]
      /\ u.P \in [1..Points(t) -> G1Affine] /\ v.P \in [1..Points(t) -> G1Affine]
  BY StructChar
<1>2. \A i \in 1..Scalars(t) : u.s[i] = v.s[i]
  BY MarshalWords
<1>3. ASSUME NEW j \in 1..Points(t) PROVE u.P[j] = v.P[j]
  <2>1. u.P[j].X = v.P[j].X /\ u.P[j].Y = v.P[j].Y
    BY MarshalWords
  <2>2. u.P[j] \in G1Affine /\ v.P[j] \in G1Affine
    BY <1>1
  <2>3. \A P \in G1Affine : P = [X |-> P.X, Y |-> P.Y]
    BY DEF G1Affine
  <2> QED BY <2>1, <2>2, <2>3
<1>4. u.s = v.s /\ u.P = v.P
  <2>1. \A A, B : \A f, g \in [A -> B] : (\A x \in A : f[x] = g[x]) => f = g
    OBVIOUS
  <2> DEFINE A == 1..Scalars(t)
             B == 1..Points(t)
  <2>2. /\ u.s \in [A -> Scalar] /\ v.s \in [A -> Scalar] /\ \A i \in A : u.s[i] = v.s[i]
        /\ u.P \in [B -> G1Affine] /\ v.P \in [B -> G1Affine] /\ \A i \in B : u.P[i] = v.P[i]
    BY <1>1, <1>2, <1>3
  <2> HIDE DEF A, B
  <2>3. u.s = v.s
    BY <2>1, <2>2
  <2>4. u.P = v.P
    BY <2>1, <2>2
  <2> QED BY <2>3, <2>4
<1> QED BY <1>1, <1>4

\* Every field of an encoded value is accepted if its points are on the curve.
LEMMA MarshalledFieldsOK ==
    ASSUME NEW t, NEW v \in Struct(t), \A j \in 1..Points(t) : IsOnCurve(v.P[j]),
           NEW f \in Fields(t)
    PROVE  FieldOK(t, Marshal(t, v), f)
<1>1. Scalars(t) \in Nat /\ Points(t) \in Nat /\ f \in 1..(Scalars(t) + Points(t))
  BY LayoutType DEF Fields
<1>2. v.s \in [1..Scalars(t) -> Scalar] /\ v.P \in [1..Points(t) -> G1Affine]
  BY StructChar
<1>3. CASE f <= Scalars(t)
  <2>1. f \in 1..Scalars(t)
    BY <1>1, <1>3
  <2>2. Marshal(t, v)[f] \in Scalar
    <3>1. Marshal(t, v)[f] = v.s[f]
      BY <2>1, MarshalWords
    <3>2. v.s[f] \in Scalar
      BY <1>2, <2>1
    <3> QED BY <3>1, <3>2
  <2>3. Marshal(t, v)[f] < q
    BY <2>2, SerializationAssumption DEF Scalar
  <2> QED BY <1>3, <2>3 DEF FieldOK, unmarshalScalar
<1>4. CASE ~(f <= Scalars(t))
  <2> DEFINE j == f - Scalars(t)
  <2>1. j \in 1..Points(t)
    BY <1>1, <1>4
  <2>2. v.P[j] \in G1Affine /\ IsOnCurve(v.P[j])
    BY <1>2, <2>1
  <2>3. Marshal(t, v)[First(t, j)] = v.P[j].X /\ Marshal(t, v)[Second(t, j)] = v.P[j].Y
    BY <2>1, MarshalWords
  <2>4. unmarshalPoint(t, Marshal(t, v), j) # {}
    BY <2>2, <2>3, PointAccepted
  <2> QED BY <1>4, <2>4 DEF FieldOK
<1> QED BY <1>3, <1>4

\* Encodings are byte strings of the right length.
LEMMA MarshalType ==
    ASSUME NEW t, NEW v \in Struct(t)
    PROVE  Marshal(t, v) \in Seq(Word) /\ Len(Marshal(t, v)) = Size(t)
<1>1. v.s \in [1..Scalars(t) -> Scalar] /\ v.P \in [1..Points(t) -> G1Affine]
  BY StructChar
<1>2. Scalar \subseteq Word /\ Coord \subseteq Word
  BY SerializationAssumption DEF Scalar, Coord, Word
<1>3. ASSUME NEW i \in 1..Size(t) PROVE Marshal(t, v)[i] \in Word
  <2>1. CASE i <= Scalars(t)
    <3>1. i \in 1..Scalars(t)
      BY <2>1, LayoutType
    <3>2. Marshal(t, v)[i] = v.s[i]
      BY <3>1, MarshalWords
    <3>3. v.s[i] \in Scalar
      BY <1>1, <3>1
    <3> QED BY <1>2, <3>2, <3>3
  <2>2. CASE i > Scalars(t)
    <3> DEFINE j == PointOf(t, i)
    <3>1. j \in 1..Points(t) /\ (i = First(t, j) \/ i = Second(t, j))
      BY <2>2, WordOfPoint
    <3> HIDE DEF j
    <3>2. v.P[j] \in G1Affine
      BY <1>1, <3>1
    <3>3. v.P[j].X \in Word /\ v.P[j].Y \in Word
      BY <1>2, <3>2 DEF G1Affine
    <3>4. /\ Marshal(t, v)[First(t, j)] = v.P[j].X
          /\ Marshal(t, v)[Second(t, j)] = v.P[j].Y
      BY <3>1, MarshalWords
    <3> QED BY <3>1, <3>3, <3>4
  <2> QED BY <2>1, <2>2, LayoutType
<1>4. Marshal(t, v) \in [1..Size(t) -> Word]
  <2>1. Marshal(t, v) = [i \in 1..Size(t) |-> Marshal(t, v)[i]]
    BY DEF Marshal
  <2> QED BY <1>3, <2>1
<1>5. Size(t) \in Nat
  BY LayoutType
<1> QED BY <1>4, <1>5

\* Undamaged bytes: accepted exactly if the value was sound, and then equal.
LEMMA OutcomeRoundTrip ==
    ASSUME NEW t, NEW v \in Struct(t), NEW old \in Struct(t),
           NEW out \in Unmarshal(t, Marshal(t, v), old)
    PROVE  /\ out.ok <=> (\A j \in 1..Points(t) : IsOnCurve(v.P[j])) /\ Validated(t, v)
           /\ out.ok => out.val = v
<1> DEFINE data == Marshal(t, v)
           rec == Receiver(t, old)
<1>1. data \in Seq(Word) /\ Len(data) = Size(t) /\ rec \in Struct(t)
  BY MarshalType, ReceiverType
<1>2. ASSUME out.ok
      PROVE  /\ \A j \in 1..Points(t) : IsOnCurve(v.P[j]) /\ Validated(t, v)
             /\ out.val = v
  <2>1. /\ out.val \in Struct(t) /\ Marshal(t, out.val) = data
        /\ \A j \in 1..Points(t) : IsOnCurve(out.val.P[j])
        /\ Validated(t, out.val)
    BY <1>1, <1>2, OutcomeOK
  <2>2. out.val = v
    BY <2>1, MarshalInjective
  <2> QED BY <2>1, <2>2, Zenon
<1>3. ASSUME \A j \in 1..Points(t) : IsOnCurve(v.P[j]), Validated(t, v) PROVE out.ok
  <2>1. \A f \in Fields(t) : FieldOK(t, data, f)
    BY <1>3, MarshalledFieldsOK
  <2> HIDE DEF data, rec
  <2>2. Accepted(t, data, rec, out)
    BY <1>1, <2>1, UnmarshalCases DEF RefusedAt, data, rec
  <2>3. Whole(t, data, rec) \in Struct(t) /\ Marshal(t, Whole(t, data, rec)) = Marshal(t, v)
    BY <1>1, <2>1, WholeFields DEF data
  <2>4. Whole(t, data, rec) = v
    BY <2>3, MarshalInjective
  <2> QED BY <1>3, <2>2, <2>4 DEF Accepted
<1>4. Points(t) \in Nat \ {0}
  BY LayoutType
<1>5. 1 \in 1..Points(t)
  BY <1>4
<1>6. ASSUME out.ok PROVE Validated(t, v)
  BY <1>2, <1>5, <1>6
<1> QED BY <1>2, <1>3, <1>6

\* A failed call leaves a receiver that is split at one field.
LEMMA OutcomeSplit ==
    ASSUME NEW t, NEW data \in Seq(Word), NEW old \in Struct(t),
           NEW out \in Unmarshal(t, data, old)
    PROVE  LET v == out.val
               rec == Receiver(t, old)
           IN  \/ v = rec
               \/ /\ Len(data) = Size(t)
                  /\ \E k \in 1..(Scalars(t) + Points(t) + 1) :
                       /\ \A i \in 1..Scalars(t) :
                             IF i < k THEN v.s[i] = data[i] ELSE v.s[i] = rec.s[i]
                       /\ \A j \in 1..Points(t) :
                             /\ Scalars(t) + j < k =>
                                  marshalPoint(v.P[j]) = <<data[First(t, j)], data[Second(t, j)]>>
                             /\ Scalars(t) + j > k => v.P[j] = rec.P[j]
<1> DEFINE v == out.val
           rec == Receiver(t, old)
           Split(k) ==
               /\ \A i \in 1..Scalars(t) :
                     IF i < k THEN v.s[i] = data[i] ELSE v.s[i] = rec.s[i]
               /\ \A j \in 1..Points(t) :
                     /\ Scalars(t) + j < k =>
                          marshalPoint(v.P[j]) = <<data[First(t, j)], data[Second(t, j)]>>
                     /\ Scalars(t) + j > k => v.P[j] = rec.P[j]
<1>1. rec \in Struct(t)
  BY ReceiverType
<1>2. \/ v = rec
      \/ Accepted(t, data, rec, out)
      \/ \E k \in Fields(t) : RefusedAt(t, data, rec, out, k)
  BY UnmarshalCases
<1>3. Scalars(t) \in Nat /\ Points(t) \in Nat
  BY LayoutType
<1> HIDE DEF rec
\* Up to field k the receiver is written, field k itself holds anything.
<1>4. ASSUME NEW k \in 1..(Scalars(t) + Points(t) + 1), Len(data) = Size(t),
             \A f \in Fields(t) : f < k => FieldOK(t, data, f),
             v.s = Written(t, data, rec, k).s,
             \A j \in 1..Points(t) :
                 Scalars(t) + j # k => v.P[j] = Written(t, data, rec, k).P[j]
      PROVE  Split(k)
  <2> DEFINE w == Written(t, data, rec, k)
  <2>1. data \in [1..Size(t) -> Word] /\ k \in Nat
    BY <1>3, <1>4, WordSeq
  <2>2. /\ w \in Struct(t)
        /\ \A i \in 1..Scalars(t) : IF i < k THEN w.s[i] = data[i] ELSE w.s[i] = rec.s[i]
        /\ \A j \in 1..Points(t) :
              IF Scalars(t) + j < k
              THEN /\ w.P[j] = [X |-> data[First(t, j)], Y |-> data[Second(t, j)]]
                   /\ IsOnCurve(w.P[j])
              ELSE w.P[j] = rec.P[j]
    <3>1. \A f \in Fields(t) : f < k => FieldOK(t, data, f)
      BY <1>4
    <3>2. UpTo(t, data, rec, k, w)
      BY <1>1, <2>1, <3>1, WrittenFields
    <3> HIDE DEF w
    <3> QED BY <3>2 DEF UpTo
  <2> HIDE DEF w, v
  <2>3. v.s = w.s /\ \A j \in 1..Points(t) : Scalars(t) + j # k => v.P[j] = w.P[j]
    BY <1>4 DEF w
  <2>4. ASSUME NEW j \in 1..Points(t), Scalars(t) + j < k
        PROVE  marshalPoint(v.P[j]) = <<data[First(t, j)], data[Second(t, j)]>>
    <3>1. Scalars(t) + j # k
      BY <1>3, <2>1, <2>4
    <3>2. v.P[j] = [X |-> data[First(t, j)], Y |-> data[Second(t, j)]]
      BY <2>2, <2>3, <2>4, <3>1
    <3> QED BY <3>2 DEF marshalPoint
  <2>5. ASSUME NEW j \in 1..Points(t), Scalars(t) + j > k PROVE v.P[j] = rec.P[j]
    <3>1. Scalars(t) + j # k /\ ~(Scalars(t) + j < k)
      BY <1>3, <2>1, <2>5
    <3> QED BY <2>2, <2>3, <3>1
  <2> QED BY <2>2, <2>3, <2>4, <2>5
<1>5. CASE Accepted(t, data, rec, out)
  <2> DEFINE k == Scalars(t) + Points(t) + 1
  <2>1. k \in 1..(Scalars(t) + Points(t) + 1)
    BY <1>3
  <2>2. v = Written(t, data, rec, k) /\ Len(data) = Size(t)
    BY <1>5 DEF Accepted, Whole
  <2>3. \A f \in Fields(t) : f < k => FieldOK(t, data, f)
    BY <1>5 DEF Accepted
  <2> HIDE DEF k, v
  <2>4. Split(k)
    BY <1>4, <2>1, <2>2, <2>3
  <2> QED BY <2>1, <2>2, <2>4 DEF v, rec
<1>6. ASSUME NEW k \in Fields(t), RefusedAt(t, data, rec, out, k)
      PROVE  Len(data) = Size(t) /\ k \in 1..(Scalars(t) + Points(t) + 1) /\ Split(k)
  <2> DEFINE w == Written(t, data, rec, k)
  <2>1. k \in 1..(Scalars(t) + Points(t) + 1) /\ k \in Nat
    BY <1>3 DEF Fields
  <2>2. Len(data) = Size(t) /\ \A f \in Fields(t) : f < k => FieldOK(t, data, f)
    BY <1>6 DEF RefusedAt
  <2>3. w \in Struct(t)
    BY <1>1, <2>1, <2>2, WordSeq, WrittenFields DEF UpTo
  <2>4. v.s = w.s /\ \A j \in 1..Points(t) : Scalars(t) + j # k => v.P[j] = w.P[j]
    <3> HIDE DEF w, v
    <3>1. CASE v = w
      BY <3>1
    <3>2. ASSUME NEW R \in G1Affine, v = [w EXCEPT !.P[k - Scalars(t)] = R]
          PROVE  v.s = w.s /\ \A j \in 1..Points(t) : Scalars(t) + j # k => v.P[j] = w.P[j]
      <4> DEFINE x == k - Scalars(t)
      <4>1. w = [s |-> w.s, P |-> w.P] /\ w.P \in [1..Points(t) -> G1Affine]
        BY <2>3, StructChar
      <4>2. \A j \in 1..Points(t) : Scalars(t) + j # k => j # x
        BY <1>3, <2>1
      <4> HIDE DEF x
      <4>3. v = [s |-> w.s, P |-> [w.P EXCEPT ![x] = R]]
        BY <3>2, <4>1 DEF x
      <4>4. v.s = w.s /\ v.P = [w.P EXCEPT ![x] = R]
        BY <4>3
      <4> QED BY <4>1, <4>2, <4>4
    <3> QED BY <1>6, <3>1, <3>2 DEF RefusedAt, v, w
  <2> HIDE DEF v
  <2>5. Split(k)
    BY <1>4, <2>1, <2>2, <2>4
  <2> QED BY <2>1, <2>2, <2>5
<1> QED BY <1>2, <1>5, <1>6 DEF rec

-----------------------------------------------------------------------------
(* The invariant *)

MemInv ==
    /\ typ \in [Vars -> Types]
    /\ DOMAIN mem = Vars /\ \A r \in Vars : mem[r] \in Struct(typ[r])

\* Bytes under way that nothing has altered are the encoding of a value.
WireInv ==
    \A m \in wire :
        /\ m.data \in Seq(Word)
        /\ m.intact => m.from.val \in Struct(m.from.typ) /\ m.data = Marshal(m.from.typ, m.from.val)

\* What the last call left is an outcome of Unmarshal.
LastInv ==
    \A u \in last :
        /\ u.var \in Vars /\ u.msg \in wire
        /\ \E old \in Struct(typ[u.var]) : \E out \in Unmarshal(typ[u.var], u.msg.data, old) :
              u.old = Receiver(typ[u.var], old) /\ u.ok = out.ok /\ mem[u.var] = out.val

LogInv ==
    \A a \in log :
        /\ a.val \in Struct(a.typ) /\ Marshal(a.typ, a.val) = a.data
        /\ \A j \in 1..Points(a.typ) : IsOnCurve(a.val.P[j])
        /\ Validated(a.typ, a.val)

SerInv == MemInv /\ WireInv /\ LastInv /\ LogInv

LEMMA SerInitInv == Init => SerInv
<1> SUFFICES ASSUME Init PROVE SerInv
  OBVIOUS
<1>1. MemInv
  BY ZeroType, SerializationAssumption DEF Init, MemInv
<1> QED BY <1>1 DEF Init, SerInv, WireInv, LastInv, LogInv

LEMMA BuildInv == ASSUME SerInv, NEW r \in Vars, NEW v \in Built[typ[r]], Build(r, v) PROVE SerInv'
<1> USE DEF Build
<1>1. typ[r] \in Types
  BY DEF SerInv, MemInv
<1>2. v \in Struct(typ[r])
  BY <1>1, SerializationAssumption
<1>3. MemInv'
  BY <1>2 DEF SerInv, MemInv
<1>4. WireInv' /\ LastInv' /\ LogInv'
  BY DEF SerInv, WireInv, LastInv, LogInv
<1> QED BY <1>3, <1>4 DEF SerInv

LEMMA SendInv == ASSUME SerInv, NEW r \in Vars, Send(r) PROVE SerInv'
<1> USE DEF Send
<1> DEFINE f == [typ |-> typ[r], val |-> mem[r]]
           m == [data |-> Marshal(typ[r], mem[r]), intact |-> TRUE, from |-> f]
<1>1. mem[r] \in Struct(typ[r]) /\ wire' = {m} /\ last' = {}
  BY DEF SerInv, MemInv
<1>2. /\ m.data = Marshal(typ[r], mem[r]) /\ m.from.typ = typ[r] /\ m.from.val = mem[r]
  OBVIOUS
<1> HIDE DEF m, f
<1>3. WireInv'
  BY <1>1, <1>2, MarshalType DEF WireInv
<1>4. MemInv' /\ LastInv' /\ LogInv'
  BY <1>1 DEF SerInv, MemInv, LastInv, LogInv
<1> QED BY <1>3, <1>4 DEF SerInv

LEMMA AlteredInv == ASSUME SerInv, NEW data \in Seq(Word), Altered(data) PROVE SerInv'
<1> USE DEF Altered
<1>1. PICK m \in wire : wire' = {[data |-> data, intact |-> FALSE, from |-> m.from]}
  OBVIOUS
<1> DEFINE x == [data |-> data, intact |-> FALSE, from |-> m.from]
<1>2. x.data = data /\ ~x.intact
  OBVIOUS
<1> HIDE DEF x
<1>3. WireInv'
  BY <1>1, <1>2 DEF WireInv, x
<1>4. MemInv' /\ LastInv' /\ LogInv'
  BY DEF SerInv, MemInv, LastInv, LogInv
<1> QED BY <1>3, <1>4 DEF SerInv

\* Alterations of byte strings are byte strings.
LEMMA AlterationsInv == SerInv /\ (Garble \/ Resize) => SerInv'
<1> SUFFICES ASSUME SerInv, Garble \/ Resize PROVE SerInv'
  OBVIOUS
<1>1. \A m \in wire : m.data \in Seq(Word)
  BY DEF SerInv, WireInv
<1>2. Noise \subseteq Word
  BY SerializationAssumption
<1>3. ASSUME Garble PROVE SerInv'
  <2>1. PICK m \in wire : \E i \in DOMAIN m.data :
           \E w \in Noise \cup {(m.data[i] % Flag) + f * Flag : f \in 0..3} :
               Altered([m.data EXCEPT ![i] = w])
    BY <1>3 DEF Garble
  <2> DEFINE d == m.data
  <2>2. PICK i \in DOMAIN d : \E w \in Noise \cup {(d[i] % Flag) + f * Flag : f \in 0..3} :
               Altered([d EXCEPT ![i] = w])
    BY <2>1
  <2>3. PICK w \in Noise \cup {(d[i] % Flag) + f * Flag : f \in 0..3} :
               Altered([d EXCEPT ![i] = w])
    BY <2>2
  <2>4. d \in Seq(Word)
    BY <1>1
  <2> HIDE DEF d
  <2>5. w \in Word
    <3>1. CASE w \in Noise
      BY <1>2, <3>1
    <3>2. ASSUME NEW f \in 0..3, w = (d[i] % Flag) + f * Flag PROVE w \in Word
      <4> DEFINE x == d[i]
      <4>1. x \in Nat /\ Flag \in Nat /\ Flag > 0
        <5>1. x \in Word
          BY <2>4
        <5> QED BY <5>1, SerializationAssumption DEF Word
      <4> HIDE DEF x
      <4>2. x % Flag \in 0..(Flag - 1)
        BY <4>1
      <4>3. w = (x % Flag) + f * Flag
        BY <3>2 DEF x
      <4>4. f = 0 \/ f = 1 \/ f = 2 \/ f = 3
        OBVIOUS
      <4> DEFINE y == x % Flag
      <4> HIDE DEF y
      <4>5. y \in 0..(Flag - 1) /\ w = y + f * Flag
        BY <4>2, <4>3 DEF y
      <4>6. CASE f = 0
        BY <4>1, <4>5, <4>6 DEF Word
      <4>7. CASE f = 1
        BY <4>1, <4>5, <4>7 DEF Word
      <4>8. CASE f = 2
        BY <4>1, <4>5, <4>8 DEF Word
      <4>9. CASE f = 3
        BY <4>1, <4>5, <4>9 DEF Word
      <4> QED BY <4>4, <4>6, <4>7, <4>8, <4>9
    <3> QED BY <2>3, <3>1, <3>2
  <2>6. [d EXCEPT ![i] = w] \in Seq(Word)
    BY <2>4, <2>5
  <2> QED BY <2>3, <2>6, AlteredInv
<1>4. ASSUME Resize PROVE SerInv'
  <2>1. PICK m \in wire :
           \/ m.data # <<>> /\ Altered(SubSeq(m.data, 1, Len(m.data) - 1))
           \/ \E w \in Noise : Altered(Append(m.data, w))
    BY <1>4 DEF Resize
  <2> DEFINE d == m.data
  <2>2. d \in Seq(Word)
    BY <1>1
  <2> HIDE DEF d
  <2>3. ASSUME d # <<>> PROVE SubSeq(d, 1, Len(d) - 1) \in Seq(Word)
    BY <2>2, <2>3
  <2>4. \A w \in Noise : Append(d, w) \in Seq(Word)
    BY <1>2, <2>2
  <2> QED BY <2>1, <2>3, <2>4, AlteredInv DEF d
<1> QED BY <1>3, <1>4

LEMMA ReceiveInv == ASSUME SerInv, NEW r \in Vars, Receive(r) PROVE SerInv'
<1> USE DEF Receive
<1> DEFINE t == typ[r]
           old == mem[r]
<1>1. PICK m \in wire : \E out \in Unmarshal(t, m.data, old) :
          /\ mem' = [mem EXCEPT ![r] = out.val]
          /\ last' = {[var |-> r, msg |-> m, old |-> Receiver(t, old), ok |-> out.ok]}
          /\ log' = IF out.ok
                    THEN log \cup {[typ |-> t, data |-> m.data, val |-> out.val]}
                    ELSE log
  OBVIOUS
<1>2. PICK out \in Unmarshal(t, m.data, old) :
          /\ mem' = [mem EXCEPT ![r] = out.val]
          /\ last' = {[var |-> r, msg |-> m, old |-> Receiver(t, old), ok |-> out.ok]}
          /\ log' = IF out.ok
                    THEN log \cup {[typ |-> t, data |-> m.data, val |-> out.val]}
                    ELSE log
  BY <1>1
<1>3. old \in Struct(t) /\ m.data \in Seq(Word) /\ UNCHANGED <<typ, wire>>
  BY DEF SerInv, MemInv, WireInv
<1>4. DOMAIN mem = Vars /\ typ \in [Vars -> Types]
  BY DEF SerInv, MemInv
<1>5. out.val \in Struct(t)
  BY <1>3, OutcomeType
<1>6. mem'[r] = out.val
  BY <1>2, <1>4
<1>7. MemInv'
  BY <1>2, <1>3, <1>5 DEF SerInv, MemInv
<1>8. WireInv'
  BY <1>3 DEF SerInv, WireInv
<1>9. LastInv'
  <2> DEFINE u == [var |-> r, msg |-> m, old |-> Receiver(t, old), ok |-> out.ok]
  <2>1. u.var = r /\ u.msg = m /\ u.old = Receiver(t, old) /\ u.ok = out.ok
    OBVIOUS
  <2>2. last' = {u}
    BY <1>2
  <2> HIDE DEF u, old
  <2>3. /\ u.var \in Vars /\ u.msg \in wire'
        /\ u.old = Receiver(typ'[u.var], old) /\ u.ok = out.ok /\ mem'[u.var] = out.val
        /\ old \in Struct(typ'[u.var]) /\ out \in Unmarshal(typ'[u.var], u.msg.data, old)
    BY <1>2, <1>3, <1>6, <2>1
  <2> QED BY <2>2, <2>3 DEF LastInv
<1>10. LogInv'
  <2>1. CASE ~out.ok
    BY <1>2, <2>1 DEF SerInv, LogInv
  <2>2. CASE out.ok
    <3> DEFINE a == [typ |-> t, data |-> m.data, val |-> out.val]
    <3>1. a.typ = t /\ a.data = m.data /\ a.val = out.val
      OBVIOUS
    <3>2. log' = log \cup {a}
      BY <1>2, <2>2
    <3>3. /\ Marshal(t, out.val) = m.data /\ Validated(t, out.val)
          /\ \A j \in 1..Points(t) : IsOnCurve(out.val.P[j])
      BY <1>3, <2>2, OutcomeOK
    <3> HIDE DEF a, t
    <3>4. /\ a.val \in Struct(a.typ) /\ Marshal(a.typ, a.val) = a.data
          /\ \A j \in 1..Points(a.typ) : IsOnCurve(a.val.P[j])
          /\ Validated(a.typ, a.val)
      BY <1>5, <3>1, <3>3, Zenon
    <3> QED BY <3>2, <3>4 DEF SerInv, LogInv
  <2> QED BY <2>1, <2>2
<1> QED BY <1>7, <1>8, <1>9, <1>10 DEF SerInv

LEMMA SerStepInv == SerInv /\ [Next]_vars => SerInv'
<1> SUFFICES ASSUME SerInv, [Next]_vars PROVE SerInv'
  OBVIOUS
<1>1. CASE UNCHANGED vars
  BY <1>1 DEF vars, SerInv, MemInv, WireInv, LastInv, LogInv
<1> QED BY <1>1, BuildInv, SendInv, AlterationsInv, ReceiveInv DEF Next

\* Every accepted value was decoded from its own encoding, for every sequence
\* of calls and alterations.
THEOREM SerInvariant == Spec => []SerInv
BY SerInitInv, SerStepInv, PTL DEF Spec

-----------------------------------------------------------------------------
(* The properties *)

\* Variables always hold reduced scalars and coordinates.
THEOREM SerTypes == Spec => []SerTypeOK
<1>1. SerInv => SerTypeOK
  <2> SUFFICES ASSUME SerInv, NEW m \in wire, NEW i \in DOMAIN m.data PROVE m.data[i] \in Word
    BY DEF SerInv, MemInv, SerTypeOK
  <2>1. m.data \in Seq(Word)
    BY DEF SerInv, WireInv
  <2> QED BY <2>1
<1> QED BY <1>1, SerInvariant, PTL

\* A successful Unmarshal leaves exactly the bytes it was given.
THEOREM AcceptedBytesReencode == Spec => []AcceptedReencodes
<1>1. SerInv => AcceptedReencodes
  <2> SUFFICES ASSUME SerInv, NEW u \in last, u.ok
               PROVE  Marshal(typ[u.var], mem[u.var]) = u.msg.data
    BY DEF AcceptedReencodes
  <2> DEFINE t == typ[u.var]
             d == u.msg.data
  <2>1. PICK old \in Struct(t) : \E out \in Unmarshal(t, d, old) :
           u.ok = out.ok /\ mem[u.var] = out.val
    BY DEF SerInv, LastInv
  <2>2. PICK out \in Unmarshal(t, d, old) : u.ok = out.ok /\ mem[u.var] = out.val
    BY <2>1
  <2>3. d \in Seq(Word)
    BY DEF SerInv, LastInv, WireInv
  <2>4. out.ok
    BY <2>2
  <2> HIDE DEF t, d
  <2>5. Marshal(t, out.val) = d
    BY <2>3, <2>4, OutcomeOK
  <2> QED BY <2>2, <2>5 DEF t, d
<1> QED BY <1>1, SerInvariant, PTL

\* No two byte strings are accepted as one value of a type.
THEOREM DecodingIsCanonical == Spec => []DistinctBytesDistinctValues
<1>1. SerInv => DistinctBytesDistinctValues
  BY DEF SerInv, LogInv, DistinctBytesDistinctValues
<1> QED BY <1>1, SerInvariant, PTL

\* Accepted points are on the curve; C1 and public keys are not the identity.
THEOREM AcceptedValuesAreSound == Spec => []AcceptedIsSound
<1>1. SerInv => AcceptedIsSound
  <2> SUFFICES ASSUME SerInv, NEW a \in log
               PROVE  /\ \A j \in DOMAIN a.val.P : IsOnCurve(a.val.P[j])
                      /\ a.typ \in {"ciphertext", "public_key"} => a.val.P[1] # Infinity
    BY DEF AcceptedIsSound
  <2>1. /\ a.val \in Struct(a.typ) /\ \A j \in 1..Points(a.typ) : IsOnCurve(a.val.P[j])
        /\ Validated(a.typ, a.val)
    BY DEF SerInv, LogInv
  <2>2. DOMAIN a.val.P = 1..Points(a.typ)
    <3>1. a.val.P \in [1..Points(a.typ) -> G1Affine]
      BY <2>1, StructChar
    <3> QED BY <3>1
  <2>3. a.typ \in {"ciphertext", "public_key"} => a.val.P[1] # Infinity
    BY <2>1 DEF Validated
  <2> QED BY <2>1, <2>2, <2>3
<1> QED BY <1>1, SerInvariant, PTL

\* Undamaged bytes are accepted exactly if the sender's value was sound.
THEOREM UndamagedBytesRoundTrip == Spec => []UndamagedRoundTrip
<1>1. ASSUME SerInv, NEW u \in last, u.msg.intact, u.msg.from.typ = typ[u.var]
      PROVE  /\ u.ok <=> /\ \A j \in DOMAIN u.msg.from.val.P : IsOnCurve(u.msg.from.val.P[j])
                         /\ Validated(u.msg.from.typ, u.msg.from.val)
             /\ u.ok => mem[u.var] = u.msg.from.val
  <2> DEFINE t == typ[u.var]
             v == u.msg.from.val
  <2>1. /\ u.msg \in wire
        /\ \E old \in Struct(t) : \E out \in Unmarshal(t, u.msg.data, old) :
               u.ok = out.ok /\ mem[u.var] = out.val
    BY <1>1 DEF SerInv, LastInv
  <2>2. v \in Struct(t) /\ u.msg.data = Marshal(t, v) /\ u.msg.from.typ = t
    BY <1>1, <2>1 DEF SerInv, WireInv
  <2>3. PICK old \in Struct(t) : \E out \in Unmarshal(t, Marshal(t, v), old) :
               u.ok = out.ok /\ mem[u.var] = out.val
    BY <2>1, <2>2
  <2>4. PICK out \in Unmarshal(t, Marshal(t, v), old) : u.ok = out.ok /\ mem[u.var] = out.val
    BY <2>3
  <2> HIDE DEF t, v
  <2>5. /\ out.ok <=> (\A j \in 1..Points(t) : IsOnCurve(v.P[j])) /\ Validated(t, v)
        /\ out.ok => out.val = v
    BY <2>2, OutcomeRoundTrip
  <2>6. DOMAIN v.P = 1..Points(t)
    <3>1. v.P \in [1..Points(t) -> G1Affine]
      BY <2>2, StructChar
    <3> QED BY <3>1
  <2> QED BY <2>2, <2>4, <2>5, <2>6 DEF v
<1>2. SerInv => UndamagedRoundTrip
  BY <1>1, Zenon DEF UndamagedRoundTrip
<1> QED BY <1>2, SerInvariant, PTL

\* A failed Unmarshal leaves a receiver that is new up to one field and old
\* after it.
THEOREM FailuresSplitReceiver == Spec => []FailureSplitsReceiver
<1>1. ASSUME SerInv, NEW u \in last
      PROVE  LET t == typ[u.var] v == mem[u.var] d == u.msg.data IN
             \/ v = u.old
             \/ /\ Len(d) = Size(t)
                /\ \E k \in 1..(Scalars(t) + Points(t) + 1) :
                     /\ \A i \in 1..Scalars(t) :
                           IF i < k THEN v.s[i] = d[i] ELSE v.s[i] = u.old.s[i]
                     /\ \A j \in 1..Points(t) :
                           /\ Scalars(t) + j < k =>
                                marshalPoint(v.P[j]) = <<d[First(t, j)], d[Second(t, j)]>>
                           /\ Scalars(t) + j > k => v.P[j] = u.old.P[j]
  <2> DEFINE t == typ[u.var]
             d == u.msg.data
             v == mem[u.var]
             o == u.old
  <2>1. PICK old \in Struct(t) : \E out \in Unmarshal(t, d, old) :
           o = Receiver(t, old) /\ v = out.val
    BY <1>1 DEF SerInv, LastInv
  <2>2. PICK out \in Unmarshal(t, d, old) : o = Receiver(t, old) /\ v = out.val
    BY <2>1
  <2>3. d \in Seq(Word)
    BY <1>1 DEF SerInv, LastInv, WireInv
  <2> HIDE DEF t, d, v, o
  <2>4. \/ v = o
        \/ /\ Len(d) = Size(t)
           /\ \E k \in 1..(Scalars(t) + Points(t) + 1) :
                /\ \A i \in 1..Scalars(t) : IF i < k THEN v.s[i] = d[i] ELSE v.s[i] = o.s[i]
                /\ \A j \in 1..Points(t) :
                      /\ Scalars(t) + j < k =>
                           marshalPoint(v.P[j]) = <<d[First(t, j)], d[Second(t, j)]>>
                      /\ Scalars(t) + j > k => v.P[j] = o.P[j]
    BY <2>2, <2>3, OutcomeSplit, Zenon
  <2> QED BY <2>4, Zenon DEF t, d, v, o
<1>2. SerInv => FailureSplitsReceiver
  BY <1>1, Zenon DEF FailureSplitsReceiver
<1> QED BY <1>2, SerInvariant, PTL
=============================================================================
