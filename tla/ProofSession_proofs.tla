------------------------- MODULE ProofSession_proofs -------------------------
(***************************************************************************)
(* The transcript properties of proof sessions, for every group order, any *)
(* number of contexts, proofs, verifications, failures and resets, and any *)
(* network.  A transcript is determined by the proofs it has absorbed; the *)
(* invariant says so without recursion, because every proof remembers the  *)
(* transcript and the proofs it was made on: Chain links a history to the  *)
(* transcript it leads to through its last proof.                          *)
(***************************************************************************)
EXTENDS ProofSession, BN254_proofs, SequenceTheorems

-----------------------------------------------------------------------------
(* The algebra that the six Prove/Verify pairs share, for every prime order q *)
(* and every matrix: completeness, special soundness, and that a response     *)
(* answers one challenge only.                                                *)

\* row[1]*w[1] + ... + row[4]*w[4] before reduction.
Dot(row, w) == row[1] * w[1] + row[2] * w[2] + row[3] * w[3] + row[4] * w[4]

Vector == [Columns -> Int]

LEMMA CombineDot == \A row, w : Combine(row, w) = Dot(row, w) % q
BY DEF Combine, Dot

LEMMA VectorEntries ==
    \A v \in Vector : v[1] \in Int /\ v[2] \in Int /\ v[3] \in Int /\ v[4] \in Int
BY DEF Vector, Columns

LEMMA DotType == \A u, v \in Vector : Dot(u, v) \in Int
<1> SUFFICES ASSUME NEW u \in Vector, NEW v \in Vector PROVE Dot(u, v) \in Int
  OBVIOUS
<1>1. /\ u[1] \in Int /\ u[2] \in Int /\ u[3] \in Int /\ u[4] \in Int
      /\ v[1] \in Int /\ v[2] \in Int /\ v[3] \in Int /\ v[4] \in Int
  BY VectorEntries
<1>2. u[1] * v[1] \in Int /\ u[2] * v[2] \in Int /\ u[3] * v[3] \in Int /\ u[4] * v[4] \in Int
  BY <1>1
<1> QED BY <1>2 DEF Dot

\* Reducing the secrets does not change the point.
LEMMA DotReduced ==
    ASSUME NEW row \in Vector, NEW u \in Vector, NEW v \in Vector,
           \A c \in Columns : v[c] = u[c] % q
    PROVE  Dot(row, v) % q = Dot(row, u) % q
<1> DEFINE a1 == row[1]  a2 == row[2]  a3 == row[3]  a4 == row[4]
           u1 == u[1]  u2 == u[2]  u3 == u[3]  u4 == u[4]
           m1 == u1 % q  m2 == u2 % q  m3 == u3 % q  m4 == u4 % q
<1>1. /\ a1 \in Int /\ a2 \in Int /\ a3 \in Int /\ a4 \in Int
      /\ u1 \in Int /\ u2 \in Int /\ u3 \in Int /\ u4 \in Int
  BY VectorEntries
<1>2. m1 \in Int /\ m2 \in Int /\ m3 \in Int /\ m4 \in Int
  BY <1>1, ModType
<1>3. v[1] = m1 /\ v[2] = m2 /\ v[3] = m3 /\ v[4] = m4
  BY DEF Columns
<1>4. Dot(row, v) = a1 * m1 + a2 * m2 + a3 * m3 + a4 * m4
  BY <1>3 DEF Dot
<1>5. Dot(row, u) = a1 * u1 + a2 * u2 + a3 * u3 + a4 * u4
  BY DEF Dot
<1> DEFINE p1 == a1 * m1  p2 == a2 * m2  p3 == a3 * m3  p4 == a4 * m4
           r1 == a1 * u1  r2 == a2 * u2  r3 == a3 * u3  r4 == a4 * u4
<1>6. /\ p1 \in Int /\ p2 \in Int /\ p3 \in Int /\ p4 \in Int
      /\ r1 \in Int /\ r2 \in Int /\ r3 \in Int /\ r4 \in Int
  BY <1>1, <1>2
<1>7. /\ p1 = m1 * a1 /\ p2 = m2 * a2 /\ p3 = m3 * a3 /\ p4 = m4 * a4
      /\ r1 = u1 * a1 /\ r2 = u2 * a2 /\ r3 = u3 * a3 /\ r4 = u4 * a4
  BY <1>1, <1>2
<1>8. ((p2 + p3 + p4) + p1) % q = ((p2 + p3 + p4) + r1) % q
  <2>1. p2 + p3 + p4 \in Int
    BY <1>6
  <2>2. ((p2 + p3 + p4) + (u1 % q) * a1) % q = ((p2 + p3 + p4) + u1 * a1) % q
    BY <2>1, <1>1, ModLin
  <2> QED BY <2>2, <1>7
<1>9. ((r1 + p3 + p4) + p2) % q = ((r1 + p3 + p4) + r2) % q
  <2>1. r1 + p3 + p4 \in Int
    BY <1>6
  <2>2. ((r1 + p3 + p4) + (u2 % q) * a2) % q = ((r1 + p3 + p4) + u2 * a2) % q
    BY <2>1, <1>1, ModLin
  <2> QED BY <2>2, <1>7
<1>10. ((r1 + r2 + p4) + p3) % q = ((r1 + r2 + p4) + r3) % q
  <2>1. r1 + r2 + p4 \in Int
    BY <1>6
  <2>2. ((r1 + r2 + p4) + (u3 % q) * a3) % q = ((r1 + r2 + p4) + u3 * a3) % q
    BY <2>1, <1>1, ModLin
  <2> QED BY <2>2, <1>7
<1>11. ((r1 + r2 + r3) + p4) % q = ((r1 + r2 + r3) + r4) % q
  <2>1. r1 + r2 + r3 \in Int
    BY <1>6
  <2>2. ((r1 + r2 + r3) + (u4 % q) * a4) % q = ((r1 + r2 + r3) + u4 * a4) % q
    BY <2>1, <1>1, ModLin
  <2> QED BY <2>2, <1>7
<1> HIDE DEF p1, p2, p3, p4, r1, r2, r3, r4
<1>12. /\ (p2 + p3 + p4) + p1 = p1 + p2 + p3 + p4
       /\ (p2 + p3 + p4) + r1 = (r1 + p3 + p4) + p2
       /\ (r1 + p3 + p4) + r2 = (r1 + r2 + p4) + p3
       /\ (r1 + r2 + p4) + r3 = (r1 + r2 + r3) + p4
  BY <1>6
<1>13. (p1 + p2 + p3 + p4) % q = (r1 + r2 + r3 + r4) % q
  BY <1>8, <1>9, <1>10, <1>11, <1>12
<1> QED BY <1>4, <1>5, <1>13 DEF p1, p2, p3, p4, r1, r2, r3, r4

\* row*(k + e*w) = row*k + e*(row*w) before reduction.
LEMMA DotLinear ==
    ASSUME NEW row \in Vector, NEW k \in Vector, NEW w \in Vector, NEW v \in Vector,
           NEW e \in Int, \A c \in Columns : v[c] = k[c] + e * w[c]
    PROVE  Dot(row, v) = Dot(row, k) + e * Dot(row, w)
<1> DEFINE a1 == row[1]  a2 == row[2]  a3 == row[3]  a4 == row[4]
           k1 == k[1]  k2 == k[2]  k3 == k[3]  k4 == k[4]
           w1 == w[1]  w2 == w[2]  w3 == w[3]  w4 == w[4]
<1>1. /\ a1 \in Int /\ a2 \in Int /\ a3 \in Int /\ a4 \in Int
      /\ k1 \in Int /\ k2 \in Int /\ k3 \in Int /\ k4 \in Int
      /\ w1 \in Int /\ w2 \in Int /\ w3 \in Int /\ w4 \in Int
  BY VectorEntries
<1>2. /\ v[1] = k1 + e * w1 /\ v[2] = k2 + e * w2
      /\ v[3] = k3 + e * w3 /\ v[4] = k4 + e * w4
  BY DEF Columns
<1>3. ASSUME NEW a \in Int, NEW x \in Int, NEW y \in Int
      PROVE  a * (x + e * y) = a * x + e * (a * y)
  OBVIOUS
<1>4. Dot(row, v) = (a1 * k1 + e * (a1 * w1)) + (a2 * k2 + e * (a2 * w2))
                    + (a3 * k3 + e * (a3 * w3)) + (a4 * k4 + e * (a4 * w4))
  BY <1>1, <1>2, <1>3 DEF Dot
<1> DEFINE x1 == a1 * w1  x2 == a2 * w2  x3 == a3 * w3  x4 == a4 * w4
           y1 == a1 * k1  y2 == a2 * k2  y3 == a3 * k3  y4 == a4 * k4
<1>5. /\ x1 \in Int /\ x2 \in Int /\ x3 \in Int /\ x4 \in Int
      /\ y1 \in Int /\ y2 \in Int /\ y3 \in Int /\ y4 \in Int
  BY <1>1
<1>6. Dot(row, k) = y1 + y2 + y3 + y4 /\ Dot(row, w) = x1 + x2 + x3 + x4
  BY DEF Dot
<1> HIDE DEF x1, x2, x3, x4, y1, y2, y3, y4
<1>7. (y1 + e * x1) + (y2 + e * x2) + (y3 + e * x3) + (y4 + e * x4)
         = (y1 + y2 + y3 + y4) + e * (x1 + x2 + x3 + x4)
  BY <1>5
<1> QED BY <1>4, <1>6, <1>7 DEF x1, x2, x3, x4, y1, y2, y3, y4
\* A verification equation without the inner reductions.
LEMMA HoldsIff ==
    ASSUME NEW row, NEW s, NEW R \in Int, NEW e \in Int, NEW Y \in Int
    PROVE  Holds(row, s, R, e, Y) <=> Dot(row, s) % q = (R + e * Y) % q
<1>1. e * Y \in Int
  OBVIOUS
<1> DEFINE m == (e * Y) % q
<1>2. m \in Int
  BY <1>1, ModType
<1>3. (m + R) % q = (e * Y + R) % q
  BY <1>1, ModAdd
<1>4. m + R = R + m /\ e * Y + R = R + e * Y
  BY <1>1, <1>2
<1>5. (R + m) % q = (R + e * Y) % q
  BY <1>3, <1>4
<1> QED BY <1>5, CombineDot DEF Holds, PAdd, ScalarMul

-----------------------------------------------------------------------------
(* Completeness and soundness of the equations *)

\* Completeness: a response computed as the provers do satisfies every
\* equation of the verifiers, whatever the nonces and the challenge are.
THEOREM SigmaCompleteness ==
    ASSUME NEW matrix, NEW image, NEW w \in Vector, NEW k \in Vector, NEW e \in Int,
           \A i \in DOMAIN matrix : matrix[i] \in Vector,
           InRelation(matrix, image, w)
    PROVE  Accepts(matrix, image, Commit(matrix, k), Respond(k, e, w), e)
<1> SUFFICES ASSUME NEW i \in DOMAIN matrix
             PROVE  Holds(matrix[i], Respond(k, e, w), Commit(matrix, k)[i], e, image[i])
  BY DEF Accepts
<1> DEFINE row == matrix[i]
           s == Respond(k, e, w)
           v == [c \in Columns |-> k[c] + e * w[c]]
           D == Dot(row, w)
           K == Dot(row, k)
<1>1. row \in Vector
  OBVIOUS
<1>2. \A c \in Columns : k[c] \in Int /\ w[c] \in Int /\ e * w[c] \in Int /\ k[c] + e * w[c] \in Int
  <2> TAKE c \in Columns
  <2>1. k[c] \in Int /\ w[c] \in Int
    BY DEF Vector
  <2> QED BY <2>1
<1>3. v \in Vector
  BY <1>2 DEF Vector
<1>4. \A c \in Columns : s[c] = v[c] % q
  <2> SUFFICES ASSUME NEW c \in Columns PROVE s[c] = v[c] % q
    OBVIOUS
  <2> DEFINE x == k[c]  y == e * w[c]  m == y % q
  <2>1. x \in Int /\ y \in Int /\ m \in Int
    BY <1>2, ModType
  <2>2. (m + x) % q = (y + x) % q
    BY <2>1, ModAdd
  <2>3. m + x = x + m /\ y + x = x + y
    BY <2>1
  <2>4. s[c] = (x + m) % q
    BY DEF Respond, FAdd, FMul
  <2> QED BY <2>2, <2>3, <2>4
<1>5. s \in Vector
  <2>1. \A c \in Columns : s[c] \in Int
    BY <1>4, <1>2, ModType
  <2>2. s = [c \in Columns |-> s[c]]
    BY DEF Respond
  <2> QED BY <2>1, <2>2 DEF Vector
<1> HIDE DEF s, v
<1>6. Dot(row, s) % q = Dot(row, v) % q
  BY <1>1, <1>3, <1>4, <1>5, DotReduced
<1>7. \A c \in Columns : v[c] = k[c] + e * w[c]
  BY DEF v
<1>8. Dot(row, v) = K + e * D
  BY <1>1, <1>3, <1>7, DotLinear
<1>9. K \in Int /\ D \in Int
  BY <1>1, DotType
<1>10. Commit(matrix, k)[i] = K % q /\ image[i] = D % q
  BY CombineDot DEF Commit, InRelation
<1> DEFINE kk == K % q
           dd == D % q
<1> HIDE DEF K, D
<1>11. kk \in Int /\ dd \in Int
  BY <1>9, ModType
<1>12. (kk + e * dd) % q = (K + e * D) % q
  <2>1. (K + (D % q) * e) % q = (K + D * e) % q
    BY <1>9, ModLin
  <2>2. dd * e \in Int /\ e * D \in Int /\ D * e = e * D /\ dd * e = e * dd
    BY <1>9, <1>11
  <2>3. ((K % q) + e * dd) % q = (K + e * dd) % q
    <3> HIDE DEF dd
    <3> QED BY <2>2, <1>9, ModAdd
  <2> QED BY <2>1, <2>2, <2>3
<1>13. Holds(row, s, kk, e, dd)
  BY <1>6, <1>8, <1>11, <1>12, HoldsIff
<1> QED BY <1>10, <1>13 DEF s

\* Two accepted transcripts of one row differ by a multiple of its image.
LEMMA TwoAccepted ==
    ASSUME NEW row \in Vector, NEW s1 \in Vector, NEW s2 \in Vector,
           NEW R \in Int, NEW e1 \in Int, NEW e2 \in Int, NEW Y \in Int,
           Holds(row, s1, R, e1, Y), Holds(row, s2, R, e2, Y)
    PROVE  (Dot(row, s1) - Dot(row, s2)) % q = ((e1 - e2) * Y) % q
<1> DEFINE A == Dot(row, s1)
           B == Dot(row, s2)
           C == R + e1 * Y
           D == R + e2 * Y
<1>1. A \in Int /\ B \in Int /\ C \in Int /\ D \in Int
  BY DotType
<1>2. A % q = C % q /\ B % q = D % q
  BY HoldsIff
<1>3. C - D = (e1 - e2) * Y
  OBVIOUS
<1> HIDE DEF A, B, C, D
<1>4. (A - C) % q = 0 /\ (B - D) % q = 0
  BY <1>1, <1>2, ModDiff
<1>5. ((A - C) - (B - D)) % q = 0
  <2>1. A - C \in Int /\ B - D \in Int
    BY <1>1
  <2>2. (A - C) % q = (B - D) % q
    BY <1>4
  <2> QED BY <2>1, <2>2, ModDiff
<1>6. (A - C) - (B - D) = (A - B) - (C - D) /\ A - B \in Int /\ C - D \in Int
  BY <1>1
<1>7. (A - B) % q = (C - D) % q
  BY <1>5, <1>6, ModDiff
<1> QED BY <1>7, <1>3 DEF A, B

\* A response to a commitment is accepted for one challenge only, as soon as
\* one image is not the identity: this is why the verifiers refuse
\* degenerate keys and ciphertexts.
THEOREM OneChallengePerResponse ==
    ASSUME NEW matrix, NEW image, NEW R, NEW s \in Vector,
           NEW e1 \in Scalar, NEW e2 \in Scalar,
           NEW i \in DOMAIN matrix, matrix[i] \in Vector, R[i] \in Int,
           image[i] \in Point, image[i] # Identity,
           Accepts(matrix, image, R, s, e1), Accepts(matrix, image, R, s, e2)
    PROVE  e1 = e2
<1> DEFINE Y == image[i]
           D == Dot(matrix[i], s)
<1>1. e1 \in Int /\ e2 \in Int /\ Y \in Int /\ D \in Int /\ e1 - e2 \in Int
  BY DotType, QAssumption DEF Scalar, Point
<1>2. (D - D) % q = ((e1 - e2) * Y) % q
  BY <1>1, TwoAccepted DEF Accepts
<1>3. D - D = 0 /\ 0 \in 0..(q-1)
  BY <1>1, QAssumption
<1>4. ((e1 - e2) * Y) % q = 0
  BY <1>2, <1>3, ModSmall
<1>5. (e1 - e2) % q = 0 \/ Y % q = 0
  BY <1>1, <1>4, ModZeroDivisors
<1>6. Y % q # 0
  BY ModSmall DEF Point, Identity
<1>7. e1 % q = e2 % q
  BY <1>1, <1>5, <1>6, ModDiff
<1> QED BY <1>7, ModSmall DEF Scalar

\* The secrets w are computed from two responses: (s1 - s2) / (e1 - e2).
Extracted(w, s1, e1, s2, e2) ==
    \E t \in Scalar : /\ FMul(t, FSub(e1, e2)) = 1
                      /\ w = [c \in Columns |-> FMul(t, s1[c] - s2[c])]

\* Special soundness: from the answers to two challenges for one commitment one
\* computes secrets that solve the equations.
THEOREM SigmaSpecialSoundness ==
    ASSUME NEW matrix, NEW image, NEW R, NEW s1 \in Vector, NEW s2 \in Vector,
           NEW e1 \in Scalar, NEW e2 \in Scalar, e1 # e2,
           \A i \in DOMAIN matrix :
               matrix[i] \in Vector /\ R[i] \in Int /\ image[i] \in Point,
           Accepts(matrix, image, R, s1, e1), Accepts(matrix, image, R, s2, e2)
    PROVE  \E w \in [Columns -> Scalar] :
               Extracted(w, s1, e1, s2, e2) /\ InRelation(matrix, image, w)
<1>1. e1 \in Int /\ e2 \in Int /\ e1 - e2 \in Int
  BY QAssumption DEF Scalar
<1> DEFINE d == (e1 - e2) % q
<1>2. d \in 1..(q-1)
  <2>1. d \in 0..(q-1)
    BY <1>1, ModType
  <2>2. e1 % q = e1 /\ e2 % q = e2
    BY ModSmall DEF Scalar
  <2>3. d # 0
    BY <1>1, <2>2, ModDiff
  <2> QED BY <2>1, <2>3, QAssumption
<1>3. PICK t \in 1..(q-1) : (t * d) % q = 1
  BY <1>2, QPrime
<1>4. t \in Int /\ d \in Int
  BY <1>2, QAssumption
<1> DEFINE z == [c \in Columns |-> 0]
           u == [c \in Columns |-> s1[c] + (-1) * s2[c]]
           v == [c \in Columns |-> z[c] + t * u[c]]
           w == [c \in Columns |-> v[c] % q]
<1>5. z \in Vector
  BY DEF Vector
<1>6. u \in Vector
  <2>1. \A c \in Columns : s1[c] \in Int /\ s2[c] \in Int
    BY DEF Vector
  <2> QED BY <2>1 DEF Vector
<1>7. v \in Vector
  <2> HIDE DEF u
  <2>1. \A c \in Columns : u[c] \in Int /\ z[c] = 0
    BY <1>6 DEF Vector
  <2> QED BY <2>1, <1>4 DEF Vector
<1>8. w \in [Columns -> Scalar] /\ w \in Vector
  <2> HIDE DEF v
  <2>1. \A c \in Columns : v[c] \in Int
    BY <1>7 DEF Vector
  <2>2. \A c \in Columns : v[c] % q \in Scalar /\ v[c] % q \in Int
    BY <2>1, ModType DEF Scalar
  <2> QED BY <2>2 DEF Vector
<1>9. ASSUME NEW i \in DOMAIN matrix PROVE Combine(matrix[i], w) = image[i]
  <2> DEFINE row == matrix[i]
             Y == image[i]
             A == Dot(row, s1)
             B == Dot(row, s2)
             x == A - B
  <2>1. row \in Vector /\ R[i] \in Int /\ Y \in Point /\ Y \in Int
    BY QAssumption DEF Point
  <2>2. A \in Int /\ B \in Int /\ x \in Int
    BY <2>1, DotType
  <2>3. x % q = ((e1 - e2) * Y) % q
    BY <1>1, <2>1, TwoAccepted DEF Accepts
  <2>4. Dot(row, u) = x
    <3>1. \A c \in Columns : u[c] = s1[c] + (-1) * s2[c]
      OBVIOUS
    <3> HIDE DEF u
    <3>2. Dot(row, u) = A + (-1) * B
      BY <3>1, <2>1, <1>6, DotLinear
    <3> HIDE DEF A, B
    <3> QED BY <3>2, <2>2
  <2>5. Dot(row, v) = t * x
    <3>1. \A c \in Columns : v[c] = z[c] + t * u[c]
      OBVIOUS
    <3>2. Dot(row, z) = 0
      <4>1. z[1] = 0 /\ z[2] = 0 /\ z[3] = 0 /\ z[4] = 0
        BY DEF Columns
      <4> HIDE DEF z
      <4>2. row[1] \in Int /\ row[2] \in Int /\ row[3] \in Int /\ row[4] \in Int
        BY <2>1, VectorEntries
      <4> QED BY <4>1, <4>2 DEF Dot
    <3> HIDE DEF u, v, z
    <3>3. Dot(row, v) = Dot(row, z) + t * Dot(row, u)
      BY <3>1, <2>1, <1>4, <1>5, <1>6, <1>7, DotLinear
    <3> HIDE DEF x
    <3>4. Dot(row, v) = 0 + t * x
      BY <3>2, <3>3, <2>4
    <3>5. t * x \in Int
      BY <2>2, <1>4
    <3> QED BY <3>4, <3>5
  <2>6. Dot(row, w) % q = Dot(row, v) % q
    <3>1. \A c \in Columns : w[c] = v[c] % q
      OBVIOUS
    <3> HIDE DEF v, w
    <3> QED BY <3>1, <2>1, <1>7, <1>8, DotReduced
  <2> HIDE DEF u, v, w, z, x, Y, d
  <2>7. (t * x) % q = Y
    <3> DEFINE f == e1 - e2
               g == f * Y
               a == t * x
    <3>1. f \in Int /\ g \in Int /\ Y \in Int
      BY <1>1, <2>1
    <3>2. ((x % q) * t) % q = (x * t) % q /\ ((g % q) * t) % q = (g * t) % q
      <4> HIDE DEF f, g
      <4> QED BY <2>2, <3>1, <1>4, ModMul
    <3>3. x % q = g % q
      BY <2>3
    <3>4. (x * t) % q = (g * t) % q
      BY <3>2, <3>3
    <3>5. x * t = t * x /\ g * t = (t * f) * Y
      <4> HIDE DEF f
      <4> QED BY <2>2, <3>1, <1>4
    <3>6. (t * f) % q = 1
      <4>1. ((f % q) * t) % q = (f * t) % q
        BY <3>1, <1>4, ModMul
      <4>2. d = f % q
        BY DEF d
      <4> HIDE DEF f
      <4>3. f * t = t * f /\ d * t = t * d
        BY <3>1, <1>4
      <4> QED BY <4>1, <4>2, <4>3, <1>3
    <3>7. t * f \in Int
      BY <3>1, <1>4
    <3>8. (((t * f) % q) * Y) % q = ((t * f) * Y) % q
      <4> HIDE DEF f
      <4> QED BY <3>1, <3>7, ModMul
    <3>9. Y % q = Y
      BY <2>1, ModSmall DEF Point, Y
    <3>10. 1 * Y = Y
      BY <3>1
    <3> QED BY <3>4, <3>5, <3>6, <3>8, <3>9, <3>10
  <2> QED BY <2>5, <2>6, <2>7, CombineDot DEF Y
<1>10. w = [c \in Columns |-> FMul(t, s1[c] - s2[c])]
  <2>1. ASSUME NEW c \in Columns
        PROVE  w[c] = (t * (s1[c] - s2[c])) % q
    <3>1. s1[c] \in Int /\ s2[c] \in Int
      BY DEF Vector
    <3>2. 0 + t * (s1[c] + (-1) * s2[c]) = t * (s1[c] - s2[c])
      BY <1>4, <3>1
    <3> QED BY <3>2
  <2> QED BY <2>1 DEF FMul
<1>11. t \in Scalar /\ FMul(t, FSub(e1, e2)) = 1
  BY <1>3, QAssumption DEF Scalar, FMul, FSub
<1> HIDE DEF w
<1> QED BY <1>8, <1>9, <1>10, <1>11 DEF InRelation, Extracted

-----------------------------------------------------------------------------
(* Sequences of anything *)

IsSeq(s) == \E S : s \in Seq(S)

LEMMA EmptyIsSeq == IsSeq(<<>>)
<1>1. <<>> \in Seq({})
  OBVIOUS
<1> QED BY <1>1 DEF IsSeq

LEMMA FunIsSeq == ASSUME NEW n \in Nat, NEW s, DOMAIN s = 1..n, s = [i \in 1..n |-> s[i]]
                  PROVE  IsSeq(s) /\ Len(s) = n
<1> DEFINE S == {s[i] : i \in 1..n}
<1>1. s \in [1..n -> S]
  OBVIOUS
<1>2. s \in Seq(S)
  BY <1>1
<1>3. Len(s) = n
  BY <1>1
<1> QED BY <1>2, <1>3 DEF IsSeq

\* Two sequences have a common set of elements.
LEMMA CommonSet ==
    ASSUME NEW s, NEW t, IsSeq(s), IsSeq(t), NEW e, NEW f
    PROVE  \E S : s \in Seq(S) /\ t \in Seq(S) /\ e \in S /\ f \in S
<1>1. PICK A : s \in Seq(A)
  BY DEF IsSeq
<1>2. PICK B : t \in Seq(B)
  BY DEF IsSeq
<1> DEFINE S == A \cup B \cup {e, f}
<1>3. A \subseteq S /\ B \subseteq S /\ e \in S /\ f \in S
  OBVIOUS
<1> HIDE DEF S
<1>4. s \in Seq(S) /\ t \in Seq(S)
  BY <1>1, <1>2, <1>3, SeqMonotonic
<1> QED BY <1>3, <1>4

LEMMA AppendIsSeq == ASSUME NEW s, IsSeq(s), NEW e PROVE IsSeq(Append(s, e)) /\ Append(s, e) # <<>>
<1>1. PICK S : s \in Seq(S) /\ e \in S
  BY CommonSet
<1>2. Append(s, e) \in Seq(S) /\ Append(s, e) # <<>>
  BY <1>1, AppendProperties
<1> QED BY <1>2 DEF IsSeq

LEMMA AppendInj ==
    ASSUME NEW s, NEW t, IsSeq(s), IsSeq(t), NEW e, NEW f, Append(s, e) = Append(t, f)
    PROVE  s = t /\ e = f
<1>1. PICK S : s \in Seq(S) /\ t \in Seq(S) /\ e \in S /\ f \in S
  BY CommonSet
<1> QED BY <1>1, AppendInjective

LEMMA ConcatIsSeq ==
    ASSUME NEW s, NEW t, IsSeq(s), IsSeq(t)
    PROVE  IsSeq(s \o t) /\ Len(s \o t) = Len(s) + Len(t)
<1>1. PICK S : s \in Seq(S) /\ t \in Seq(S)
  <2>1. \E S : s \in Seq(S) /\ t \in Seq(S) /\ 0 \in S /\ 0 \in S
    BY CommonSet
  <2> QED BY <2>1
<1>2. s \o t \in Seq(S) /\ Len(s \o t) = Len(s) + Len(t)
  BY <1>1, ConcatProperties
<1> QED BY <1>2 DEF IsSeq

\* Equal concatenations with equally long ends agree on both parts.
SameConcat(a, b, c, d) ==
    /\ IsSeq(a) /\ IsSeq(b) /\ IsSeq(c) /\ IsSeq(d)
    /\ Len(b) = Len(d) /\ a \o b = c \o d

LEMMA ConcatParts ==
    ASSUME NEW a, NEW b, NEW c, NEW d, SameConcat(a, b, c, d)
    PROVE  a = c /\ b = d
<1>0. IsSeq(a) /\ IsSeq(b) /\ IsSeq(c) /\ IsSeq(d) /\ Len(b) = Len(d) /\ a \o b = c \o d
  BY DEF SameConcat
<1>1. PICK A : a \in Seq(A) /\ c \in Seq(A)
  <2>1. \E S : a \in Seq(S) /\ c \in Seq(S) /\ 0 \in S /\ 0 \in S
    BY <1>0, CommonSet
  <2> QED BY <2>1
<1>2. PICK B : b \in Seq(B) /\ d \in Seq(B)
  <2>1. \E S : b \in Seq(S) /\ d \in Seq(S) /\ 0 \in S /\ 0 \in S
    BY <1>0, CommonSet
  <2> QED BY <2>1
<1> DEFINE S == A \cup B
<1>3. A \subseteq S /\ B \subseteq S
  OBVIOUS
<1> HIDE DEF S
<1>4. a \in Seq(S) /\ b \in Seq(S) /\ c \in Seq(S) /\ d \in Seq(S)
  BY <1>1, <1>2, <1>3, SeqMonotonic
<1>5. /\ Len(a) \in Nat /\ Len(b) \in Nat /\ Len(c) \in Nat /\ Len(d) \in Nat
  BY <1>4, LenProperties
<1>6. /\ Len(a \o b) = Len(a) + Len(b)
      /\ \A i \in 1 .. Len(a) + Len(b) : (a \o b)[i] = IF i <= Len(a) THEN a[i] ELSE b[i - Len(a)]
  BY <1>4, ConcatProperties
<1>7. /\ Len(c \o d) = Len(c) + Len(d)
      /\ \A i \in 1 .. Len(c) + Len(d) : (c \o d)[i] = IF i <= Len(c) THEN c[i] ELSE d[i - Len(c)]
  BY <1>4, ConcatProperties
<1>8. Len(a) = Len(c)
  BY <1>0, <1>5, <1>6, <1>7
<1>9. \A i \in 1 .. Len(a) : a[i] = c[i]
  BY <1>0, <1>5, <1>6, <1>7, <1>8
<1>10. a = c
  BY <1>4, <1>8, <1>9, SeqEqual
<1>11. \A i \in 1 .. Len(b) : b[i] = d[i]
  <2> SUFFICES ASSUME NEW i \in 1 .. Len(b) PROVE b[i] = d[i]
    OBVIOUS
  <2>1. Len(a) + i \in 1 .. Len(a) + Len(b) /\ ~(Len(a) + i <= Len(a)) /\ (Len(a) + i) - Len(a) = i
    BY <1>5
  <2>2. (a \o b)[Len(a) + i] = b[i] /\ (c \o d)[Len(a) + i] = d[i]
    BY <2>1, <1>0, <1>6, <1>7, <1>8
  <2> QED BY <2>2, <1>0
<1> QED BY <1>0, <1>4, <1>10, <1>11, SeqEqual

LEMMA ConcatInj ==
    ASSUME NEW a, NEW b, NEW c, NEW d, IsSeq(a), IsSeq(b), IsSeq(c), IsSeq(d),
           Len(b) = Len(d), a \o b = c \o d
    PROVE  a = c /\ b = d
<1>1. SameConcat(a, b, c, d)
  BY DEF SameConcat
<1> QED BY <1>1, ConcatParts

-----------------------------------------------------------------------------
(* Layouts of the transcripts *)

\* The number of commitments of a proof and of fields before them.
Rows(kind) ==
    CASE kind = "pop" -> 1 [] kind = "dleq" -> 2 [] kind = "apply_pending" -> 4
      [] kind = "commitment_equality" -> 3 [] kind = "equality2" -> 4 [] OTHER -> 6

FieldCount(kind) ==
    CASE kind = "pop" -> 2 [] kind = "dleq" -> 5 [] kind = "apply_pending" -> 6
      [] kind = "commitment_equality" -> 6 [] kind = "equality2" -> 7 [] OTHER -> 10

LEMMA RowsType == \A kind : Rows(kind) \in Nat \ {0} /\ FieldCount(kind) \in Nat
BY DEF Rows, FieldCount

LEMMA StatementKind == \A st \in Statements : st.kind \in Kinds
BY DEF Statements, Kinds

LEMMA EqualityLen ==
    ASSUME NEW st \in Statements, st.kind \in {"equality2", "equality"}
    PROVE  \E k \in {2, 3} :
               /\ k = (IF st.kind = "equality2" THEN 2 ELSE 3)
               /\ st.pks \in [1..k -> AnyPoint] /\ st.cts \in [1..k -> AnyCiphertext]
               /\ Len(st.pks) = k
<1>1. CASE st.kind = "equality2"
  <2>1. st.pks \in [1..2 -> AnyPoint] /\ st.cts \in [1..2 -> AnyCiphertext]
    BY <1>1 DEF Statements
  <2>2. Len(st.pks) = 2
    BY <2>1
  <2> QED BY <1>1, <2>1, <2>2
<1>2. CASE st.kind = "equality"
  <2>1. st.pks \in [1..3 -> AnyPoint] /\ st.cts \in [1..3 -> AnyCiphertext]
    BY <1>2 DEF Statements
  <2>2. Len(st.pks) = 3
    BY <2>1
  <2> QED BY <1>2, <2>1, <2>2
<1> QED BY <1>1, <1>2

LEMMA MatrixRows == \A st \in Statements : DOMAIN Matrix(st) = 1..Rows(st.kind)
<1> SUFFICES ASSUME NEW st \in Statements PROVE DOMAIN Matrix(st) = 1..Rows(st.kind)
  OBVIOUS
<1>1. CASE st.kind = "pop"
  BY <1>1 DEF Matrix, PopMatrix, Rows
<1>2. CASE st.kind = "dleq"
  BY <1>2 DEF Matrix, DLEQMatrix, Rows
<1>3. CASE st.kind = "apply_pending"
  BY <1>3 DEF Matrix, ApplyMatrix, Rows
<1>4. CASE st.kind = "commitment_equality"
  BY <1>4 DEF Matrix, CommitEqMatrix, Rows
<1>5. CASE st.kind \in {"equality2", "equality"}
  <2>1. PICK k \in {2, 3} : k = (IF st.kind = "equality2" THEN 2 ELSE 3) /\ Len(st.pks) = k
    BY <1>5, EqualityLen
  <2>2. Rows(st.kind) = 2 * k
    BY <1>5, <2>1 DEF Rows
  <2>3. Matrix(st) = EqualityMatrix(st)
    BY <1>5 DEF Matrix
  <2> QED BY <2>1, <2>2, <2>3 DEF EqualityMatrix
<1> QED BY <1>1, <1>2, <1>3, <1>4, <1>5, StatementKind DEF Kinds

\* The parts of the fields of an equality statement.
KeyFrames(st, k) == [j \in 1..k |-> << (<<"pk1", "pk2", "pk3">>)[j], st.pks[j] >>]
CipherFrames(st, k) ==
    [row \in 1..(2 * k) |->
        IF row % 2 = 1
        THEN << (<<"ct1_C1", "ct2_C1", "ct3_C1">>)[KeyOf(row)], st.cts[KeyOf(row)].C1 >>
        ELSE << (<<"ct1_C2", "ct2_C2", "ct3_C2">>)[KeyOf(row)], st.cts[KeyOf(row)].C2 >>]
TypeFrame(k) == << <<"proof_type", IF k = 3 THEN "equality" ELSE "equality2">> >>

LEMMA EqualityParts ==
    ASSUME NEW st, NEW k \in {2, 3}, Len(st.pks) = k
    PROVE  /\ EqualityFields(st) = (TypeFrame(k) \o KeyFrames(st, k)) \o CipherFrames(st, k)
           /\ IsSeq(TypeFrame(k)) /\ Len(TypeFrame(k)) = 1
           /\ IsSeq(KeyFrames(st, k)) /\ Len(KeyFrames(st, k)) = k
           /\ IsSeq(CipherFrames(st, k)) /\ Len(CipherFrames(st, k)) = 2 * k
<1>1. EqualityFields(st) = (TypeFrame(k) \o KeyFrames(st, k)) \o CipherFrames(st, k)
  BY DEF EqualityFields, TypeFrame, KeyFrames, CipherFrames
<1>2. IsSeq(TypeFrame(k)) /\ Len(TypeFrame(k)) = 1
  <2> DEFINE x == <<"proof_type", IF k = 3 THEN "equality" ELSE "equality2">>
  <2>1. <<x>> \in Seq({x}) /\ Len(<<x>>) = 1
    OBVIOUS
  <2> QED BY <2>1 DEF TypeFrame, IsSeq
<1>3. IsSeq(KeyFrames(st, k)) /\ Len(KeyFrames(st, k)) = k
  <2>1. DOMAIN KeyFrames(st, k) = 1..k /\ KeyFrames(st, k) = [j \in 1..k |-> KeyFrames(st, k)[j]]
    BY DEF KeyFrames
  <2> QED BY <2>1, FunIsSeq
<1>4. IsSeq(CipherFrames(st, k)) /\ Len(CipherFrames(st, k)) = 2 * k
  <2>1. /\ DOMAIN CipherFrames(st, k) = 1..(2 * k)
        /\ CipherFrames(st, k) = [j \in 1..(2 * k) |-> CipherFrames(st, k)[j]]
    BY DEF CipherFrames
  <2>2. 2 * k \in Nat
    OBVIOUS
  <2> QED BY <2>1, <2>2, FunIsSeq
<1> QED BY <1>1, <1>2, <1>3, <1>4

LEMMA FieldsSeq ==
    \A st \in Statements : IsSeq(Fields(st)) /\ Len(Fields(st)) = FieldCount(st.kind)
<1> SUFFICES ASSUME NEW st \in Statements
             PROVE  IsSeq(Fields(st)) /\ Len(Fields(st)) = FieldCount(st.kind)
  OBVIOUS
<1>1. CASE st.kind = "pop"
  <2>1. /\ DOMAIN Fields(st) = 1..2 /\ Fields(st) = [i \in 1..2 |-> Fields(st)[i]]
    BY <1>1 DEF Fields, PopFields
  <2> QED BY <1>1, <2>1, FunIsSeq DEF FieldCount
<1>2. CASE st.kind = "dleq"
  <2>1. /\ DOMAIN Fields(st) = 1..5 /\ Fields(st) = [i \in 1..5 |-> Fields(st)[i]]
    BY <1>2 DEF Fields, DLEQFields
  <2> QED BY <1>2, <2>1, FunIsSeq DEF FieldCount
<1>3. CASE st.kind = "apply_pending"
  <2>1. /\ DOMAIN Fields(st) = 1..6 /\ Fields(st) = [i \in 1..6 |-> Fields(st)[i]]
    BY <1>3 DEF Fields, ApplyFields
  <2> QED BY <1>3, <2>1, FunIsSeq DEF FieldCount
<1>4. CASE st.kind = "commitment_equality"
  <2>1. /\ DOMAIN Fields(st) = 1..6 /\ Fields(st) = [i \in 1..6 |-> Fields(st)[i]]
    BY <1>4 DEF Fields, CommitEqFields
  <2> QED BY <1>4, <2>1, FunIsSeq DEF FieldCount
<1>5. CASE st.kind \in {"equality2", "equality"}
  <2>1. PICK k \in {2, 3} : k = (IF st.kind = "equality2" THEN 2 ELSE 3) /\ Len(st.pks) = k
    BY <1>5, EqualityLen
  <2>2. Fields(st) = EqualityFields(st)
    BY <1>5 DEF Fields
  <2> DEFINE T == TypeFrame(k)
             K == KeyFrames(st, k)
             C == CipherFrames(st, k)
  <2>3. /\ EqualityFields(st) = (T \o K) \o C
        /\ IsSeq(T) /\ Len(T) = 1 /\ IsSeq(K) /\ Len(K) = k /\ IsSeq(C) /\ Len(C) = 2 * k
    BY <2>1, EqualityParts
  <2> HIDE DEF T, K, C
  <2>5. IsSeq(T \o K) /\ Len(T \o K) = 1 + k
    BY <2>3, ConcatIsSeq
  <2> DEFINE TK == T \o K
  <2>6. IsSeq(TK) /\ Len(TK) = 1 + k /\ EqualityFields(st) = TK \o C
    BY <2>3, <2>5
  <2> HIDE DEF TK
  <2>4. IsSeq(EqualityFields(st)) /\ Len(EqualityFields(st)) = (1 + k) + 2 * k
    BY <2>3, <2>6, ConcatIsSeq
  <2> QED BY <1>5, <2>1, <2>2, <2>4 DEF FieldCount
<1> QED BY <1>1, <1>2, <1>3, <1>4, <1>5, StatementKind DEF Kinds

-----------------------------------------------------------------------------
(* What the proofs prove *)

\* The point that Decrypt with secret key x hands to the solver.
PlainPoint(ct, x) == PSub(ct.C2, ScalarMul(x, ct.C1))

\* Whoever holds the secret key of pk decrypts ct to v*G.
DecryptsTo(pk, ct, v) ==
    \A x \in Scalar : pk = ScalarMul(x, G) => PlainPoint(ct, x) = ScalarMul(v, G)

\* What the doc comments of the six proof types say of a statement, for the
\* secrets w: pop.go knowledge of the key, dleq.go correct decryption to the
\* amount, apply_pending_proof.go two encryptions of one amount under a key that
\* is known, commitment_equality.go a ciphertext and a Pedersen commitment to one
\* value, equality.go encryptions of one amount under any keys.
Means(st, w) ==
    CASE st.kind = "pop"  -> st.pk = ScalarMul(w[1], G)
      [] st.kind = "dleq" -> /\ st.pk = ScalarMul(w[1], G)
                             /\ DecryptsTo(st.pk, st.ct, st.amount)
      [] st.kind = "apply_pending" -> /\ st.pk = ScalarMul(w[2], G)
                                      /\ DecryptsTo(st.pk, st.pending, w[1])
                                      /\ DecryptsTo(st.pk, st.newCt, w[1])
      [] st.kind = "commitment_equality" ->
             /\ DecryptsTo(st.pk, st.ct, w[1])
             /\ st.P = PAdd(ScalarMul(w[1], G), ScalarMul(w[3], st.H))
      [] OTHER -> \A k \in DOMAIN st.pks : DecryptsTo(st.pks[k], st.cts[k], w[1])

\* A public key determines its secret key.
LEMMA KeyOfScalar == \A x \in Scalar : ScalarMul(x, G) = x
<1> SUFFICES ASSUME NEW x \in Scalar PROVE ScalarMul(x, G) = x
  OBVIOUS
<1>1. x * 1 = x
  BY QAssumption DEF Scalar
<1> QED BY <1>1, ModSmall DEF ScalarMul, G, Scalar

\* C2 = v*G + x*C1 is a ciphertext that the secret key x opens to v*G.
LEMMA Opening ==
    ASSUME NEW v \in Int, NEW x \in Scalar, NEW ct, ct.C1 \in Point, ct.C2 \in Point,
           ct.C2 = (v + x * ct.C1) % q
    PROVE  DecryptsTo(x, ct, v)
<1> SUFFICES ASSUME NEW y \in Scalar, x = ScalarMul(y, G)
             PROVE  PlainPoint(ct, y) = ScalarMul(v, G)
  BY DEF DecryptsTo
<1>1. y = x
  BY KeyOfScalar
<1> DEFINE a == x * ct.C1
<1>2. a \in Int /\ v + a \in Int /\ x \in Int
  BY QAssumption DEF Point, Scalar
<1>3. PlainPoint(ct, x) = (ct.C2 - a) % q
  BY <1>2, SubSMul DEF PlainPoint
<1> HIDE DEF a
<1>4. (((v + a) % q) + (-a)) % q = ((v + a) + (-a)) % q
  BY <1>2, ModAdd
<1>5. (ct.C2 - a) % q = v % q
  <2>1. ct.C2 = (v + a) % q
    BY DEF a
  <2>2. ct.C2 \in Int
    BY QAssumption DEF Point
  <2>3. ct.C2 - a = ct.C2 + (-a) /\ (v + a) + (-a) = v
    BY <1>2, <2>2
  <2> QED BY <2>1, <2>3, <1>4
<1>6. ScalarMul(v, G) = v % q
  <2>1. v * 1 = v
    OBVIOUS
  <2> QED BY <2>1 DEF ScalarMul, G
<1> QED BY <1>1, <1>3, <1>5, <1>6

\* The linear combinations that occur, with the columns that are used.
LEMMA CombineOne ==
    ASSUME NEW row, NEW w \in [Columns -> Scalar], NEW c \in Columns,
           row[c] \in Int, \A d \in Columns \ {c} : row[d] = 0
    PROVE  Combine(row, w) = (row[c] * w[c]) % q
<1>1. w[1] \in Int /\ w[2] \in Int /\ w[3] \in Int /\ w[4] \in Int
  BY QAssumption DEF Columns, Scalar
<1>2. row[c] * w[c] \in Int
  BY <1>1 DEF Columns
<1>3. Dot(row, w) = row[c] * w[c]
  BY <1>1, <1>2 DEF Dot, Columns
<1> QED BY <1>3, CombineDot

LEMMA CombineTwo ==
    ASSUME NEW row, NEW w \in [Columns -> Scalar], NEW c \in Columns, NEW d \in Columns, c # d,
           row[c] \in Int, row[d] \in Int, \A b \in Columns \ {c, d} : row[b] = 0
    PROVE  Combine(row, w) = (row[c] * w[c] + row[d] * w[d]) % q
<1>1. w[1] \in Int /\ w[2] \in Int /\ w[3] \in Int /\ w[4] \in Int
  BY QAssumption DEF Columns, Scalar
<1>2. row[c] * w[c] \in Int /\ row[d] * w[d] \in Int
  BY <1>1 DEF Columns
<1>3. Dot(row, w) = row[c] * w[c] + row[d] * w[d]
  BY <1>1, <1>2 DEF Dot, Columns
<1> QED BY <1>3, CombineDot

\* An encryption of v under pk with randomness r, as the rows of the systems
\* write it, decrypts to v.
LEMMA EncryptionOpens ==
    ASSUME NEW v \in Scalar, NEW r \in Scalar, NEW pk \in Point, NEW ct,
           ct.C1 \in Point, ct.C2 \in Point,
           ct.C1 = (G * r) % q, ct.C2 = (G * v + pk * r) % q
    PROVE  DecryptsTo(pk, ct, v)
<1>1. v \in Int /\ r \in Int /\ pk \in Int /\ pk \in Scalar
  BY QAssumption DEF Scalar, Point
<1>2. G * r = r /\ G * v = v /\ pk * r \in Int
  BY <1>1 DEF G
<1>3. ct.C1 = r
  BY <1>2, ModSmall DEF Scalar
<1>4. ct.C2 = (v + pk * ct.C1) % q
  BY <1>2, <1>3
<1> QED BY <1>1, <1>4, Opening

\* After the early returns of Verify* every point of the equations is on the
\* curve.
Typed(st) ==
    \A row \in DOMAIN Matrix(st) :
        Matrix(st)[row] \in [Columns -> Point] /\ Image(st)[row] \in Point

LEMMA UnitPoints == G \in Point /\ Identity \in Point
BY QAssumption DEF G, Identity, Point

LEMMA RowType ==
    ASSUME NEW a \in Point, NEW b \in Point, NEW c \in Point, NEW d \in Point
    PROVE  <<a, b, c, d>> \in [Columns -> Point]
BY DEF Columns

LEMMA EqualityTyped ==
    ASSUME NEW st \in Statements, NEW R, VerifierChecks(st, R),
           st.kind \in {"equality2", "equality"}
    PROVE  Typed(st)
<1>1. PICK n \in {2, 3} : /\ st.pks \in [1..n -> AnyPoint] /\ st.cts \in [1..n -> AnyCiphertext]
                          /\ Len(st.pks) = n
  BY EqualityLen
<1>2. \A k \in 1..n : st.pks[k] \in Point /\ st.cts[k].C1 \in Point /\ st.cts[k].C2 \in Point
  <2>1. EqualityVerifierChecks(st)
    BY DEF VerifierChecks
  <2> QED BY <1>1, <2>1 DEF EqualityVerifierChecks, ValidatePublicKey, Validate, IsOnCurve
<1>3. Matrix(st) = EqualityMatrix(st) /\ Image(st) = EqualityImage(st)
  BY DEF Matrix, Image
<1> SUFFICES ASSUME NEW row \in 1..(2 * n)
             PROVE  Matrix(st)[row] \in [Columns -> Point] /\ Image(st)[row] \in Point
  BY <1>1, <1>3 DEF Typed, EqualityMatrix
<1>4. KeyOf(row) \in 1..n
  BY <1>1 DEF KeyOf
<1>5. EqualityRow(st, row) \in [Columns -> Point]
  BY <1>2, <1>4, UnitPoints DEF EqualityRow
<1>6. Image(st)[row] \in Point
  BY <1>1, <1>2, <1>3, <1>4 DEF EqualityImage
<1> QED BY <1>1, <1>3, <1>5, <1>6 DEF EqualityMatrix

LEMMA CheckedTyped ==
    ASSUME NEW st \in Statements, NEW R, VerifierChecks(st, R)
    PROVE  Typed(st)
<1>1. CASE st.kind = "pop"
  <2>1. st.pk \in Point
    BY <1>1 DEF VerifierChecks, PopVerifierChecks, ValidatePublicKey, IsOnCurve
  <2>2. Matrix(st) = << <<G, Identity, Identity, Identity>> >> /\ Image(st) = <<st.pk>>
    BY <1>1 DEF Matrix, PopMatrix, Image, PopImage
  <2> QED BY <2>1, <2>2, UnitPoints, RowType DEF Typed
<1>2. CASE st.kind = "dleq"
  <2>1. st.pk \in Point /\ st.ct.C1 \in Point /\ st.ct.C2 \in Point
    BY <1>2 DEF VerifierChecks, DLEQVerifierChecks, ValidatePublicKey, Validate, IsOnCurve
  <2>2. st.amount \in Int
    BY <1>2, QAssumption DEF Statements, Scalar
  <2> DEFINE D == PSub(st.ct.C2, ScalarMul(st.amount, G))
  <2>3. D \in Point
    BY <2>1, <2>2, UnitPoints, SubClosed, SMulClosed
  <2>4. /\ Matrix(st) = << <<G, Identity, Identity, Identity>>,
                           <<st.ct.C1, Identity, Identity, Identity>> >>
        /\ Image(st) = <<st.pk, D>>
    BY <1>2 DEF Matrix, DLEQMatrix, Image, DLEQImage
  <2> HIDE DEF D
  <2>5. Matrix(st)[1] \in [Columns -> Point] /\ Matrix(st)[2] \in [Columns -> Point]
    BY <2>1, <2>4, UnitPoints, RowType
  <2>6. Image(st)[1] \in Point /\ Image(st)[2] \in Point
    BY <2>1, <2>3, <2>4
  <2>7. DOMAIN Matrix(st) = 1..2
    BY <1>2, MatrixRows DEF Rows
  <2> QED BY <2>5, <2>6, <2>7 DEF Typed
<1>3. CASE st.kind = "apply_pending"
  <2>1. /\ st.pk \in Point /\ st.pending.C1 \in Point /\ st.pending.C2 \in Point
        /\ st.newCt.C1 \in Point /\ st.newCt.C2 \in Point
    BY <1>3 DEF VerifierChecks, ApplyVerifierChecks, ValidatePublicKey, Validate, IsOnCurve
  <2>2. Matrix(st) = ApplyMatrix(st) /\ Image(st) = ApplyImage(st)
    BY <1>3 DEF Matrix, Image
  <2>3. /\ Matrix(st)[1] \in [Columns -> Point] /\ Matrix(st)[2] \in [Columns -> Point]
        /\ Matrix(st)[3] \in [Columns -> Point] /\ Matrix(st)[4] \in [Columns -> Point]
    BY <2>1, <2>2, UnitPoints, RowType DEF ApplyMatrix
  <2>4. /\ Image(st)[1] \in Point /\ Image(st)[2] \in Point
        /\ Image(st)[3] \in Point /\ Image(st)[4] \in Point
    BY <2>1, <2>2 DEF ApplyImage
  <2>5. DOMAIN Matrix(st) = 1..4
    BY <1>3, MatrixRows DEF Rows
  <2> QED BY <2>3, <2>4, <2>5 DEF Typed
<1>4. CASE st.kind = "commitment_equality"
  <2>1. /\ st.pk \in Point /\ st.H \in Point /\ st.P \in Point
        /\ st.ct.C1 \in Point /\ st.ct.C2 \in Point
    BY <1>4 DEF VerifierChecks, CommitEqVerifierChecks, ValidatePublicKey, Validate, IsOnCurve
  <2>2. Matrix(st) = CommitEqMatrix(st) /\ Image(st) = CommitEqImage(st)
    BY <1>4 DEF Matrix, Image
  <2>3. /\ Matrix(st)[1] \in [Columns -> Point] /\ Matrix(st)[2] \in [Columns -> Point]
        /\ Matrix(st)[3] \in [Columns -> Point]
    BY <2>1, <2>2, UnitPoints, RowType DEF CommitEqMatrix
  <2>4. Image(st)[1] \in Point /\ Image(st)[2] \in Point /\ Image(st)[3] \in Point
    BY <2>1, <2>2 DEF CommitEqImage
  <2>5. DOMAIN Matrix(st) = 1..3
    BY <1>4, MatrixRows DEF Rows
  <2> QED BY <2>3, <2>4, <2>5 DEF Typed
<1>5. CASE st.kind \in {"equality2", "equality"}
  BY <1>5, EqualityTyped
<1> QED BY <1>1, <1>2, <1>3, <1>4, <1>5, StatementKind DEF Kinds


\* What a solution of each proof's system says, kind by kind.
LEMMA PopMeans ==
    ASSUME NEW st \in Statements, NEW R, VerifierChecks(st, R), st.kind = "pop",
           NEW w \in [Columns -> Scalar], InRelation(Matrix(st), Image(st), w)
    PROVE  Means(st, w)
<1> DEFINE row == <<G, Identity, Identity, Identity>>
<1>1. Matrix(st) = <<row>> /\ Image(st) = <<st.pk>>
  BY DEF Matrix, PopMatrix, Image, PopImage
<1>2. st.pk = Combine(row, w)
  BY <1>1 DEF InRelation
<1>3. Combine(row, w) = (G * w[1]) % q
  <2>1. row[1] = G /\ row[1] \in Int /\ \A d \in Columns \ {1} : row[d] = 0
    BY DEF Columns, G, Identity
  <2>2. 1 \in Columns
    BY DEF Columns
  <2> HIDE DEF row
  <2> QED BY <2>1, <2>2, CombineOne
<1>4. G * w[1] = w[1] * G
  BY QAssumption DEF Columns, Scalar, G
<1> QED BY <1>2, <1>3, <1>4 DEF Means, ScalarMul

LEMMA DLEQMeans ==
    ASSUME NEW st \in Statements, NEW R, VerifierChecks(st, R), st.kind = "dleq",
           NEW w \in [Columns -> Scalar], InRelation(Matrix(st), Image(st), w)
    PROVE  Means(st, w)
<1> DEFINE row1 == <<G, Identity, Identity, Identity>>
           row2 == <<st.ct.C1, Identity, Identity, Identity>>
           C1 == st.ct.C1
           C2 == st.ct.C2
           a == st.amount
           x == w[1]
<1>0. C1 \in Point /\ C2 \in Point
  BY DEF VerifierChecks, DLEQVerifierChecks, Validate, IsOnCurve
<1>1. /\ Matrix(st) = <<row1, row2>>
      /\ Image(st) = <<st.pk, PSub(C2, ScalarMul(a, G))>>
  BY DEF Matrix, DLEQMatrix, Image, DLEQImage
<1>2. st.pk = Combine(row1, w) /\ PSub(C2, ScalarMul(a, G)) = Combine(row2, w)
  BY <1>1 DEF InRelation
<1>3. a \in Int /\ x \in Int /\ x \in Scalar /\ C1 \in Int /\ C2 \in Int
  <2>1. a \in Scalar
    BY DEF Statements
  <2> QED BY <2>1, <1>0, QAssumption DEF Scalar, Columns, Point
<1>4. Combine(row1, w) = (G * x) % q
  <2>1. row1[1] = G /\ row1[1] \in Int /\ 1 \in Columns /\ \A d \in Columns \ {1} : row1[d] = 0
    BY DEF Columns, G, Identity
  <2> HIDE DEF row1
  <2> QED BY <2>1, CombineOne
<1>5. Combine(row2, w) = (C1 * x) % q
  <2>1. row2[1] = C1 /\ row2[1] \in Int /\ 1 \in Columns /\ \A d \in Columns \ {1} : row2[d] = 0
    BY <1>3 DEF Columns, Identity
  <2> HIDE DEF row2, C1
  <2> QED BY <2>1, CombineOne
<1>6. st.pk = ScalarMul(x, G) /\ st.pk = x
  <2>1. G * x = x * G
    BY <1>3 DEF G
  <2> QED BY <1>2, <1>3, <1>4, <2>1, KeyOfScalar DEF ScalarMul
<1>7. C2 = (a + x * C1) % q
  <2>1. PSub(C2, ScalarMul(a, G)) = (C2 - a * G) % q
    BY <1>0, <1>3, UnitPoints, SubSMul
  <2>2. a * G = a /\ C1 * x = x * C1 /\ x * C1 \in Int /\ C2 - a \in Int /\ a + x * C1 \in Int
    BY <1>3 DEF G
  <2>3. (C2 - a) % q = (x * C1) % q
    BY <1>2, <1>5, <2>1, <2>2
  <2> DEFINE p == x * C1
  <2>4. p \in Int
    BY <2>2
  <2>5. (C2 - a) % q = p % q
    BY <2>3
  <2> HIDE DEF p
  <2>6. ((C2 - a) - p) % q = 0
    BY <2>2, <2>4, <2>5, ModDiff
  <2>7. (C2 - a) - p = C2 - (a + p) /\ a + p \in Int
    BY <1>3, <2>4
  <2>8. C2 % q = (a + p) % q
    BY <1>3, <2>6, <2>7, ModDiff
  <2>9. C2 % q = C2
    BY <1>0, ModSmall DEF Point
  <2> QED BY <2>8, <2>9 DEF p
<1>8. DecryptsTo(x, st.ct, a)
  BY <1>0, <1>3, <1>7, Opening
<1> QED BY <1>6, <1>8 DEF Means

LEMMA ApplyMeans ==
    ASSUME NEW st \in Statements, NEW R, VerifierChecks(st, R), st.kind = "apply_pending",
           NEW w \in [Columns -> Scalar], InRelation(Matrix(st), Image(st), w)
    PROVE  Means(st, w)
<1> DEFINE row1 == <<G, st.pending.C1, Identity, Identity>>
           row2 == <<Identity, G, Identity, Identity>>
           row3 == <<Identity, Identity, G, Identity>>
           row4 == <<G, Identity, st.pk, Identity>>
<1>0. /\ st.pk \in Point /\ st.pending.C1 \in Point /\ st.pending.C2 \in Point
      /\ st.newCt.C1 \in Point /\ st.newCt.C2 \in Point
  BY DEF VerifierChecks, ApplyVerifierChecks, ValidatePublicKey, Validate, IsOnCurve
<1>1. /\ Matrix(st) = <<row1, row2, row3, row4>>
      /\ Image(st) = <<st.pending.C2, st.pk, st.newCt.C1, st.newCt.C2>>
  BY DEF Matrix, ApplyMatrix, Image, ApplyImage
<1>2. /\ st.pending.C2 = Combine(row1, w) /\ st.pk = Combine(row2, w)
      /\ st.newCt.C1 = Combine(row3, w) /\ st.newCt.C2 = Combine(row4, w)
  BY <1>1 DEF InRelation
<1>3. /\ w[1] \in Int /\ w[2] \in Int /\ w[1] \in Scalar /\ w[2] \in Scalar /\ w[3] \in Scalar
      /\ st.pending.C1 \in Int /\ st.pk \in Int
  BY <1>0, QAssumption DEF Columns, Scalar, Point
<1>c. 1 \in Columns /\ 2 \in Columns /\ 3 \in Columns
  BY DEF Columns
<1>4. Combine(row1, w) = (G * w[1] + st.pending.C1 * w[2]) % q
  <2>1. /\ row1[1] = G /\ row1[1] \in Int /\ row1[2] = st.pending.C1 /\ row1[2] \in Int
        /\ \A d \in Columns \ {1, 2} : row1[d] = 0
    BY <1>3 DEF Columns, G, Identity
  <2> HIDE DEF row1
  <2> QED BY <2>1, <1>c, CombineTwo
<1>5. Combine(row2, w) = (G * w[2]) % q
  <2>1. row2[2] = G /\ row2[2] \in Int /\ \A d \in Columns \ {2} : row2[d] = 0
    BY DEF Columns, G, Identity
  <2> HIDE DEF row2
  <2> QED BY <2>1, <1>c, CombineOne
<1>6. Combine(row3, w) = (G * w[3]) % q
  <2>1. row3[3] = G /\ row3[3] \in Int /\ \A d \in Columns \ {3} : row3[d] = 0
    BY DEF Columns, G, Identity
  <2> HIDE DEF row3
  <2> QED BY <2>1, <1>c, CombineOne
<1>7. Combine(row4, w) = (G * w[1] + st.pk * w[3]) % q
  <2>1. /\ row4[1] = G /\ row4[1] \in Int /\ row4[3] = st.pk /\ row4[3] \in Int
        /\ \A d \in Columns \ {1, 3} : row4[d] = 0
    BY <1>3 DEF Columns, G, Identity
  <2> HIDE DEF row4
  <2> QED BY <2>1, <1>c, CombineTwo
<1>8. st.pk = ScalarMul(w[2], G) /\ st.pk = w[2]
  <2>1. G * w[2] = w[2] * G
    BY <1>3 DEF G
  <2> QED BY <1>2, <1>3, <1>5, <2>1, KeyOfScalar DEF ScalarMul
<1>9. DecryptsTo(st.pk, st.pending, w[1])
  <2>1. G * w[1] = w[1] /\ st.pending.C1 * w[2] = w[2] * st.pending.C1
    BY <1>3 DEF G
  <2>2. st.pending.C2 = (w[1] + w[2] * st.pending.C1) % q
    BY <1>2, <1>4, <2>1
  <2> QED BY <1>0, <1>3, <1>8, <2>2, Opening
<1>10. DecryptsTo(st.pk, st.newCt, w[1])
  BY <1>0, <1>2, <1>3, <1>6, <1>7, EncryptionOpens
<1> QED BY <1>8, <1>9, <1>10 DEF Means

LEMMA CommitEqMeans ==
    ASSUME NEW st \in Statements, NEW R, VerifierChecks(st, R),
           st.kind = "commitment_equality",
           NEW w \in [Columns -> Scalar], InRelation(Matrix(st), Image(st), w)
    PROVE  Means(st, w)
<1> DEFINE row1 == <<Identity, G, Identity, Identity>>
           row2 == <<G, st.pk, Identity, Identity>>
           row3 == <<G, Identity, st.H, Identity>>
<1>0. /\ st.pk \in Point /\ st.H \in Point /\ st.ct.C1 \in Point /\ st.ct.C2 \in Point
  BY DEF VerifierChecks, CommitEqVerifierChecks, ValidatePublicKey, Validate, IsOnCurve
<1>1. Matrix(st) = <<row1, row2, row3>> /\ Image(st) = <<st.ct.C1, st.ct.C2, st.P>>
  BY DEF Matrix, CommitEqMatrix, Image, CommitEqImage
<1>2. st.ct.C1 = Combine(row1, w) /\ st.ct.C2 = Combine(row2, w) /\ st.P = Combine(row3, w)
  BY <1>1 DEF InRelation
<1>3. /\ w[1] \in Int /\ w[3] \in Int /\ w[1] \in Scalar /\ w[2] \in Scalar
      /\ st.pk \in Int /\ st.H \in Int
  BY <1>0, QAssumption DEF Columns, Scalar, Point
<1>c. 1 \in Columns /\ 2 \in Columns /\ 3 \in Columns
  BY DEF Columns
<1>4. Combine(row1, w) = (G * w[2]) % q
  <2>1. row1[2] = G /\ row1[2] \in Int /\ \A d \in Columns \ {2} : row1[d] = 0
    BY DEF Columns, G, Identity
  <2> HIDE DEF row1
  <2> QED BY <2>1, <1>c, CombineOne
<1>5. Combine(row2, w) = (G * w[1] + st.pk * w[2]) % q
  <2>1. /\ row2[1] = G /\ row2[1] \in Int /\ row2[2] = st.pk /\ row2[2] \in Int
        /\ \A d \in Columns \ {1, 2} : row2[d] = 0
    BY <1>3 DEF Columns, G, Identity
  <2> HIDE DEF row2
  <2> QED BY <2>1, <1>c, CombineTwo
<1>6. Combine(row3, w) = (G * w[1] + st.H * w[3]) % q
  <2>1. /\ row3[1] = G /\ row3[1] \in Int /\ row3[3] = st.H /\ row3[3] \in Int
        /\ \A d \in Columns \ {1, 3} : row3[d] = 0
    BY <1>3 DEF Columns, G, Identity
  <2> HIDE DEF row3
  <2> QED BY <2>1, <1>c, CombineTwo
<1>7. DecryptsTo(st.pk, st.ct, w[1])
  BY <1>0, <1>2, <1>3, <1>4, <1>5, EncryptionOpens
<1>8. st.P = PAdd(ScalarMul(w[1], G), ScalarMul(w[3], st.H))
  <2>1. w[1] * G = G * w[1] /\ w[3] * st.H = st.H * w[3]
    BY <1>3 DEF G
  <2>2. G * w[1] \in Int /\ st.H * w[3] \in Int
    BY <1>3 DEF G
  <2>3. (((G * w[1]) % q) + ((st.H * w[3]) % q)) % q = (G * w[1] + st.H * w[3]) % q
    BY <2>2, ModAdd2
  <2>4. /\ ScalarMul(w[1], G) = (G * w[1]) % q
        /\ ScalarMul(w[3], st.H) = (st.H * w[3]) % q
    BY <2>1 DEF ScalarMul
  <2>5. PAdd((G * w[1]) % q, (st.H * w[3]) % q)
            = (((G * w[1]) % q) + ((st.H * w[3]) % q)) % q
    BY DEF PAdd
  <2> QED BY <1>2, <1>6, <2>3, <2>4, <2>5
<1> QED BY <1>7, <1>8 DEF Means

LEMMA EqualityMeans ==
    ASSUME NEW st \in Statements, NEW R, VerifierChecks(st, R),
           st.kind \in {"equality2", "equality"},
           NEW w \in [Columns -> Scalar], InRelation(Matrix(st), Image(st), w)
    PROVE  Means(st, w)
<1>1. PICK n \in {2, 3} : /\ st.pks \in [1..n -> AnyPoint] /\ st.cts \in [1..n -> AnyCiphertext]
                          /\ Len(st.pks) = n
  BY EqualityLen
<1>2. \A k \in 1..n : st.pks[k] \in Point /\ st.cts[k].C1 \in Point /\ st.cts[k].C2 \in Point
  <2>1. EqualityVerifierChecks(st)
    BY DEF VerifierChecks
  <2> QED BY <1>1, <2>1 DEF EqualityVerifierChecks, ValidatePublicKey, Validate, IsOnCurve
<1>3. Matrix(st) = EqualityMatrix(st) /\ Image(st) = EqualityImage(st)
  BY DEF Matrix, Image
<1> SUFFICES ASSUME NEW k \in 1..n PROVE DecryptsTo(st.pks[k], st.cts[k], w[1])
  BY <1>1 DEF Means
<1>4. /\ k \in Int /\ k + 1 \in Columns /\ 1 \in Columns /\ k + 1 # 1
      /\ 2 * k - 1 \in 1..(2 * n) /\ 2 * k \in 1..(2 * n)
      /\ (2 * k - 1) % 2 = 1 /\ (2 * k) % 2 = 0
      /\ KeyOf(2 * k - 1) = k /\ KeyOf(2 * k) = k
  BY DEF Columns, KeyOf
<1> DEFINE odd == EqualityRow(st, 2 * k - 1)
           even == EqualityRow(st, 2 * k)
<1>5. /\ st.cts[k].C1 = Combine(odd, w)
      /\ st.cts[k].C2 = Combine(even, w)
  <2>1. /\ Matrix(st)[2 * k - 1] = odd /\ Matrix(st)[2 * k] = even
        /\ 2 * k - 1 \in DOMAIN Matrix(st) /\ 2 * k \in DOMAIN Matrix(st)
    BY <1>1, <1>3, <1>4 DEF EqualityMatrix
  <2>2. Image(st)[2 * k - 1] = st.cts[k].C1 /\ Image(st)[2 * k] = st.cts[k].C2
    BY <1>1, <1>3, <1>4 DEF EqualityImage
  <2> QED BY <2>1, <2>2 DEF InRelation
<1>6. /\ w[1] \in Scalar /\ w[k + 1] \in Scalar /\ st.pks[k] \in Int
  BY <1>2, <1>4, QAssumption DEF Point
<1>7. Combine(odd, w) = (G * w[k + 1]) % q
  <2>1. odd[k + 1] = G /\ odd[k + 1] \in Int /\ \A d \in Columns \ {k + 1} : odd[d] = 0
    BY <1>4 DEF EqualityRow, G, Identity
  <2> HIDE DEF odd
  <2> QED BY <1>4, <2>1, CombineOne
<1>8. Combine(even, w) = (G * w[1] + st.pks[k] * w[k + 1]) % q
  <2>1. /\ even[1] = G /\ even[1] \in Int /\ even[k + 1] = st.pks[k] /\ even[k + 1] \in Int
        /\ \A d \in Columns \ {1, k + 1} : even[d] = 0
    BY <1>4, <1>6 DEF EqualityRow, G, Identity
  <2> HIDE DEF even
  <2> QED BY <1>4, <2>1, CombineTwo
<1> QED BY <1>2, <1>5, <1>6, <1>7, <1>8, EncryptionOpens

\* Once the verifier's early returns are passed, secrets that solve the equations
\* which pop.go, dleq.go, apply_pending_proof.go, commitment_equality.go and
\* equality.go check make the statement mean what its doc comment says.
THEOREM SolutionsMeanStatements ==
    ASSUME NEW st \in Statements, NEW R, VerifierChecks(st, R),
           NEW w \in [Columns -> Scalar], InRelation(Matrix(st), Image(st), w)
    PROVE  Means(st, w)
BY StatementKind, PopMeans, DLEQMeans, ApplyMeans, CommitEqMeans, EqualityMeans DEF Kinds

\* Soundness of the six Verify functions: from two accepted answers to different
\* challenges for one commitment one computes secrets with which the statement
\* means what its doc comment says (pop.go, "knowledge of the secret key"; dleq.go,
\* "correct decryption"; equality.go, ciphertexts that "encrypt the same amount").
THEOREM TwoAnswersProveStatement ==
    ASSUME NEW st \in Statements, NEW R, VerifierChecks(st, R),
           \A row \in DOMAIN Matrix(st) : R[row] \in Point,
           NEW s1 \in [Columns -> Scalar], NEW s2 \in [Columns -> Scalar],
           NEW e1 \in Scalar, NEW e2 \in Scalar, e1 # e2,
           Accepts(Matrix(st), Image(st), R, s1, e1),
           Accepts(Matrix(st), Image(st), R, s2, e2)
    PROVE  \E w \in [Columns -> Scalar] :
               Extracted(w, s1, e1, s2, e2) /\ Means(st, w)
<1>1. Typed(st)
  BY CheckedTyped
<1>2. s1 \in Vector /\ s2 \in Vector
  BY QAssumption DEF Vector, Scalar
<1>3. \A row \in DOMAIN Matrix(st) :
          Matrix(st)[row] \in Vector /\ R[row] \in Int /\ Image(st)[row] \in Point
  BY <1>1, QAssumption DEF Typed, Vector, Point
<1>4. \E w \in [Columns -> Scalar] :
          Extracted(w, s1, e1, s2, e2) /\ InRelation(Matrix(st), Image(st), w)
  <2> DEFINE M == Matrix(st)
             Y == Image(st)
  <2>1. /\ \A row \in DOMAIN M : M[row] \in Vector /\ R[row] \in Int /\ Y[row] \in Point
        /\ Accepts(M, Y, R, s1, e1) /\ Accepts(M, Y, R, s2, e2)
    BY <1>3
  <2> HIDE DEF M, Y
  <2>2. \E w \in [Columns -> Scalar] :
            Extracted(w, s1, e1, s2, e2) /\ InRelation(M, Y, w)
    BY <1>2, <2>1, SigmaSpecialSoundness
  <2> QED BY <2>2 DEF M, Y
<1> QED BY <1>4, SolutionsMeanStatements

\* A false statement (a wrong decryption, encryptions of different amounts) can be
\* answered for at most one challenge per commitment: Verify accepts it only if
\* ChallengeScalar happens to return that one.
THEOREM FalseStatementNeedsOneChallenge ==
    ASSUME NEW st \in Statements, NEW R, VerifierChecks(st, R),
           \A row \in DOMAIN Matrix(st) : R[row] \in Point,
           \A w \in [Columns -> Scalar] : ~Means(st, w)
    PROVE  \E c \in Scalar : \A e \in Scalar, s \in [Columns -> Scalar] :
               Accepts(Matrix(st), Image(st), R, s, e) => e = c
<1>1. ASSUME NEW e1 \in Scalar, NEW e2 \in Scalar,
             NEW s1 \in [Columns -> Scalar], NEW s2 \in [Columns -> Scalar],
             Accepts(Matrix(st), Image(st), R, s1, e1),
             Accepts(Matrix(st), Image(st), R, s2, e2)
      PROVE  e1 = e2
  BY <1>1, TwoAnswersProveStatement
<1>2. CASE \E e \in Scalar, s \in [Columns -> Scalar] : Accepts(Matrix(st), Image(st), R, s, e)
  BY <1>1, <1>2
<1>3. CASE ~ \E e \in Scalar, s \in [Columns -> Scalar] : Accepts(Matrix(st), Image(st), R, s, e)
  <2>1. 0 \in Scalar
    BY QAssumption DEF Scalar
  <2> QED BY <1>3, <2>1
<1> QED BY <1>2, <1>3

-----------------------------------------------------------------------------
(* The invariant *)

Input(t, st, R) == HashInput(Absorb(t, st, R), ChallengeLabel(st))

\* With the oracle's answers o, absorbing (st, R) takes transcript t to u.
Step(o, t, st, R, u) ==
    /\ Input(t, st, R) \in DOMAIN o
    /\ u = Folded(Absorb(t, st, R), ChallengeLabel(st), o[Input(t, st, R)])

\* The proof m as a verifier records it that checked it against st.
With(m, st) == [m EXCEPT !.st = st]

Shaped(m) ==
    m = [st |-> m.st, R |-> m.R, s |-> m.s, ctx |-> m.ctx, pre |-> m.pre, prev |-> m.prev]

\* The history h of context c leads to the transcript t: through its last
\* proof, which is one of N and remembers where it was made.
Chain(o, N, c, h, t) ==
    \/ h = <<>> /\ t = NewTranscript(c)
    \/ \E m \in N : m.ctx = c /\ h = Append(m.prev, m) /\ Step(o, m.pre, m.st, m.R, t)

\* m is what a prover computed for the challenge of its own transcript.
Honest(o, m) ==
    \E x \in Instances : \E k \in NonceVectors(x.st) :
        /\ ProverChecks(x.st) /\ m.st = x.st /\ m.R = Commit(Matrix(x.st), k)
        /\ Input(m.pre, m.st, m.R) \in DOMAIN o
        /\ m.s = Respond(k, o[Input(m.pre, m.st, m.R)], x.w)

Proof(o, N, m) ==
    /\ Shaped(m) /\ m.ctx \in Contexts /\ m.st \in Statements
    /\ DOMAIN m.R = 1..Rows(m.st.kind)
    /\ IsSeq(m.prev) /\ IsSeq(m.pre)
    /\ Honest(o, m)
    /\ Chain(o, N, m.ctx, m.prev, m.pre)

\* The oracle answers with challenges and never twice with the same one.
OracleOK(o) ==
    /\ \A x \in DOMAIN o : o[x] \in Challenges
    /\ \A x, y \in DOMAIN o : o[x] = o[y] => x = y

ProverOK(o, N, c, h, t) == IsSeq(h) /\ IsSeq(t) /\ Chain(o, N, c, h, t)

\* What a verifier of context v absorbed last is some proof of N, read as a
\* proof of some statement; if it was made on the proofs absorbed before,
\* the verifier's transcript is the one that follows.
VerifierOK(o, N, v, h, t) ==
    /\ IsSeq(h) /\ IsSeq(t)
    /\ h = <<>> => t = NewTranscript(v)
    /\ h # <<>> => \E g, st : \E m \in N : IsSeq(g) /\ h = Append(g, With(m, st))
    /\ \A m \in N : \A st :
          m.ctx = v /\ h = Append(m.prev, With(m, st)) => Step(o, m.pre, st, m.R, t)

SessInv ==
    /\ OracleOK(oracle)
    /\ \A m \in net : Proof(oracle, net, m)
    /\ DOMAIN ptr = Contexts /\ DOMAIN vtr = Contexts
    /\ DOMAIN sent = Contexts /\ DOMAIN seen = Contexts
    /\ \A c \in Contexts : ProverOK(oracle, net, c, sent[c], ptr[c])
    /\ \A v \in Contexts : VerifierOK(oracle, net, v, seen[v], vtr[v])

\* The central fact: a verifier that has absorbed a history has the
\* transcript to which the history leads.
LEMMA HistoryDetermines ==
    ASSUME NEW o, NEW N, NEW v, NEW h, NEW t, NEW u,
           \A m \in N : Proof(o, N, m),
           VerifierOK(o, N, v, h, t), Chain(o, N, v, h, u)
    PROVE  t = u
<1>1. CASE h = <<>> /\ u = NewTranscript(v)
  BY <1>1 DEF VerifierOK
<1>2. CASE \E m \in N : m.ctx = v /\ h = Append(m.prev, m) /\ Step(o, m.pre, m.st, m.R, u)
  <2>1. PICK m \in N : m.ctx = v /\ h = Append(m.prev, m) /\ Step(o, m.pre, m.st, m.R, u)
    BY <1>2
  <2>2. With(m, m.st) = m
    <3>1. Shaped(m)
      BY <2>1 DEF Proof
    <3> QED BY <3>1 DEF Shaped, With
  <2>3. h = Append(m.prev, With(m, m.st))
    BY <2>1, <2>2
  <2>4. Step(o, m.pre, m.st, m.R, t)
    BY <2>1, <2>3 DEF VerifierOK
  <2> QED BY <2>1, <2>4 DEF Step
<1> QED BY <1>1, <1>2 DEF Chain

\* A recorded proof determines the proof but for its statement.
LEMMA WithInj ==
    ASSUME NEW m1, NEW m2, NEW st1, NEW st2, Shaped(m1), Shaped(m2),
           With(m1, st1) = With(m2, st2)
    PROVE  /\ st1 = st2 /\ m1.R = m2.R /\ m1.s = m2.s /\ m1.ctx = m2.ctx
           /\ m1.pre = m2.pre /\ m1.prev = m2.prev
<1>1. /\ With(m1, st1).st = st1 /\ With(m1, st1).R = m1.R /\ With(m1, st1).s = m1.s
      /\ With(m1, st1).ctx = m1.ctx /\ With(m1, st1).pre = m1.pre
      /\ With(m1, st1).prev = m1.prev
  BY DEF With, Shaped
<1>2. /\ With(m2, st2).st = st2 /\ With(m2, st2).R = m2.R /\ With(m2, st2).s = m2.s
      /\ With(m2, st2).ctx = m2.ctx /\ With(m2, st2).pre = m2.pre
      /\ With(m2, st2).prev = m2.prev
  BY DEF With, Shaped
<1> QED BY <1>1, <1>2

-----------------------------------------------------------------------------
(* Growing the oracle and the network *)

Extends(o, o2) == DOMAIN o \subseteq DOMAIN o2 /\ \A x \in DOMAIN o : o2[x] = o[x]

LEMMA HashedExtends ==
    ASSUME NEW o, NEW o2, NEW in, NEW e \in Challenges, OracleOK(o), Hashed(o, in, e, o2)
    PROVE  OracleOK(o2) /\ Extends(o, o2) /\ in \in DOMAIN o2 /\ o2[in] = e
<1>1. CASE in \in DOMAIN o
  BY <1>1 DEF Hashed, Extends
<1>2. CASE in \notin DOMAIN o
  <2>1. /\ \A x \in DOMAIN o : o[x] # e
        /\ o2 = [x \in DOMAIN o \cup {in} |-> IF x = in THEN e ELSE o[x]]
    BY <1>2 DEF Hashed
  <2>2. DOMAIN o2 = DOMAIN o \cup {in} /\ o2[in] = e /\ \A x \in DOMAIN o : o2[x] = o[x]
    BY <1>2, <2>1
  <2>3. OracleOK(o2)
    BY <2>1, <2>2 DEF OracleOK
  <2> QED BY <2>2, <2>3 DEF Extends
<1> QED BY <1>1, <1>2

LEMMA StepGrows ==
    ASSUME NEW o, NEW o2, Extends(o, o2), NEW t, NEW st, NEW R, NEW u, Step(o, t, st, R, u)
    PROVE  Step(o2, t, st, R, u)
BY DEF Step, Extends

LEMMA ChainGrows ==
    ASSUME NEW o, NEW o2, Extends(o, o2), NEW N, NEW N2, N \subseteq N2,
           NEW c, NEW h, NEW t, Chain(o, N, c, h, t)
    PROVE  Chain(o2, N2, c, h, t)
BY StepGrows DEF Chain

LEMMA ProofGrows ==
    ASSUME NEW o, NEW o2, Extends(o, o2), NEW N, NEW N2, N \subseteq N2,
           NEW m, Proof(o, N, m)
    PROVE  Proof(o2, N2, m)
<1>1. Honest(o2, m)
  BY DEF Proof, Honest, Extends
<1>2. Chain(o2, N2, m.ctx, m.prev, m.pre)
  BY ChainGrows DEF Proof
<1> QED BY <1>1, <1>2 DEF Proof

\* With the same network.
LEMMA VerifierGrows ==
    ASSUME NEW o, NEW o2, Extends(o, o2), NEW N,
           NEW v, NEW h, NEW t, VerifierOK(o, N, v, h, t)
    PROVE  VerifierOK(o2, N, v, h, t)
<1>1. \A m \in N : \A st :
         m.ctx = v /\ h = Append(m.prev, With(m, st)) => Step(o2, m.pre, st, m.R, t)
  BY StepGrows DEF VerifierOK
<1> QED BY <1>1 DEF VerifierOK

\* With a new proof m2: if the verifier has absorbed what equals it, it has
\* absorbed an older proof that differs in the statement only.
LEMMA VerifierGrowsNet ==
    ASSUME NEW o, NEW N, \A m \in N : Proof(o, N, m), NEW m2, Shaped(m2), IsSeq(m2.prev),
           NEW v, NEW h, NEW t, VerifierOK(o, N, v, h, t)
    PROVE  VerifierOK(o, N \cup {m2}, v, h, t)
<1>1. ASSUME NEW st, m2.ctx = v, h = Append(m2.prev, With(m2, st))
      PROVE  Step(o, m2.pre, st, m2.R, t)
  <2>1. h # <<>>
    BY <1>1, AppendIsSeq
  <2>2. PICK g, st0 : \E m0 \in N : IsSeq(g) /\ h = Append(g, With(m0, st0))
    BY <2>1 DEF VerifierOK
  <2>3. PICK m0 \in N : IsSeq(g) /\ h = Append(g, With(m0, st0))
    BY <2>2
  <2>4. g = m2.prev /\ With(m0, st0) = With(m2, st)
    <3>1. Append(g, With(m0, st0)) = Append(m2.prev, With(m2, st))
      BY <1>1, <2>3
    <3> QED BY <3>1, <2>3, AppendInj
  <2>5. Shaped(m0)
    BY DEF Proof
  <2>6. /\ st0 = st /\ m0.R = m2.R /\ m0.ctx = m2.ctx /\ m0.pre = m2.pre
        /\ m0.prev = m2.prev
    BY <2>4, <2>5, WithInj
  <2>7. Step(o, m0.pre, st0, m0.R, t)
    BY <1>1, <2>3, <2>4, <2>6 DEF VerifierOK
  <2> QED BY <2>6, <2>7
<1>2. \A m \in N \cup {m2} : \A st :
         m.ctx = v /\ h = Append(m.prev, With(m, st)) => Step(o, m.pre, st, m.R, t)
  BY <1>1 DEF VerifierOK
<1>3. h # <<>> => \E g, st : \E m \in N \cup {m2} : IsSeq(g) /\ h = Append(g, With(m, st))
  BY DEF VerifierOK
<1> QED BY <1>2, <1>3 DEF VerifierOK

-----------------------------------------------------------------------------
(* The actions *)

CommitFrames(st, R) == [a \in DOMAIN R |-> <<CommitLabels(st)[a], R[a]>>]

LEMMA AbsorbParts ==
    ASSUME NEW t, IsSeq(t), NEW st \in Statements, NEW R, NEW n \in Nat, DOMAIN R = 1..n
    PROVE  /\ Absorb(t, st, R) = (t \o Fields(st)) \o CommitFrames(st, R)
           /\ IsSeq(t \o Fields(st)) /\ IsSeq(Fields(st))
           /\ IsSeq(CommitFrames(st, R)) /\ Len(CommitFrames(st, R)) = n
           /\ IsSeq(Absorb(t, st, R))
<1> DEFINE C == CommitFrames(st, R)
           F == Fields(st)
           TF == t \o F
<1>1. Absorb(t, st, R) = TF \o C
  BY DEF Absorb, AppendFrames, CommitFrames
<1>2. IsSeq(F)
  BY FieldsSeq
<1>3. IsSeq(TF)
  BY <1>2, ConcatIsSeq
<1>4. DOMAIN C = 1..n /\ C = [a \in 1..n |-> C[a]]
  BY DEF CommitFrames
<1> HIDE DEF C, F
<1>5. IsSeq(C) /\ Len(C) = n
  BY <1>4, FunIsSeq
<1> HIDE DEF TF
<1>6. IsSeq(TF \o C)
  BY <1>3, <1>5, ConcatIsSeq
<1> QED BY <1>1, <1>2, <1>3, <1>5, <1>6 DEF C, F, TF

LEMMA FoldedSeq ==
    ASSUME NEW t, IsSeq(t), NEW label, NEW e
    PROVE  IsSeq(HashInput(t, label)) /\ IsSeq(Folded(t, label, e))
<1>1. IsSeq(HashInput(t, label))
  BY AppendIsSeq DEF HashInput
<1> QED BY <1>1, AppendIsSeq DEF Folded

LEMMA NewIsSeq == \A c : IsSeq(NewTranscript(c))
<1> SUFFICES ASSUME NEW c PROVE IsSeq(NewTranscript(c))
  OBVIOUS
<1>1. << <<"domain", c>> >> \in Seq({<<"domain", c>>})
  OBVIOUS
<1> QED BY <1>1 DEF NewTranscript, IsSeq

LEMMA SessInit == Init => SessInv
<1> SUFFICES ASSUME Init PROVE SessInv
  OBVIOUS
<1>1. OracleOK(oracle)
  <2>1. DOMAIN oracle = {}
    BY DEF Init
  <2> QED BY <2>1 DEF OracleOK
<1>2. net = {}
  BY DEF Init
<1>3. ASSUME NEW c \in Contexts
      PROVE  ProverOK(oracle, net, c, sent[c], ptr[c]) /\ VerifierOK(oracle, net, c, seen[c], vtr[c])
  <2>1. sent[c] = <<>> /\ seen[c] = <<>> /\ ptr[c] = NewTranscript(c) /\ vtr[c] = NewTranscript(c)
    BY DEF Init
  <2> QED BY <2>1, <1>2, NewIsSeq, EmptyIsSeq DEF ProverOK, VerifierOK, Chain
<1> QED BY <1>1, <1>2, <1>3 DEF SessInv, Init

LEMMA ProveInv ==
    ASSUME SessInv, NEW c \in Contexts, NEW x \in Instances, NEW k \in NonceVectors(x.st),
           NEW e \in Challenges, Prove(c, x, k, e)
    PROVE  SessInv'
<1> DEFINE R == Commit(Matrix(x.st), k)
           t == Absorb(ptr[c], x.st, R)
           input == HashInput(t, ChallengeLabel(x.st))
           m == [st |-> x.st, R |-> R, s |-> Respond(k, e, x.w),
                 ctx |-> c, pre |-> ptr[c], prev |-> sent[c]]
           u == Folded(t, ChallengeLabel(x.st), e)
<1>1. /\ ProverChecks(x.st) /\ Hashed(oracle, input, e, oracle')
      /\ ptr' = [ptr EXCEPT ![c] = u] /\ net' = net \cup {m}
      /\ sent' = [sent EXCEPT ![c] = Append(@, m)] /\ vtr' = vtr /\ seen' = seen
  BY DEF Prove
<1>2. OracleOK(oracle) /\ \A y \in net : Proof(oracle, net, y)
  BY DEF SessInv
<1>3. OracleOK(oracle') /\ Extends(oracle, oracle') /\ input \in DOMAIN oracle' /\ oracle'[input] = e
  BY <1>1, <1>2, HashedExtends
<1>4. ProverOK(oracle, net, c, sent[c], ptr[c])
  BY DEF SessInv
<1>5. /\ m.st = x.st /\ m.R = R /\ m.s = Respond(k, e, x.w) /\ m.ctx = c
      /\ m.pre = ptr[c] /\ m.prev = sent[c] /\ Shaped(m)
  BY DEF Shaped
<1>6. input = Input(m.pre, m.st, m.R)
  BY <1>5 DEF Input
<1>7. x.st \in Statements
  BY StatementAssumption
<1>8. DOMAIN R = 1..Rows(x.st.kind) /\ Rows(x.st.kind) \in Nat
  BY <1>7, MatrixRows, RowsType DEF Commit
<1>9. IsSeq(u)
  <2>1. IsSeq(t)
    <3>1. IsSeq(ptr[c])
      BY <1>4 DEF ProverOK
    <3> HIDE DEF R
    <3> QED BY <3>1, <1>7, <1>8, AbsorbParts
  <2> HIDE DEF t
  <2> QED BY <2>1, FoldedSeq
<1>10. Step(oracle', m.pre, m.st, m.R, u)
  BY <1>3, <1>5, <1>6 DEF Step
<1>11. Honest(oracle', m)
  BY <1>1, <1>3, <1>5, <1>6 DEF Honest
<1> HIDE DEF m, u, R, t, input
<1>12. net \subseteq net' /\ m \in net'
  BY <1>1
<1>13. Proof(oracle', net', m)
  <2>1. Chain(oracle', net', m.ctx, m.prev, m.pre)
    BY <1>3, <1>4, <1>5, <1>12, ChainGrows DEF ProverOK
  <2> QED BY <2>1, <1>4, <1>5, <1>7, <1>8, <1>11 DEF Proof, ProverOK
<1>14. \A y \in net' : Proof(oracle', net', y)
  <2> SUFFICES ASSUME NEW y \in net' PROVE Proof(oracle', net', y)
    OBVIOUS
  <2>1. CASE y = m
    BY <2>1, <1>13
  <2>2. CASE y \in net
    BY <2>2, <1>2, <1>3, <1>12, ProofGrows
  <2> QED BY <2>1, <2>2, <1>1
<1>15. ASSUME NEW d \in Contexts PROVE ProverOK(oracle', net', d, sent'[d], ptr'[d])
  <2>1. CASE d = c
    <3>1. sent'[d] = Append(m.prev, m) /\ ptr'[d] = u
      BY <2>1, <1>1, <1>5 DEF SessInv
    <3>2. Chain(oracle', net', d, sent'[d], ptr'[d])
      BY <2>1, <3>1, <1>5, <1>10, <1>12 DEF Chain
    <3>3. IsSeq(sent'[d])
      BY <3>1, <1>4, <1>5, AppendIsSeq DEF ProverOK
    <3> QED BY <3>1, <3>2, <3>3, <1>9 DEF ProverOK
  <2>2. CASE d # c
    <3>1. sent'[d] = sent[d] /\ ptr'[d] = ptr[d]
      BY <2>2, <1>1 DEF SessInv
    <3>2. ProverOK(oracle, net, d, sent[d], ptr[d])
      BY DEF SessInv
    <3> QED BY <3>1, <3>2, <1>3, <1>12, ChainGrows DEF ProverOK
  <2> QED BY <2>1, <2>2
<1>16. ASSUME NEW v \in Contexts PROVE VerifierOK(oracle', net', v, seen'[v], vtr'[v])
  <2>1. VerifierOK(oracle, net, v, seen[v], vtr[v])
    BY DEF SessInv
  <2>2. VerifierOK(oracle', net, v, seen[v], vtr[v])
    BY <2>1, <1>3, VerifierGrows
  <2>3. \A y \in net : Proof(oracle', net, y)
    BY <1>2, <1>3, ProofGrows
  <2>4. Shaped(m) /\ IsSeq(m.prev)
    BY <1>4, <1>5 DEF ProverOK
  <2>5. VerifierOK(oracle', net \cup {m}, v, seen[v], vtr[v])
    BY <2>2, <2>3, <2>4, VerifierGrowsNet
  <2> QED BY <2>5, <1>1
<1>17. DOMAIN ptr' = Contexts /\ DOMAIN vtr' = Contexts /\ DOMAIN sent' = Contexts /\ DOMAIN seen' = Contexts
  BY <1>1 DEF SessInv
<1> QED BY <1>3, <1>14, <1>15, <1>16, <1>17 DEF SessInv

\* The statements a proof is checked against have its layout.
LEMMA CheckedLayout ==
    ASSUME NEW m, m.st \in Statements, NEW st \in Checked(m)
    PROVE  st \in Statements /\ Rows(st.kind) = Rows(m.st.kind)
BY StatementAssumption DEF Checked, SameLayout, Rows

LEMMA VerifyInv ==
    ASSUME SessInv, NEW v \in Contexts, NEW m \in net, NEW st \in Checked(m),
           NEW e \in Challenges, Verify(v, m, st, e)
    PROVE  SessInv'
<1> DEFINE t == Absorb(vtr[v], st, m.R)
           input == HashInput(t, ChallengeLabel(st))
           u == Folded(t, ChallengeLabel(st), e)
<1>1. /\ Hashed(oracle, input, e, oracle')
      /\ vtr' = [vtr EXCEPT ![v] = u]
      /\ seen' = [seen EXCEPT ![v] = Append(@, With(m, st))]
      /\ ptr' = ptr /\ net' = net /\ sent' = sent
  BY DEF Verify, With
<1>2. OracleOK(oracle) /\ \A y \in net : Proof(oracle, net, y)
  BY DEF SessInv
<1>3. OracleOK(oracle') /\ Extends(oracle, oracle') /\ input \in DOMAIN oracle' /\ oracle'[input] = e
  BY <1>1, <1>2, HashedExtends
<1>4. VerifierOK(oracle, net, v, seen[v], vtr[v])
  BY DEF SessInv
<1>5. IsSeq(seen[v]) /\ IsSeq(vtr[v])
  BY <1>4 DEF VerifierOK
<1>6. /\ Shaped(m) /\ m.st \in Statements /\ DOMAIN m.R = 1..Rows(m.st.kind)
      /\ Rows(m.st.kind) \in Nat
  BY <1>2, RowsType DEF Proof
<1>7. st \in Statements
  BY <1>6, CheckedLayout
<1>8. IsSeq(u)
  <2>1. IsSeq(t)
    BY <1>5, <1>6, <1>7, AbsorbParts
  <2> HIDE DEF t
  <2> QED BY <2>1, FoldedSeq
<1>9. Step(oracle', vtr[v], st, m.R, u)
  BY <1>3 DEF Step, Input
<1> HIDE DEF t, input, u
<1>10. \A y \in net' : Proof(oracle', net', y)
  BY <1>1, <1>2, <1>3, ProofGrows
<1>11. ASSUME NEW c \in Contexts PROVE ProverOK(oracle', net', c, sent'[c], ptr'[c])
  <2>1. ProverOK(oracle, net, c, sent[c], ptr[c])
    BY DEF SessInv
  <2> QED BY <2>1, <1>1, <1>3, ChainGrows DEF ProverOK
<1>12. ASSUME NEW w \in Contexts PROVE VerifierOK(oracle', net', w, seen'[w], vtr'[w])
  <2>1. CASE w = v
    <3>1. seen'[w] = Append(seen[v], With(m, st)) /\ vtr'[w] = u
      BY <2>1, <1>1 DEF SessInv
    <3>2. IsSeq(seen'[w]) /\ seen'[w] # <<>>
      BY <3>1, <1>5, AppendIsSeq
    <3>3. ASSUME NEW m1 \in net, NEW st1, m1.ctx = v,
                 Append(seen[v], With(m, st)) = Append(m1.prev, With(m1, st1))
          PROVE  Step(oracle', m1.pre, st1, m1.R, u)
      <4>1. Proof(oracle, net, m1)
        BY <1>2
      <4>2. seen[v] = m1.prev /\ With(m, st) = With(m1, st1)
        BY <3>3, <4>1, <1>5, AppendInj DEF Proof
      <4>3. st = st1 /\ m.R = m1.R
        BY <4>1, <4>2, <1>6, WithInj DEF Proof
      <4>4. vtr[v] = m1.pre
        <5>1. Chain(oracle, net, v, seen[v], m1.pre)
          BY <4>1, <4>2, <3>3 DEF Proof
        <5> QED BY <5>1, <1>2, <1>4, HistoryDetermines
      <4> QED BY <4>3, <4>4, <1>9
    <3>4. \E g, st0 : \E m0 \in net' : IsSeq(g) /\ seen'[w] = Append(g, With(m0, st0))
      BY <3>1, <1>1, <1>5
    <3> QED BY <2>1, <3>1, <3>2, <3>3, <3>4, <1>1, <1>8 DEF VerifierOK
  <2>2. CASE w # v
    <3>1. seen'[w] = seen[w] /\ vtr'[w] = vtr[w]
      BY <2>2, <1>1 DEF SessInv
    <3>2. VerifierOK(oracle, net, w, seen[w], vtr[w])
      BY DEF SessInv
    <3>3. VerifierOK(oracle', net, w, seen[w], vtr[w])
      BY <3>2, <1>3, VerifierGrows
    <3> QED BY <3>1, <3>3, <1>1
  <2> QED BY <2>1, <2>2
<1>13. DOMAIN ptr' = Contexts /\ DOMAIN vtr' = Contexts /\ DOMAIN sent' = Contexts /\ DOMAIN seen' = Contexts
  BY <1>1 DEF SessInv
<1> QED BY <1>3, <1>10, <1>11, <1>12, <1>13 DEF SessInv

LEMMA ProverResetsInv == ASSUME SessInv, NEW c \in Contexts, ProverResets(c) PROVE SessInv'
<1>1. /\ ptr' = [ptr EXCEPT ![c] = NewTranscript(c)] /\ sent' = [sent EXCEPT ![c] = <<>>]
      /\ vtr' = vtr /\ oracle' = oracle /\ net' = net /\ seen' = seen
  BY DEF ProverResets
<1>2. ASSUME NEW d \in Contexts PROVE ProverOK(oracle, net, d, sent'[d], ptr'[d])
  <2>1. CASE d = c
    <3>1. sent'[d] = <<>> /\ ptr'[d] = NewTranscript(d)
      BY <2>1, <1>1 DEF SessInv
    <3> QED BY <3>1, NewIsSeq, EmptyIsSeq DEF ProverOK, Chain
  <2>2. CASE d # c
    BY <2>2, <1>1 DEF SessInv
  <2> QED BY <2>1, <2>2
<1>3. DOMAIN ptr' = Contexts /\ DOMAIN sent' = Contexts
  BY <1>1 DEF SessInv
<1> QED BY <1>1, <1>2, <1>3 DEF SessInv

LEMMA VerifierResetsInv == ASSUME SessInv, NEW v \in Contexts, VerifierResets(v) PROVE SessInv'
<1>1. /\ vtr' = [vtr EXCEPT ![v] = NewTranscript(v)] /\ seen' = [seen EXCEPT ![v] = <<>>]
      /\ ptr' = ptr /\ oracle' = oracle /\ net' = net /\ sent' = sent
  BY DEF VerifierResets
<1>2. ASSUME NEW d \in Contexts PROVE VerifierOK(oracle, net, d, seen'[d], vtr'[d])
  <2>1. CASE d = v
    <3>1. seen'[d] = <<>> /\ vtr'[d] = NewTranscript(d)
      BY <2>1, <1>1 DEF SessInv
    <3>2. ASSUME NEW m \in net, NEW st, seen'[d] = Append(m.prev, With(m, st)) PROVE FALSE
      BY <3>1, <3>2, AppendIsSeq DEF SessInv, Proof
    <3> QED BY <3>1, <3>2, NewIsSeq, EmptyIsSeq DEF VerifierOK
  <2>2. CASE d # v
    BY <2>2, <1>1 DEF SessInv
  <2> QED BY <2>1, <2>2
<1>3. DOMAIN vtr' = Contexts /\ DOMAIN seen' = Contexts
  BY <1>1 DEF SessInv
<1> QED BY <1>1, <1>2, <1>3 DEF SessInv

LEMMA SessStep == SessInv /\ [Next]_vars => SessInv'
<1> SUFFICES ASSUME SessInv, [Next]_vars PROVE SessInv'
  OBVIOUS
<1>1. ASSUME NEW c \in Contexts, ProveFails(c) PROVE SessInv'
  BY <1>1 DEF ProveFails, SessInv
<1>2. ASSUME NEW v \in Contexts, NEW m \in net, NEW st \in Checked(m), VerifyRejectsInput(v, m, st)
      PROVE  SessInv'
  BY <1>2 DEF VerifyRejectsInput, SessInv
<1>3. CASE UNCHANGED vars
  BY <1>3 DEF vars, SessInv
<1>4. CASE Next
  BY <1>4, <1>1, <1>2, ProveInv, VerifyInv, ProverResetsInv, VerifierResetsInv DEF Next
<1> QED BY <1>3, <1>4

-----------------------------------------------------------------------------
(* What verifications report *)

\* Secrets, nonces and challenges are integers, and so is everything made of
\* them.
LEMMA InstanceTypes ==
    ASSUME NEW x \in Instances, NEW k \in NonceVectors(x.st), NEW e \in Challenges
    PROVE  /\ x.w \in Vector /\ k \in Vector /\ e \in Int /\ e \in Scalar
           /\ \A i \in DOMAIN Matrix(x.st) :
                 /\ Matrix(x.st)[i] \in Vector /\ Image(x.st)[i] \in Point
                 /\ Commit(Matrix(x.st), k)[i] \in Int
           /\ Respond(k, e, x.w) \in Vector
<1>1. Scalar \subseteq Int /\ Point \subseteq Int /\ 0 \in Int
  BY QAssumption DEF Scalar, Point
<1>2. x.w \in Vector
  BY <1>1, StatementAssumption DEF Vector
<1>3. k \in Vector
  <2>1. k \in [Columns -> NonceVals \cup {0}]
    BY DEF NonceVectors
  <2>2. NonceVals \cup {0} \subseteq Int
    BY <1>1, SessionAssumption
  <2> QED BY <2>1, <2>2 DEF Vector
<1>4. e \in Scalar /\ e \in Int
  BY <1>1, SessionAssumption
<1>5. ASSUME NEW i \in DOMAIN Matrix(x.st)
      PROVE  /\ Matrix(x.st)[i] \in Vector /\ Image(x.st)[i] \in Point
             /\ Commit(Matrix(x.st), k)[i] \in Int
  <2>1. Matrix(x.st)[i] \in [Columns -> Point] /\ Image(x.st)[i] \in Point
    BY StatementAssumption
  <2>2. Matrix(x.st)[i] \in Vector
    BY <2>1, <1>1 DEF Vector
  <2>3. Dot(Matrix(x.st)[i], k) \in Int
    BY <2>2, <1>3, DotType
  <2>4. Combine(Matrix(x.st)[i], k) \in Int
    BY <2>3, CombineDot, ModType
  <2> QED BY <2>1, <2>2, <2>4 DEF Commit
<1>6. Respond(k, e, x.w) \in Vector
  <2>1. ASSUME NEW c \in Columns PROVE FAdd(k[c], FMul(e, x.w[c])) \in Int
    <3>1. k[c] \in Int /\ x.w[c] \in Int
      BY <1>2, <1>3 DEF Vector
    <3>2. e * x.w[c] \in Int
      BY <3>1, <1>4
    <3>3. FMul(e, x.w[c]) \in Int
      BY <3>2, ModType DEF FMul
    <3>4. k[c] + FMul(e, x.w[c]) \in Int
      BY <3>1, <3>3
    <3> QED BY <3>4, ModType DEF FAdd
  <2> QED BY <2>1 DEF Respond, Vector
<1> QED BY <1>2, <1>3, <1>4, <1>5, <1>6

\* A proof satisfies the verification equations for its own challenge, and
\* for a statement that passes the verifier's checks for no other one.
LEMMA OwnChallenge ==
    ASSUME NEW o, OracleOK(o), NEW m, Honest(o, m)
    PROVE  /\ Input(m.pre, m.st, m.R) \in DOMAIN o
           /\ Accepts(Matrix(m.st), Image(m.st), m.R, m.s, o[Input(m.pre, m.st, m.R)])
<1>1. PICK x \in Instances : \E k \in NonceVectors(x.st) :
        /\ ProverChecks(x.st) /\ m.st = x.st /\ m.R = Commit(Matrix(x.st), k)
        /\ Input(m.pre, m.st, m.R) \in DOMAIN o
        /\ m.s = Respond(k, o[Input(m.pre, m.st, m.R)], x.w)
  BY DEF Honest
<1>2. PICK k \in NonceVectors(x.st) :
        /\ ProverChecks(x.st) /\ m.st = x.st /\ m.R = Commit(Matrix(x.st), k)
        /\ Input(m.pre, m.st, m.R) \in DOMAIN o
        /\ m.s = Respond(k, o[Input(m.pre, m.st, m.R)], x.w)
  BY <1>1
<1> DEFINE e == o[Input(m.pre, m.st, m.R)]
<1>3. e \in Challenges
  BY <1>2 DEF OracleOK
<1> HIDE DEF e
<1>4. InRelation(Matrix(x.st), Image(x.st), x.w)
  BY <1>2, SessionAssumption
<1>5. Accepts(Matrix(x.st), Image(x.st), Commit(Matrix(x.st), k), Respond(k, e, x.w), e)
  <2>1. /\ x.w \in Vector /\ k \in Vector /\ e \in Int
        /\ \A i \in DOMAIN Matrix(x.st) : Matrix(x.st)[i] \in Vector
    BY <1>3, InstanceTypes
  <2> QED BY <2>1, <1>4, SigmaCompleteness
<1> QED BY <1>2, <1>5 DEF e

LEMMA NotDegenerate ==
    ASSUME NEW st \in Statements, NEW R, VerifierChecks(st, R)
    PROVE  \E i \in DOMAIN Matrix(st) : Image(st)[i] # Identity
<1>0. DOMAIN Matrix(st) = 1..Rows(st.kind)
  BY MatrixRows
<1>1. CASE st.kind = "pop"
  <2>1. Image(st)[1] = st.pk /\ st.pk # Identity
    BY <1>1 DEF Image, PopImage, VerifierChecks, PopVerifierChecks, ValidatePublicKey, IsInfinity
  <2>2. 1 \in 1..Rows(st.kind)
    BY <1>1 DEF Rows
  <2> QED BY <1>0, <2>1, <2>2
<1>2. CASE st.kind = "dleq"
  <2>1. Image(st)[1] = st.pk /\ st.pk # Identity
    BY <1>2 DEF Image, DLEQImage, VerifierChecks, DLEQVerifierChecks, ValidatePublicKey, IsInfinity
  <2>2. 1 \in 1..Rows(st.kind)
    BY <1>2 DEF Rows
  <2> QED BY <1>0, <2>1, <2>2
<1>3. CASE st.kind = "apply_pending"
  <2>1. Image(st)[2] = st.pk /\ st.pk # Identity
    BY <1>3 DEF Image, ApplyImage, VerifierChecks, ApplyVerifierChecks, ValidatePublicKey, IsInfinity
  <2>2. 2 \in 1..Rows(st.kind)
    BY <1>3 DEF Rows
  <2> QED BY <1>0, <2>1, <2>2
<1>4. CASE st.kind = "commitment_equality"
  <2>1. Image(st)[1] = st.ct.C1 /\ st.ct.C1 # Identity
    BY <1>4 DEF Image, CommitEqImage, VerifierChecks, CommitEqVerifierChecks, Validate, IsInfinity
  <2>2. 1 \in 1..Rows(st.kind)
    BY <1>4 DEF Rows
  <2> QED BY <1>0, <2>1, <2>2
<1>5. CASE st.kind \in {"equality2", "equality"}
  <2>1. PICK k \in {2, 3} : /\ k = (IF st.kind = "equality2" THEN 2 ELSE 3)
                            /\ st.cts \in [1..k -> AnyCiphertext] /\ Len(st.pks) = k
    BY <1>5, EqualityLen
  <2>2. 1 \in DOMAIN st.cts /\ 1 \in 1..(2 * k)
    BY <2>1
  <2>3. EqualityVerifierChecks(st) /\ Image(st) = EqualityImage(st)
    BY <1>5 DEF VerifierChecks, Image
  <2>4. Validate(st.cts[1])
    BY <2>2, <2>3 DEF EqualityVerifierChecks
  <2>5. KeyOf(1) = 1 /\ 1 % 2 = 1
    BY DEF KeyOf
  <2>6. Image(st)[1] = st.cts[1].C1
    BY <2>1, <2>2, <2>3, <2>5 DEF EqualityImage
  <2>7. 1 \in 1..Rows(st.kind)
    BY <1>5 DEF Rows
  <2> QED BY <1>0, <2>4, <2>6, <2>7 DEF Validate, IsInfinity
<1> QED BY <1>1, <1>2, <1>3, <1>4, <1>5, StatementKind DEF Kinds

LEMMA OnlyOwnChallenge ==
    ASSUME NEW o, OracleOK(o), NEW m, Honest(o, m), m.st \in Statements,
           VerifierChecks(m.st, m.R), NEW e \in Challenges,
           Accepts(Matrix(m.st), Image(m.st), m.R, m.s, e)
    PROVE  e = o[Input(m.pre, m.st, m.R)]
<1>1. PICK x \in Instances : \E k \in NonceVectors(x.st) :
        /\ m.st = x.st /\ m.R = Commit(Matrix(x.st), k)
        /\ Input(m.pre, m.st, m.R) \in DOMAIN o
        /\ m.s = Respond(k, o[Input(m.pre, m.st, m.R)], x.w)
  BY DEF Honest
<1>2. PICK k \in NonceVectors(x.st) :
        /\ m.st = x.st /\ m.R = Commit(Matrix(x.st), k)
        /\ Input(m.pre, m.st, m.R) \in DOMAIN o
        /\ m.s = Respond(k, o[Input(m.pre, m.st, m.R)], x.w)
  BY <1>1
<1> DEFINE e0 == o[Input(m.pre, m.st, m.R)]
<1>3. e0 \in Challenges
  BY <1>2 DEF OracleOK
<1>4. Accepts(Matrix(m.st), Image(m.st), m.R, m.s, e0)
  BY OwnChallenge
<1>5. PICK i \in DOMAIN Matrix(m.st) : Image(m.st)[i] # Identity
  BY NotDegenerate
<1>6. /\ Matrix(m.st)[i] \in Vector /\ Image(m.st)[i] \in Point /\ m.R[i] \in Int
      /\ e \in Scalar
  BY <1>2, InstanceTypes
<1>7. m.s \in Vector /\ e0 \in Scalar
  BY <1>2, <1>3, InstanceTypes
<1> HIDE DEF e0
<1>8. e = e0
  BY <1>4, <1>5, <1>6, <1>7, OneChallengePerResponse
<1> QED BY <1>8 DEF e0

VerdictInv ==
    /\ \A d \in verdict : d.ok \in BOOLEAN /\ d.m \in net
    /\ InOrderProofsAccepted /\ AcceptedOnlyOnItsTranscript

LEMMA VerdictVerify ==
    ASSUME SessInv, NEW v \in Contexts, NEW m \in net, NEW st \in Checked(m),
           NEW e \in Challenges, Verify(v, m, st, e)
    PROVE  VerdictInv'
<1> DEFINE acc == Accepts(Matrix(st), Image(st), m.R, m.s, e)
           d == [m |-> m, st |-> st, ctx |-> v, at |-> vtr[v], before |-> seen[v], ok |-> acc]
<1>1. /\ verdict' = {d} /\ net' = net /\ VerifierChecks(st, m.R)
      /\ Hashed(oracle, Input(vtr[v], st, m.R), e, oracle')
  BY DEF Verify, Input
<1>2. OracleOK(oracle) /\ Proof(oracle, net, m) /\ \A y \in net : Proof(oracle, net, y)
  BY DEF SessInv
<1>3. Honest(oracle, m) /\ m.st \in Statements /\ IsSeq(m.pre)
  BY <1>2 DEF Proof
<1>4. acc \in BOOLEAN
  BY DEF Accepts
<1>5. ASSUME st = m.st, v = m.ctx, seen[v] = m.prev PROVE acc
  <2>1. vtr[v] = m.pre
    <3>1. Chain(oracle, net, v, seen[v], m.pre)
      BY <1>2, <1>5 DEF Proof
    <3> QED BY <3>1, <1>2, HistoryDetermines DEF SessInv
  <2>2. /\ Input(m.pre, m.st, m.R) \in DOMAIN oracle
        /\ Accepts(Matrix(m.st), Image(m.st), m.R, m.s, oracle[Input(m.pre, m.st, m.R)])
    BY <1>2, <1>3, OwnChallenge
  <2>3. e = oracle[Input(m.pre, m.st, m.R)]
    BY <1>1, <1>5, <2>1, <2>2 DEF Hashed
  <2> QED BY <2>2, <2>3, <1>5
<1>6. ASSUME st = m.st, acc PROVE vtr[v] = m.pre
  <2> DEFINE in == Input(vtr[v], st, m.R)
             in0 == Input(m.pre, m.st, m.R)
  <2>1. e = oracle[in0] /\ in0 \in DOMAIN oracle
    BY <1>1, <1>2, <1>3, <1>6, OwnChallenge, OnlyOwnChallenge
  <2>2. OracleOK(oracle') /\ Extends(oracle, oracle') /\ in \in DOMAIN oracle' /\ oracle'[in] = e
    <3> HIDE DEF in
    <3> QED BY <1>1, <1>2, HashedExtends DEF in
  <2>3. in0 \in DOMAIN oracle' /\ oracle'[in0] = e
    BY <2>1, <2>2 DEF Extends
  <2>4. in = in0
    BY <2>2, <2>3 DEF OracleOK
  <2> DEFINE A == Absorb(vtr[v], m.st, m.R)
             A0 == Absorb(m.pre, m.st, m.R)
             F == Fields(m.st)
             C == CommitFrames(m.st, m.R)
  <2>5. DOMAIN m.R = 1..Rows(m.st.kind) /\ Rows(m.st.kind) \in Nat
    BY <1>2, RowsType DEF Proof
  <2>6. IsSeq(vtr[v])
    BY DEF SessInv, VerifierOK
  <2>7. A = (vtr[v] \o F) \o C /\ IsSeq(vtr[v] \o F) /\ IsSeq(F) /\ IsSeq(C) /\ IsSeq(A)
    BY <2>5, <2>6, <1>3, AbsorbParts
  <2>8. A0 = (m.pre \o F) \o C /\ IsSeq(m.pre \o F) /\ IsSeq(A0)
    BY <2>5, <1>3, AbsorbParts
  <2>9. A = A0
    <3> DEFINE y == <<"challenge", ChallengeLabel(m.st)>>
    <3>1. in = Append(A, y) /\ in0 = Append(A0, y)
      BY <1>6 DEF Input, HashInput
    <3>2. IsSeq(A) /\ IsSeq(A0)
      BY <2>7, <2>8
    <3> HIDE DEF A, A0, in, in0, y
    <3>3. Append(A, y) = Append(A0, y)
      BY <3>1, <2>4
    <3> QED BY <3>2, <3>3, AppendInj
  <2> DEFINE X == vtr[v] \o F
             X0 == m.pre \o F
  <2>10. X = X0
    <3>1. X \o C = X0 \o C /\ IsSeq(X) /\ IsSeq(X0) /\ IsSeq(C)
      BY <2>7, <2>8, <2>9
    <3> HIDE DEF X, X0, C
    <3> QED BY <3>1, ConcatInj
  <2> HIDE DEF F
  <2> QED BY <2>6, <2>7, <2>10, <1>3, ConcatInj
<1>7. d.m = m /\ d.st = st /\ d.ctx = v /\ d.at = vtr[v] /\ d.before = seen[v] /\ d.ok = acc
  OBVIOUS
<1> HIDE DEF d, acc
<1> QED BY <1>1, <1>4, <1>5, <1>6, <1>7 DEF VerdictInv, InOrderProofsAccepted, AcceptedOnlyOnItsTranscript

LEMMA VerdictStep == SessInv /\ VerdictInv /\ [Next]_vars => VerdictInv'
<1> SUFFICES ASSUME SessInv, VerdictInv, [Next]_vars PROVE VerdictInv'
  OBVIOUS
<1> USE DEF VerdictInv, InOrderProofsAccepted, AcceptedOnlyOnItsTranscript
<1>1. ASSUME verdict' = {} PROVE VerdictInv'
  BY <1>1
<1>2. ASSUME NEW v \in Contexts, NEW m \in net, NEW st \in Checked(m), VerifyRejectsInput(v, m, st)
      PROVE  VerdictInv'
  <2> DEFINE d == [m |-> m, st |-> st, ctx |-> v, at |-> vtr[v], before |-> seen[v], ok |-> FALSE]
  <2>1. verdict' = {d} /\ net' = net /\ ~VerifierChecks(st, m.R)
    BY <1>2 DEF VerifyRejectsInput
  <2>2. d.m = m /\ d.st = st /\ d.ok = FALSE
    OBVIOUS
  <2> HIDE DEF d
  <2> QED BY <2>1, <2>2
<1>3. ASSUME NEW c \in Contexts, ProveFails(c) \/ ProverResets(c) \/ VerifierResets(c)
      PROVE  VerdictInv'
  BY <1>1, <1>3 DEF ProveFails, ProverResets, VerifierResets
<1>4. ASSUME NEW c \in Contexts, NEW x \in Instances, NEW k \in NonceVectors(x.st),
             NEW e \in Challenges, Prove(c, x, k, e)
      PROVE  VerdictInv'
  <2>1. verdict' = {}
    BY <1>4 DEF Prove
  <2> QED BY <2>1, <1>1
<1>5. CASE UNCHANGED vars
  BY <1>5 DEF vars
<1>6. CASE Next
  BY <1>6, <1>2, <1>3, <1>4, VerdictVerify DEF Next
<1> QED BY <1>5, <1>6

-----------------------------------------------------------------------------
(* What a challenge binds *)

\* The fields of a statement determine it.
LEMMA FieldsInjective ==
    ASSUME NEW s1 \in Statements, NEW s2 \in Statements, s1.kind = s2.kind,
           Fields(s1) = Fields(s2)
    PROVE  s1 = s2
<1>1. CASE s1.kind = "pop"
  <2>1. s1 \in [kind : {"pop"}, pk : AnyPoint] /\ s2 \in [kind : {"pop"}, pk : AnyPoint]
    BY <1>1 DEF Statements
  <2>2. s1.pk = s2.pk
    BY <1>1 DEF Fields, PopFields
  <2> QED BY <2>1, <2>2
<1>2. CASE s1.kind = "dleq"
  <2> DEFINE S == [kind : {"dleq"}, pk : AnyPoint, ct : AnyCiphertext, amount : Scalar]
  <2>1. s1 \in S /\ s2 \in S
    BY <1>2 DEF Statements
  <2>2. s1.pk = s2.pk /\ s1.ct.C1 = s2.ct.C1 /\ s1.ct.C2 = s2.ct.C2 /\ s1.amount = s2.amount
    BY <1>2 DEF Fields, DLEQFields
  <2>3. s1.ct = s2.ct
    BY <2>1, <2>2 DEF AnyCiphertext
  <2> QED BY <2>1, <2>2, <2>3
<1>3. CASE s1.kind = "apply_pending"
  <2> DEFINE S == [kind : {"apply_pending"}, pk : AnyPoint, pending : AnyCiphertext,
                   newCt : AnyCiphertext]
  <2>1. s1 \in S /\ s2 \in S
    BY <1>3 DEF Statements
  <2>2. /\ s1.pk = s2.pk /\ s1.pending.C1 = s2.pending.C1 /\ s1.pending.C2 = s2.pending.C2
        /\ s1.newCt.C1 = s2.newCt.C1 /\ s1.newCt.C2 = s2.newCt.C2
    BY <1>3 DEF Fields, ApplyFields
  <2>3. s1.pending = s2.pending /\ s1.newCt = s2.newCt
    BY <2>1, <2>2 DEF AnyCiphertext
  <2> QED BY <2>1, <2>2, <2>3
<1>4. CASE s1.kind = "commitment_equality"
  <2> DEFINE S == [kind : {"commitment_equality"}, pk : AnyPoint, H : AnyPoint,
                   ct : AnyCiphertext, P : AnyPoint]
  <2>1. s1 \in S /\ s2 \in S
    BY <1>4 DEF Statements
  <2>2. /\ s1.pk = s2.pk /\ s1.H = s2.H /\ s1.ct.C1 = s2.ct.C1 /\ s1.ct.C2 = s2.ct.C2
        /\ s1.P = s2.P
    BY <1>4 DEF Fields, CommitEqFields
  <2>3. s1.ct = s2.ct
    BY <2>1, <2>2 DEF AnyCiphertext
  <2> QED BY <2>1, <2>2, <2>3
<1>5. CASE s1.kind \in {"equality2", "equality"}
  <2>1. PICK k \in {2, 3} : /\ k = (IF s1.kind = "equality2" THEN 2 ELSE 3)
                            /\ s1.pks \in [1..k -> AnyPoint] /\ s1.cts \in [1..k -> AnyCiphertext]
                            /\ Len(s1.pks) = k
    BY <1>5, EqualityLen
  <2>2. s2.pks \in [1..k -> AnyPoint] /\ s2.cts \in [1..k -> AnyCiphertext] /\ Len(s2.pks) = k
    BY <1>5, <2>1, EqualityLen
  <2>3. Fields(s1) = EqualityFields(s1) /\ Fields(s2) = EqualityFields(s2)
    BY <1>5 DEF Fields
  <2> DEFINE T == TypeFrame(k)
             K1 == KeyFrames(s1, k)
             C1 == CipherFrames(s1, k)
             K2 == KeyFrames(s2, k)
             C2 == CipherFrames(s2, k)
             A1 == T \o K1
             A2 == T \o K2
  <2>4. /\ Fields(s1) = A1 \o C1 /\ IsSeq(T) /\ IsSeq(K1) /\ Len(K1) = k
        /\ IsSeq(C1) /\ Len(C1) = 2 * k
    BY <2>1, <2>3, EqualityParts
  <2>5. /\ Fields(s2) = A2 \o C2 /\ IsSeq(K2) /\ Len(K2) = k
        /\ IsSeq(C2) /\ Len(C2) = 2 * k
    BY <2>2, <2>3, EqualityParts
  <2> HIDE DEF T, K1, K2, C1, C2
  <2>6. IsSeq(A1) /\ IsSeq(A2)
    BY <2>4, <2>5, ConcatIsSeq
  <2>7. A1 \o C1 = A2 \o C2
    BY <2>4, <2>5
  <2>8. A1 = A2 /\ C1 = C2
    <3>1. Len(C1) = Len(C2) /\ IsSeq(C1) /\ IsSeq(C2)
      BY <2>4, <2>5
    <3> HIDE DEF A1, A2
    <3>2. SameConcat(A1, C1, A2, C2)
      BY <3>1, <2>6, <2>7 DEF SameConcat
    <3> QED BY <3>2, ConcatParts
  <2>9. K1 = K2
    BY <2>4, <2>5, <2>8, ConcatInj
  <2>10. \A j \in 1..k : s1.pks[j] = s2.pks[j]
    <3> TAKE j \in 1..k
    <3>1. K1[j][2] = s1.pks[j] /\ K2[j][2] = s2.pks[j]
      BY DEF K1, K2, KeyFrames
    <3> QED BY <3>1, <2>9
  <2>11. \A j \in 1..k : s1.cts[j] = s2.cts[j]
    <3> TAKE j \in 1..k
    <3> DEFINE a == 2 * j - 1
               b == 2 * j
    <3>1. /\ a \in 1..(2 * k) /\ b \in 1..(2 * k) /\ a % 2 = 1 /\ b % 2 # 1
          /\ KeyOf(a) = j /\ KeyOf(b) = j
      BY <2>1 DEF KeyOf
    <3> HIDE DEF a, b
    <3>2. C1[a][2] = s1.cts[j].C1 /\ C2[a][2] = s2.cts[j].C1
      BY <3>1 DEF C1, C2, CipherFrames
    <3>3. C1[b][2] = s1.cts[j].C2 /\ C2[b][2] = s2.cts[j].C2
      BY <3>1 DEF C1, C2, CipherFrames
    <3>4. s1.cts[j] \in AnyCiphertext /\ s2.cts[j] \in AnyCiphertext
      BY <2>1, <2>2
    <3>5. s1.cts[j].C1 = s2.cts[j].C1 /\ s1.cts[j].C2 = s2.cts[j].C2
      BY <3>2, <3>3, <2>8
    <3> QED BY <3>4, <3>5 DEF AnyCiphertext
  <2>12. s1.pks = s2.pks /\ s1.cts = s2.cts
    BY <2>1, <2>2, <2>10, <2>11
  <2>13. /\ s1 = [kind |-> s1.kind, pks |-> s1.pks, cts |-> s1.cts]
         /\ s2 = [kind |-> s2.kind, pks |-> s2.pks, cts |-> s2.cts]
    BY <1>5 DEF Statements
  <2> QED BY <2>12, <2>13
<1> QED BY <1>1, <1>2, <1>3, <1>4, <1>5, StatementKind DEF Kinds

\* R is a sequence of n commitments.
CommitmentList(R, n) == DOMAIN R = 1..n /\ R = [a \in DOMAIN R |-> R[a]]

\* A hash input determines statement and commitments, whatever transcript it
\* continues: the challenge label names the kind, the kind the number of
\* frames, and the frames at the end are the statement and the commitments.
LEMMA InputInjective ==
    ASSUME NEW t1, NEW t2, IsSeq(t1), IsSeq(t2), NEW s1 \in Statements, NEW s2 \in Statements,
           NEW R1, NEW R2,
           CommitmentList(R1, Rows(s1.kind)), CommitmentList(R2, Rows(s2.kind)),
           Input(t1, s1, R1) = Input(t2, s2, R2)
    PROVE  s1 = s2 /\ R1 = R2
<1> DEFINE A1 == Absorb(t1, s1, R1)
           A2 == Absorb(t2, s2, R2)
           F1 == Fields(s1)
           F2 == Fields(s2)
           C1 == CommitFrames(s1, R1)
           C2 == CommitFrames(s2, R2)
           X1 == t1 \o F1
           X2 == t2 \o F2
           y1 == <<"challenge", ChallengeLabel(s1)>>
           y2 == <<"challenge", ChallengeLabel(s2)>>
<1>0. Rows(s1.kind) \in Nat /\ Rows(s2.kind) \in Nat
  BY RowsType
<1>1. /\ A1 = X1 \o C1 /\ IsSeq(X1) /\ IsSeq(F1) /\ IsSeq(C1) /\ Len(C1) = Rows(s1.kind)
      /\ IsSeq(A1)
  <2>1. DOMAIN R1 = 1..Rows(s1.kind)
    BY DEF CommitmentList
  <2> QED BY <2>1, <1>0, AbsorbParts
<1>2. /\ A2 = X2 \o C2 /\ IsSeq(X2) /\ IsSeq(F2) /\ IsSeq(C2) /\ Len(C2) = Rows(s2.kind)
      /\ IsSeq(A2)
  <2>1. DOMAIN R2 = 1..Rows(s2.kind)
    BY DEF CommitmentList
  <2> QED BY <2>1, <1>0, AbsorbParts
<1>3. A1 = A2 /\ y1 = y2
  <2>1. Append(A1, y1) = Append(A2, y2)
    BY DEF Input, HashInput
  <2>2. IsSeq(A1) /\ IsSeq(A2)
    BY <1>1, <1>2
  <2> HIDE DEF A1, A2, y1, y2
  <2> QED BY <2>1, <2>2, AppendInj
<1>4. s1.kind = s2.kind
  <2>1. ChallengeLabel(s1) = ChallengeLabel(s2)
    BY <1>3
  <2>2. s1.kind \in Kinds /\ s2.kind \in Kinds
    BY StatementKind
  <2> QED BY <2>1, <2>2 DEF ChallengeLabel, Kinds
<1>5. Len(F1) = Len(F2)
  BY <1>4, FieldsSeq
<1>6. X1 = X2 /\ C1 = C2
  <2>1. X1 \o C1 = X2 \o C2 /\ Len(C1) = Len(C2)
    BY <1>1, <1>2, <1>3, <1>4
  <2>2. IsSeq(X1) /\ IsSeq(X2) /\ IsSeq(C1) /\ IsSeq(C2)
    BY <1>1, <1>2
  <2> HIDE DEF X1, X2, C1, C2
  <2>3. SameConcat(X1, C1, X2, C2)
    BY <2>1, <2>2 DEF SameConcat
  <2> QED BY <2>3, ConcatParts
<1>7. F1 = F2
  <2> HIDE DEF F1, F2
  <2> QED BY <1>1, <1>2, <1>5, <1>6, ConcatInj
<1>8. s1 = s2
  BY <1>4, <1>7, FieldsInjective
<1>9. R1 = R2
  <2>1. /\ DOMAIN R1 = DOMAIN R2
        /\ R1 = [a \in DOMAIN R1 |-> R1[a]] /\ R2 = [a \in DOMAIN R2 |-> R2[a]]
    BY <1>4 DEF CommitmentList
  <2>2. \A a \in DOMAIN R1 : R1[a] = R2[a]
    <3> TAKE a \in DOMAIN R1
    <3>1. C1[a][2] = R1[a] /\ C2[a][2] = R2[a]
      BY <2>1 DEF CommitFrames
    <3> QED BY <3>1, <1>6
  <2> QED BY <2>1, <2>2
<1> QED BY <1>8, <1>9

\* Every challenge was drawn on some transcript for some statement.
Drawn(d) ==
    /\ d.st \in Statements
    /\ CommitmentList(d.R, Rows(d.st.kind))
    /\ \E t : IsSeq(t) /\ d.in = Input(t, d.st, d.R)

DrawnInv == \A d \in drawn : Drawn(d)

LEMMA DrawnBinds == DrawnInv => ChallengeBindsStatement
<1> SUFFICES ASSUME DrawnInv, NEW d1 \in drawn, NEW d2 \in drawn, d1.in = d2.in
             PROVE  d1.st = d2.st /\ d1.R = d2.R
  BY DEF ChallengeBindsStatement
<1>1. Drawn(d1) /\ Drawn(d2)
  BY DEF DrawnInv
<1>2. PICK t1 : IsSeq(t1) /\ d1.in = Input(t1, d1.st, d1.R)
  BY <1>1 DEF Drawn
<1>3. PICK t2 : IsSeq(t2) /\ d2.in = Input(t2, d2.st, d2.R)
  BY <1>1 DEF Drawn
<1>4. Input(t1, d1.st, d1.R) = Input(t2, d2.st, d2.R)
  BY <1>2, <1>3
<1> QED BY <1>1, <1>2, <1>3, <1>4, InputInjective DEF Drawn

LEMMA DrawnProve ==
    ASSUME SessInv, DrawnInv, NEW c \in Contexts, NEW x \in Instances,
           NEW k \in NonceVectors(x.st), NEW e \in Challenges, Prove(c, x, k, e)
    PROVE  DrawnInv'
<1> DEFINE R == Commit(Matrix(x.st), k)
           in == Input(ptr[c], x.st, R)
           d == [in |-> in, st |-> x.st, R |-> R]
<1>1. drawn' = drawn \cup {d}
  BY DEF Prove, Input
<1>2. d.in = in /\ d.st = x.st /\ d.R = R
  OBVIOUS
<1>3. x.st \in Statements
  BY StatementAssumption
<1>4. DOMAIN R = 1..Rows(x.st.kind) /\ R = [a \in DOMAIN R |-> R[a]]
  BY <1>3, MatrixRows DEF Commit
<1>5. IsSeq(ptr[c])
  BY DEF SessInv, ProverOK
<1> HIDE DEF d, R
<1>6. Drawn(d)
  BY <1>2, <1>3, <1>4, <1>5 DEF Drawn, CommitmentList
<1> QED BY <1>1, <1>6 DEF DrawnInv

LEMMA DrawnVerify ==
    ASSUME SessInv, DrawnInv, NEW v \in Contexts, NEW m \in net, NEW st \in Checked(m),
           NEW e \in Challenges, Verify(v, m, st, e)
    PROVE  DrawnInv'
<1> DEFINE in == Input(vtr[v], st, m.R)
           d == [in |-> in, st |-> st, R |-> m.R]
<1>1. drawn' = drawn \cup {d}
  BY DEF Verify, Input
<1>2. d.in = in /\ d.st = st /\ d.R = m.R
  OBVIOUS
<1>3. Proof(oracle, net, m)
  BY DEF SessInv
<1>4. st \in Statements /\ Rows(st.kind) = Rows(m.st.kind)
  BY <1>3, CheckedLayout DEF Proof
<1>5. DOMAIN m.R = 1..Rows(st.kind)
  BY <1>3, <1>4 DEF Proof
<1>6. m.R = [a \in DOMAIN m.R |-> m.R[a]]
  <2>1. PICK x \in Instances : \E k \in NonceVectors(x.st) : m.R = Commit(Matrix(x.st), k)
    BY <1>3 DEF Proof, Honest
  <2> QED BY <2>1 DEF Commit
<1>7. IsSeq(vtr[v])
  BY DEF SessInv, VerifierOK
<1> HIDE DEF d
<1>8. Drawn(d)
  BY <1>2, <1>4, <1>5, <1>6, <1>7 DEF Drawn, CommitmentList
<1> QED BY <1>1, <1>8 DEF DrawnInv

LEMMA DrawnStep == SessInv /\ DrawnInv /\ [Next]_vars => DrawnInv'
<1> SUFFICES ASSUME SessInv, DrawnInv, [Next]_vars PROVE DrawnInv'
  OBVIOUS
<1>1. ASSUME drawn' = drawn PROVE DrawnInv'
  BY <1>1 DEF DrawnInv
<1>2. ASSUME NEW c \in Contexts, ProveFails(c) \/ ProverResets(c) \/ VerifierResets(c)
      PROVE  DrawnInv'
  BY <1>1, <1>2 DEF ProveFails, ProverResets, VerifierResets
<1>3. ASSUME NEW v \in Contexts, NEW m \in net, NEW st \in Checked(m), VerifyRejectsInput(v, m, st)
      PROVE  DrawnInv'
  BY <1>1, <1>3 DEF VerifyRejectsInput
<1>4. CASE UNCHANGED vars
  BY <1>1, <1>4 DEF vars
<1>5. CASE Next
  BY <1>5, <1>2, <1>3, DrawnProve, DrawnVerify DEF Next
<1> QED BY <1>4, <1>5

-----------------------------------------------------------------------------
(* Theorems *)

\* Transcripts, histories and the oracle stay consistent: every transcript is
\* the one its history of proofs leads to.
THEOREM SessionInvariant == Spec => []SessInv
BY SessInit, SessStep, PTL DEF Spec

LEMMA VerdictHolds == Spec => [](SessInv /\ VerdictInv)
<1>1. Init => VerdictInv
  BY DEF Init, VerdictInv, InOrderProofsAccepted, AcceptedOnlyOnItsTranscript
<1> QED BY <1>1, SessInit, SessStep, VerdictStep, PTL DEF Spec

\* SessionTypeOK: transcripts exist for every context, the oracle answers with
\* challenges, proofs are of the six kinds and verdicts are about proofs sent.
THEOREM SessionTypes == Spec => []SessionTypeOK
<1>1. SessInv /\ VerdictInv => SessionTypeOK
  <2> SUFFICES ASSUME SessInv, VerdictInv PROVE SessionTypeOK
    OBVIOUS
  <2>1. \A m \in net : m.st.kind \in Kinds /\ m.ctx \in Contexts
    BY StatementKind DEF SessInv, Proof
  <2> QED BY <2>1 DEF SessInv, VerdictInv, SessionTypeOK, OracleOK
<1> QED BY <1>1, VerdictHolds, PTL

\* TranscriptsInSync: a verifier that has absorbed the prover's proofs has the
\* prover's transcript, after any failures, resets and misdeliveries.
THEOREM TranscriptsStayInSync == Spec => []TranscriptsInSync
<1>1. SessInv => TranscriptsInSync
  BY HistoryDetermines DEF SessInv, ProverOK, TranscriptsInSync
<1> QED BY <1>1, SessionInvariant, PTL

\* InOrderProofsAccepted: completeness of all six Prove/Verify pairs on shared
\* transcripts.
THEOREM HonestProofsAccepted == Spec => []InOrderProofsAccepted
<1>1. VerdictInv => InOrderProofsAccepted
  BY DEF VerdictInv
<1> QED BY <1>1, VerdictHolds, PTL

\* AcceptedOnlyOnItsTranscript: no Verify function accepts a proof for its
\* statement on any transcript but the one it was made on.
THEOREM ReplaysRefused == Spec => []AcceptedOnlyOnItsTranscript
<1>1. VerdictInv => AcceptedOnlyOnItsTranscript
  BY DEF VerdictInv
<1> QED BY <1>1, VerdictHolds, PTL

\* ChallengeBindsStatement: what ChallengeScalar hashes determines kind,
\* statement and commitments.
THEOREM ChallengesBind == Spec => []ChallengeBindsStatement
<1>1. Init => DrawnInv
  BY DEF Init, DrawnInv
<1>2. Spec => [](SessInv /\ DrawnInv)
  BY <1>1, SessInit, SessStep, DrawnStep, PTL DEF Spec
<1> QED BY <1>2, DrawnBinds, PTL
==============================================================================
