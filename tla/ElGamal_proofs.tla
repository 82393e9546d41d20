--------------------------- MODULE ElGamal_proofs ---------------------------
(***************************************************************************)
(* The homomorphism and the exactness of Decrypt, for every prime group    *)
(* order, every set of keys and amounts and every sequence of calls.       *)
(***************************************************************************)
EXTENDS ElGamal, BN254_proofs

EGInv == TypeOK /\ KeyPairs /\ Homomorphic

-----------------------------------------------------------------------------
(* Arithmetic of ciphertexts *)

\* k*G is k.
LEMMA SMulG == \A k \in 0..(q-1) : ScalarMul(k, G) = k
<1> SUFFICES ASSUME NEW k \in 0..(q-1) PROVE ScalarMul(k, G) = k
  OBVIOUS
<1>1. k * 1 = k
  BY QAssumption
<1> QED BY <1>1, ModSmall DEF ScalarMul, G

\* What EncryptWithRandomness computes under pk = x*G.
LEMMA EncryptChar ==
    ASSUME NEW v \in Nat, NEW x \in Scalar, NEW r \in Scalar
    PROVE  EncryptPoints(v, x, r) = [C1 |-> r, C2 |-> (v + r * x) % q]
<1>1. v * 1 = v /\ v \in Int /\ r * x \in Int
  BY QAssumption DEF Scalar
<1>2. ((v % q) + ((r * x) % q)) % q = (v + r * x) % q
  BY <1>1, ModAdd2
<1>3. ScalarMul(r, G) = r
  BY SMulG DEF Scalar
<1> QED BY <1>1, <1>2, <1>3 DEF EncryptPoints, PAdd, ScalarMul, G

\* The sum of two ciphertexts under one key.
LEMMA AddChar ==
    ASSUME NEW u \in Int, NEW v \in Int, NEW r \in Scalar, NEW t \in Scalar, NEW x \in Scalar
    PROVE  PAdd((u + r * x) % q, (v + t * x) % q) = ((u + v) + FAdd(r, t) * x) % q
<1>1. r \in Int /\ t \in Int /\ x \in Int /\ r * x \in Int /\ t * x \in Int /\ r + t \in Int
  BY QAssumption DEF Scalar
<1>2. PAdd((u + r * x) % q, (v + t * x) % q) = ((u + r * x) + (v + t * x)) % q
  BY <1>1, ModAdd2 DEF PAdd
<1>3. (u + r * x) + (v + t * x) = (u + v) + (r + t) * x
  BY <1>1
<1>4. ((u + v) + FAdd(r, t) * x) % q = ((u + v) + (r + t) * x) % q
  BY <1>1, ModLin DEF FAdd
<1> QED BY <1>2, <1>3, <1>4

\* The difference.
LEMMA SubChar ==
    ASSUME NEW u \in Int, NEW v \in Int, NEW r \in Scalar, NEW t \in Scalar, NEW x \in Scalar
    PROVE  /\ PAdd((u + r * x) % q, PNeg((v + t * x) % q)) = ((u - v) + FSub(r, t) * x) % q
           /\ PAdd(r, PNeg(t)) = FSub(r, t)
<1>1. r \in Int /\ t \in Int /\ x \in Int /\ r * x \in Int /\ t * x \in Int /\ r - t \in Int
  BY QAssumption DEF Scalar
<1> DEFINE y == v + t * x
<1>2. y \in Int /\ -y \in Int /\ -t \in Int
  BY <1>1
<1>3. PNeg(y % q) = (-y) % q
  BY <1>2, ModNeg DEF PNeg
<1>4. PAdd((u + r * x) % q, (-y) % q) = ((u + r * x) + (-y)) % q
  BY <1>1, <1>2, ModAdd2 DEF PAdd
<1>5. (u + r * x) + (-y) = (u - v) + (r - t) * x
  BY <1>1
<1>6. ((u - v) + FSub(r, t) * x) % q = ((u - v) + (r - t) * x) % q
  BY <1>1, ModLin DEF FSub
<1>7. PAdd(r, PNeg(t)) = FSub(r, t)
  <2>1. (((-t) % q) + r) % q = ((-t) + r) % q
    BY <1>1, <1>2, ModAdd
  <2>2. (-t) % q \in Int
    BY <1>2, ModType
  <2>3. r + ((-t) % q) = ((-t) % q) + r /\ (-t) + r = r - t
    BY <1>1, <2>2
  <2> QED BY <2>1, <2>3 DEF PAdd, PNeg, FSub
<1> QED BY <1>3, <1>4, <1>5, <1>6, <1>7

\* Decrypting with y what was encrypted with x leaves v + r*(x - y).
LEMMA DecryptChar ==
    ASSUME NEW v \in Int, NEW r \in Scalar, NEW x \in Scalar, NEW y \in Scalar
    PROVE  DecryptPoint([C1 |-> r, C2 |-> (v + r * x) % q], y) = (v + r * (x - y)) % q
<1>1. r \in Int /\ x \in Int /\ y \in Int /\ v + r * x \in Int /\ y * r \in Int
      /\ -(y * r) \in Int
  BY QAssumption DEF Scalar
<1>2. PNeg((y * r) % q) = (-(y * r)) % q
  BY <1>1, ModNeg DEF PNeg
<1>3. PAdd((v + r * x) % q, (-(y * r)) % q) = ((v + r * x) + (-(y * r))) % q
  BY <1>1, ModAdd2 DEF PAdd
<1>4. (v + r * x) + (-(y * r)) = v + r * (x - y)
  BY <1>1
<1> QED BY <1>2, <1>3, <1>4 DEF DecryptPoint, ScalarMul

\* Under the wrap bound, congruence to a balance inside the cap is equality.
LEMMA SmallLogs ==
    ASSUME NEW v \in 0..(Range-1), NEW b \in Int, InCap(b), ScalarMul(v, G) = b % q
    PROVE  v = b
<1>1. v \in Int /\ v * 1 = v /\ v - b \in Int
  BY ElGamalAssumption
<1>2. v % q = b % q
  BY <1>1 DEF ScalarMul, G
<1>3. (v - b) % q = 0
  BY <1>1, <1>2, ModDiff
<1>4. v - b < q /\ b - v < q
  BY <1>1, NoGroupWrap, ElGamalAssumption, QAssumption DEF InCap
<1>5. CASE v >= b
  <2>1. v - b \in 0..(q-1)
    BY <1>1, <1>4, <1>5, QAssumption
  <2> QED BY <2>1, <1>1, <1>3, ModSmall
<1>6. CASE v < b
  <2>1. b - v \in 0..(q-1) /\ b - v \in Int
    BY <1>1, <1>4, <1>6, QAssumption
  <2>2. (b - v) % q = 0
    BY <1>1, <1>2, ModDiff
  <2> QED BY <2>1, <2>2, <1>1, ModSmall
<1> QED BY <1>1, <1>5, <1>6

-----------------------------------------------------------------------------
(* The inductive invariant *)

LEMMA EGInit == Init => EGInv
<1> SUFFICES ASSUME Init PROVE EGInv
  OBVIOUS
<1>1. 0 \in Scalar /\ Identity \in Point /\ Identity = 0
  BY QAssumption DEF Scalar, Point, Identity
<1>2. TypeOK
  BY <1>1 DEF Init, TypeOK, ZeroCiphertext, Statuses
<1>3. KeyPairs
  <2>1. ScalarMul(0, G) = 0
    BY <1>1, SMulG DEF Scalar
  <2> QED BY <1>1, <2>1, ElGamalAssumption DEF Init, KeyPairs
<1>4. Homomorphic
  BY ElGamalAssumption DEF Init, Homomorphic, InCap
<1> QED BY <1>2, <1>3, <1>4 DEF EGInv

\* A ciphertext of key k, or of anyone, has the same form under sk[k].
LEMMA UnderKey ==
    ASSUME EGInv, NEW s \in Slots, NEW k \in Keys, owner[s] \in {k, Anyone}
    PROVE  cts[s] = [C1 |-> rnd[s], C2 |-> (bal[s] + rnd[s] * sk[k]) % q]
<1>1. cts[s] \in [C1 : Point, C2 : Point] /\ sk[k] \in Scalar /\ rnd[s] \in Scalar
  BY DEF EGInv, TypeOK
<1>2. CASE owner[s] = k
  BY <1>1, <1>2 DEF EGInv, Homomorphic
<1>3. CASE owner[s] = Anyone
  <2>1. bal[s] = 0 /\ rnd[s] = 0 /\ cts[s] = ZeroCiphertext
    BY <1>3 DEF EGInv, Homomorphic
  <2>2. 0 + 0 * sk[k] = 0 /\ 0 \in 0..(q-1)
    BY <1>1, QAssumption DEF Scalar
  <2>3. (0 + 0 * sk[k]) % q = 0
    BY <2>2, ModSmall
  <2> QED BY <2>1, <2>3 DEF ZeroCiphertext, Identity
<1> QED BY <1>2, <1>3

\* A key name with the identity as public key owns no ciphertext.
LEMMA KeyGenInv ==
    ASSUME EGInv, NEW k \in Keys, NEW x \in Rands, KeyGen(k, x) PROVE EGInv'
<1> USE DEF KeyGen, hist
<1>1. x \in Scalar /\ ScalarMul(x, G) = x /\ ScalarMul(x, G) \in Point
  BY ElGamalAssumption, SMulG DEF Scalar, Point
<1>2. sk \in [Keys -> Scalar] /\ pk \in [Keys -> Point]
  BY DEF EGInv, TypeOK
<1>3. sk[k] = 0
  <2>1. pk[k] = ScalarMul(sk[k], G) /\ sk[k] \in 0..(q-1)
    BY <1>2 DEF EGInv, KeyPairs, Scalar
  <2> QED BY <2>1, SMulG DEF Identity
<1>4. \A s \in Slots : owner[s] # k
  BY <1>3 DEF EGInv, KeyPairs
<1>5. TypeOK'
  <2>1. sk' \in [Keys -> Scalar] /\ pk' \in [Keys -> Point]
    BY <1>1, <1>2
  <2>2. calls' \in Nat /\ status' \in Statuses
    BY DEF EGInv, TypeOK, Called, Statuses
  <2> QED BY <2>1, <2>2 DEF EGInv, TypeOK
<1>6. KeyPairs'
  BY <1>1, <1>2, <1>4 DEF EGInv, KeyPairs
<1>7. Homomorphic'
  BY <1>2, <1>4 DEF EGInv, Homomorphic, InCap
<1> QED BY <1>5, <1>6, <1>7 DEF EGInv

\* Storing a ciphertext that has the form its owner and its history say.
LEMMA StoreInv ==
    ASSUME EGInv, NEW s \in Slots, NEW ct \in [C1 : Point, C2 : Point],
           NEW o \in Keys \cup {Anyone, Mixed}, NEW v \in Int, NEW r \in Scalar,
           InCap(v),
           o \in Keys => sk[o] # 0 /\ ct = [C1 |-> r, C2 |-> (v + r * sk[o]) % q],
           o = Anyone => v = 0 /\ r = 0 /\ ct = ZeroCiphertext,
           cts' = [cts EXCEPT ![s] = ct], owner' = [owner EXCEPT ![s] = o],
           bal' = [bal EXCEPT ![s] = v], rnd' = [rnd EXCEPT ![s] = r],
           UNCHANGED <<sk, pk>>, Called("ok")
    PROVE  EGInv'
<1>1. TypeOK'
  <2>1. cts' \in [Slots -> [C1 : Point, C2 : Point]]
    BY DEF EGInv, TypeOK
  <2>2. owner' \in [Slots -> Keys \cup {Anyone, Mixed}]
    BY DEF EGInv, TypeOK
  <2>3. bal' \in [Slots -> Int] /\ rnd' \in [Slots -> Scalar]
    BY DEF EGInv, TypeOK
  <2>4. calls' \in Nat /\ status' \in Statuses
    BY DEF EGInv, TypeOK, Called, Statuses
  <2> QED BY <2>1, <2>2, <2>3, <2>4 DEF EGInv, TypeOK
<1>2. KeyPairs'
  BY DEF EGInv, TypeOK, KeyPairs
<1>3. Homomorphic'
  <2> SUFFICES ASSUME NEW t \in Slots
      PROVE /\ InCap(bal'[t])
            /\ owner'[t] = Anyone => bal'[t] = 0 /\ rnd'[t] = 0 /\ cts'[t] = ZeroCiphertext
            /\ owner'[t] \in Keys =>
                 cts'[t].C1 = rnd'[t] /\ cts'[t].C2 = (bal'[t] + rnd'[t] * sk'[owner'[t]]) % q
    BY DEF Homomorphic, InCap
  <2>1. CASE t = s
    <3>1. owner'[t] = o /\ bal'[t] = v /\ rnd'[t] = r /\ cts'[t] = ct /\ sk' = sk
      BY <2>1 DEF EGInv, TypeOK
    <3> QED BY <3>1
  <2>2. CASE t # s
    <3>1. owner'[t] = owner[t] /\ bal'[t] = bal[t] /\ rnd'[t] = rnd[t] /\ cts'[t] = cts[t]
          /\ sk' = sk
      BY <2>2 DEF EGInv, TypeOK
    <3> QED BY <3>1 DEF EGInv, Homomorphic
  <2> QED BY <2>1, <2>2
<1> QED BY <1>1, <1>2, <1>3 DEF EGInv

LEMMA EncryptInv ==
    ASSUME EGInv, NEW s \in Slots, NEW k \in Keys, NEW v \in Amounts, NEW r \in Rands,
           Encrypt(s, k, v, r)
    PROVE  EGInv'
<1> USE DEF Encrypt
<1>1. v \in Nat /\ v \in Int /\ r \in Scalar /\ InCap(v)
  BY ElGamalAssumption, NoGroupWrap DEF InCap
<1>2. sk[k] \in Scalar /\ pk[k] = sk[k] /\ sk[k] # 0
  <2>1. sk[k] \in Scalar /\ pk[k] = ScalarMul(sk[k], G)
    BY DEF EGInv, TypeOK, KeyPairs
  <2>2. pk[k] = sk[k]
    BY <2>1, SMulG DEF Scalar
  <2> QED BY <2>1, <2>2 DEF ValidatePublicKey, IsInfinity, Identity
<1> DEFINE ct == [C1 |-> r, C2 |-> (v + r * sk[k]) % q]
<1>3. EncryptPoints(v, pk[k], r) = ct
  BY <1>1, <1>2, EncryptChar
<1>4. ct \in [C1 : Point, C2 : Point]
  <2>1. v + r * sk[k] \in Int
    BY <1>1, <1>2, QAssumption DEF Scalar
  <2>2. (v + r * sk[k]) % q \in 0..(q-1)
    BY <2>1, ModType
  <2> QED BY <1>1, <2>2 DEF Scalar, Point
<1>5. cts' = [cts EXCEPT ![s] = ct]
  BY <1>3
<1>6. k # Anyone
  BY ElGamalAssumption
<1>7. k \in Keys => sk[k] # 0 /\ ct = [C1 |-> r, C2 |-> (v + r * sk[k]) % q]
  BY <1>2
<1> HIDE DEF ct
<1> QED BY <1>1, <1>4, <1>5, <1>6, <1>7, StoreInv

\* Types of what Add and Sub store.
LEMMA CombinedTypes ==
    ASSUME EGInv, NEW a \in Slots, NEW b \in Slots
    PROVE  /\ AddPoints(cts[a], cts[b]) \in [C1 : Point, C2 : Point]
           /\ AddPoints(cts[a], NegPoints(cts[b])) \in [C1 : Point, C2 : Point]
           /\ JointOwner(a, b) \in Keys \cup {Anyone, Mixed}
           /\ bal[a] \in Int /\ bal[b] \in Int /\ rnd[a] \in Scalar /\ rnd[b] \in Scalar
           /\ FAdd(rnd[a], rnd[b]) \in Scalar /\ FSub(rnd[a], rnd[b]) \in Scalar
<1>1. /\ bal[a] \in Int /\ bal[b] \in Int /\ rnd[a] \in Scalar /\ rnd[b] \in Scalar
      /\ owner[a] \in Keys \cup {Anyone, Mixed} /\ owner[b] \in Keys \cup {Anyone, Mixed}
      /\ cts[a] \in [C1 : Point, C2 : Point] /\ cts[b] \in [C1 : Point, C2 : Point]
  BY DEF EGInv, TypeOK
<1>2. AddPoints(cts[a], cts[b]) \in [C1 : Point, C2 : Point]
  BY <1>1, AddClosed DEF AddPoints
<1>3. NegPoints(cts[b]) \in [C1 : Point, C2 : Point]
  BY <1>1, NegClosed DEF NegPoints
<1>4. AddPoints(cts[a], NegPoints(cts[b])) \in [C1 : Point, C2 : Point]
  BY <1>1, <1>3, AddClosed DEF AddPoints
<1>5. rnd[a] + rnd[b] \in Int /\ rnd[a] - rnd[b] \in Int
  BY <1>1, QAssumption DEF Scalar
<1>6. FAdd(rnd[a], rnd[b]) \in Scalar /\ FSub(rnd[a], rnd[b]) \in Scalar
  BY <1>5, ModType DEF FAdd, FSub, Scalar
<1>7. JointOwner(a, b) \in Keys \cup {Anyone, Mixed}
  BY <1>1 DEF JointOwner
<1> QED BY <1>1, <1>2, <1>4, <1>6, <1>7

\* A joint owner that is a key is, or may stand for, the owner of both parts,
\* and its secret key is not zero.
LEMMA JointKey ==
    ASSUME EGInv, NEW a \in Slots, NEW b \in Slots
    PROVE  /\ JointOwner(a, b) \in Keys =>
                 /\ owner[a] \in {JointOwner(a, b), Anyone}
                 /\ owner[b] \in {JointOwner(a, b), Anyone}
                 /\ sk[JointOwner(a, b)] # 0
           /\ JointOwner(a, b) = Anyone => owner[a] = Anyone /\ owner[b] = Anyone
BY ElGamalAssumption DEF JointOwner, EGInv, KeyPairs

LEMMA AddInv ==
    ASSUME EGInv, NEW s \in Slots, NEW a \in Slots, NEW b \in Slots, Add(s, a, b)
    PROVE  EGInv'
<1> DEFINE o == JointOwner(a, b)
           ct == AddPoints(cts[a], cts[b])
           v == bal[a] + bal[b]
           r == FAdd(rnd[a], rnd[b])
<1>1. /\ ct \in [C1 : Point, C2 : Point] /\ o \in Keys \cup {Anyone, Mixed}
      /\ v \in Int /\ r \in Scalar
  BY CombinedTypes
<1>2. o \in Keys => sk[o] # 0 /\ ct = [C1 |-> r, C2 |-> (v + r * sk[o]) % q]
  <2> SUFFICES ASSUME o \in Keys
               PROVE  sk[o] # 0 /\ ct = [C1 |-> r, C2 |-> (v + r * sk[o]) % q]
    OBVIOUS
  <2>1. owner[a] \in {o, Anyone} /\ owner[b] \in {o, Anyone} /\ sk[o] # 0
    BY JointKey
  <2>2. /\ cts[a] = [C1 |-> rnd[a], C2 |-> (bal[a] + rnd[a] * sk[o]) % q]
        /\ cts[b] = [C1 |-> rnd[b], C2 |-> (bal[b] + rnd[b] * sk[o]) % q]
    BY <2>1, UnderKey
  <2>3. /\ sk[o] \in Scalar /\ bal[a] \in Int /\ bal[b] \in Int
        /\ rnd[a] \in Scalar /\ rnd[b] \in Scalar
    BY CombinedTypes DEF EGInv, TypeOK
  <2>4. PAdd((bal[a] + rnd[a] * sk[o]) % q, (bal[b] + rnd[b] * sk[o]) % q)
           = (v + r * sk[o]) % q
    BY <2>3, AddChar
  <2>5. PAdd(rnd[a], rnd[b]) = r
    BY DEF PAdd, FAdd
  <2> QED BY <2>1, <2>2, <2>4, <2>5 DEF AddPoints
<1>3. o = Anyone => v = 0 /\ r = 0 /\ ct = ZeroCiphertext
  <2> SUFFICES ASSUME o = Anyone PROVE v = 0 /\ r = 0 /\ ct = ZeroCiphertext
    OBVIOUS
  <2>1. /\ bal[a] = 0 /\ rnd[a] = 0 /\ cts[a] = ZeroCiphertext
        /\ bal[b] = 0 /\ rnd[b] = 0 /\ cts[b] = ZeroCiphertext
    BY JointKey DEF EGInv, Homomorphic
  <2>2. (0 + 0) % q = 0
    BY QAssumption, ModSmall
  <2> QED BY <2>1, <2>2 DEF AddPoints, PAdd, FAdd, ZeroCiphertext, Identity
<1>4. /\ cts' = [cts EXCEPT ![s] = ct] /\ owner' = [owner EXCEPT ![s] = o]
      /\ bal' = [bal EXCEPT ![s] = v] /\ rnd' = [rnd EXCEPT ![s] = r]
      /\ InCap(v) /\ UNCHANGED <<sk, pk>> /\ Called("ok")
  BY DEF Add
<1> HIDE DEF o, ct, v, r
<1> QED BY <1>1, <1>2, <1>3, <1>4, StoreInv

LEMMA SubInv ==
    ASSUME EGInv, NEW s \in Slots, NEW a \in Slots, NEW b \in Slots, Sub(s, a, b)
    PROVE  EGInv'
<1> DEFINE o == JointOwner(a, b)
           ct == AddPoints(cts[a], NegPoints(cts[b]))
           v == bal[a] - bal[b]
           r == FSub(rnd[a], rnd[b])
<1>1. /\ ct \in [C1 : Point, C2 : Point] /\ o \in Keys \cup {Anyone, Mixed}
      /\ v \in Int /\ r \in Scalar
  BY CombinedTypes
<1>2. o \in Keys => sk[o] # 0 /\ ct = [C1 |-> r, C2 |-> (v + r * sk[o]) % q]
  <2> SUFFICES ASSUME o \in Keys
               PROVE  sk[o] # 0 /\ ct = [C1 |-> r, C2 |-> (v + r * sk[o]) % q]
    OBVIOUS
  <2>1. owner[a] \in {o, Anyone} /\ owner[b] \in {o, Anyone} /\ sk[o] # 0
    BY JointKey
  <2>2. /\ cts[a] = [C1 |-> rnd[a], C2 |-> (bal[a] + rnd[a] * sk[o]) % q]
        /\ cts[b] = [C1 |-> rnd[b], C2 |-> (bal[b] + rnd[b] * sk[o]) % q]
    BY <2>1, UnderKey
  <2>3. /\ sk[o] \in Scalar /\ bal[a] \in Int /\ bal[b] \in Int
        /\ rnd[a] \in Scalar /\ rnd[b] \in Scalar
    BY CombinedTypes DEF EGInv, TypeOK
  <2>4. /\ PAdd((bal[a] + rnd[a] * sk[o]) % q, PNeg((bal[b] + rnd[b] * sk[o]) % q))
              = (v + r * sk[o]) % q
        /\ PAdd(rnd[a], PNeg(rnd[b])) = r
    BY <2>3, SubChar
  <2> QED BY <2>1, <2>2, <2>4 DEF AddPoints, NegPoints
<1>3. o = Anyone => v = 0 /\ r = 0 /\ ct = ZeroCiphertext
  <2> SUFFICES ASSUME o = Anyone PROVE v = 0 /\ r = 0 /\ ct = ZeroCiphertext
    OBVIOUS
  <2>1. /\ bal[a] = 0 /\ rnd[a] = 0 /\ cts[a] = ZeroCiphertext
        /\ bal[b] = 0 /\ rnd[b] = 0 /\ cts[b] = ZeroCiphertext
    BY JointKey DEF EGInv, Homomorphic
  <2>2. (0 + 0) % q = 0 /\ (0 - 0) % q = 0 /\ (-0) % q = 0
    BY QAssumption, ModSmall
  <2> QED BY <2>1, <2>2 DEF AddPoints, NegPoints, PAdd, PNeg, FSub, ZeroCiphertext, Identity
<1>4. /\ cts' = [cts EXCEPT ![s] = ct] /\ owner' = [owner EXCEPT ![s] = o]
      /\ bal' = [bal EXCEPT ![s] = v] /\ rnd' = [rnd EXCEPT ![s] = r]
      /\ InCap(v) /\ UNCHANGED <<sk, pk>> /\ Called("ok")
  BY DEF Sub
<1> HIDE DEF o, ct, v, r
<1> QED BY <1>1, <1>2, <1>3, <1>4, StoreInv

\* The calls that only report something.
Reports(outcome) == Called(outcome) /\ UNCHANGED <<sk, pk, cts, hist>>

LEMMA ReportInv ==
    ASSUME EGInv, NEW outcome \in Statuses, Reports(outcome)
    PROVE  EGInv'
<1>1. calls' \in Nat /\ status' \in Statuses
  BY DEF EGInv, TypeOK, Reports, Called
<1>2. UNCHANGED <<sk, pk, cts, owner, bal, rnd>>
  BY DEF Reports, hist
<1>3. TypeOK'
  BY <1>1, <1>2 DEF EGInv, TypeOK
<1>4. KeyPairs' /\ Homomorphic'
  BY <1>2 DEF EGInv, KeyPairs, Homomorphic, InCap
<1> QED BY <1>3, <1>4 DEF EGInv

LEMMA EGStep == EGInv /\ [Next]_egVars => EGInv'
<1> SUFFICES ASSUME EGInv, [Next]_egVars PROVE EGInv'
  OBVIOUS
<1>1. ASSUME NEW k \in Keys, NEW x \in Rands, KeyGen(k, x) PROVE EGInv'
  BY <1>1, KeyGenInv
<1>2. ASSUME NEW s \in Slots, NEW k \in Keys, NEW v \in Amounts, NEW r \in Rands,
             Encrypt(s, k, v, r)
      PROVE  EGInv'
  BY <1>2, EncryptInv
<1>3. ASSUME NEW s \in Slots, NEW a \in Slots, NEW b \in Slots, Add(s, a, b) PROVE EGInv'
  BY <1>3, AddInv
<1>4. ASSUME NEW s \in Slots, NEW a \in Slots, NEW b \in Slots, Sub(s, a, b) PROVE EGInv'
  BY <1>4, SubInv
<1>5. CASE KeyGenFails
  <2>1. Reports("rngError") /\ "rngError" \in Statuses
    BY <1>5 DEF KeyGenFails, Reports, Statuses
  <2> QED BY <2>1, ReportInv
<1>6. ASSUME NEW P, EncryptBadKey(P) PROVE EGInv'
  <2>1. Reports("badPublicKey") /\ "badPublicKey" \in Statuses
    BY <1>6 DEF EncryptBadKey, Reports, Statuses
  <2> QED BY <2>1, ReportInv
<1>7. ASSUME NEW k \in Keys, EncryptRngFails(k) PROVE EGInv'
  <2>1. Reports("rngError") /\ "rngError" \in Statuses
    BY <1>7 DEF EncryptRngFails, Reports, Statuses
  <2> QED BY <2>1, ReportInv
<1>8. ASSUME NEW k \in Keys, EncryptNilRandomness(k) PROVE EGInv'
  <2>1. Reports("nilArgument") /\ "nilArgument" \in Statuses
    BY <1>8 DEF EncryptNilRandomness, Reports, Statuses
  <2> QED BY <2>1, ReportInv
<1>9. CASE NilCiphertextPanics
  <2>1. Reports("panicked") /\ "panicked" \in Statuses
    BY <1>9 DEF NilCiphertextPanics, Reports, Statuses
  <2> QED BY <2>1, ReportInv
<1>10. CASE DecryptNilArgument
  <2>1. Reports("nilArgument") /\ "nilArgument" \in Statuses
    BY <1>10 DEF DecryptNilArgument, Reports, Statuses
  <2> QED BY <2>1, ReportInv
<1>11. ASSUME NEW s \in Slots, NEW k \in Keys, Decrypt(s, k) PROVE EGInv'
  <2>1. Reports("ok") /\ "ok" \in Statuses
    BY <1>11 DEF Decrypt, Reports, Statuses
  <2> QED BY <2>1, ReportInv
<1>12. CASE UNCHANGED egVars
  <2>1. UNCHANGED <<sk, pk, cts, owner, bal, rnd, calls, status>>
    BY <1>12 DEF egVars
  <2>2. TypeOK'
    BY <2>1 DEF EGInv, TypeOK
  <2>3. KeyPairs' /\ Homomorphic'
    BY <2>1 DEF EGInv, KeyPairs, Homomorphic, InCap
  <2> QED BY <2>2, <2>3 DEF EGInv
<1> QED BY <1>1, <1>2, <1>3, <1>4, <1>5, <1>6, <1>7, <1>8, <1>9, <1>10, <1>11, <1>12 DEF Next

\* The inductive invariant: types, key pairs and the form of ciphertexts hold
\* after every sequence of calls of elgamal.go.
THEOREM ElGamalInvariant == Spec => []EGInv
BY EGInit, EGStep, PTL DEF Spec

\* Over every sequence of KeyGen, Encrypt, Add and Sub, a ciphertext under one
\* key is r*G, v*G + r*pk for the sums r and v of what went into it.
THEOREM HomomorphismHolds == Spec => []Homomorphic
<1>1. EGInv => Homomorphic
  BY DEF EGInv
<1> QED BY <1>1, ElGamalInvariant, PTL

\* Public keys match secret keys, and nothing is encrypted under a zero key.
THEOREM KeyPairsHold == Spec => []KeyPairs
<1>1. EGInv => KeyPairs
  BY DEF EGInv
<1> QED BY <1>1, ElGamalInvariant, PTL

-----------------------------------------------------------------------------
(* Decrypt *)

\* v*G for an integer v.
LEMMA IntSMulG == \A v \in Int : ScalarMul(v, G) = v % q
<1> SUFFICES ASSUME NEW v \in Int PROVE ScalarMul(v, G) = v % q
  OBVIOUS
<1>1. v * 1 = v
  OBVIOUS
<1> QED BY <1>1 DEF ScalarMul, G

\* What a solver that covers [0, Range) may answer about the balance b.
ExactAnswer(b) == IF b \in 0..(Range-1) THEN Solved(b) ELSE NoAnswer

\* Asked about b*G, for a balance b inside the cap, the solver is exact.
LEMMA SolverExact ==
    ASSUME NEW b \in Int, InCap(b), NEW a \in Answers(G, Range, b % q)
    PROVE  a = ExactAnswer(b)
<1> DEFINE logs == {v \in 0..(Range-1) : ScalarMul(v, G) = b % q}
<1>1. a \in IF logs = {} THEN {NoAnswer} ELSE {Solved(v) : v \in logs}
  BY DEF Answers
<1>2. ASSUME NEW v \in logs PROVE v = b
  BY <1>2, SmallLogs
<1>3. b \in 0..(Range-1) => b \in logs
  BY IntSMulG
<1> HIDE DEF logs
<1>4. CASE b \in 0..(Range-1)
  <2>1. PICK v \in logs : a = Solved(v)
    BY <1>1, <1>3, <1>4
  <2> QED BY <2>1, <1>2, <1>4 DEF ExactAnswer
<1>5. CASE b \notin 0..(Range-1)
  <2>1. logs = {}
    <3>1. ASSUME NEW v \in logs PROVE FALSE
      <4>1. v = b
        BY <1>2
      <4>2. v \in 0..(Range-1)
        BY DEF logs
      <4> QED BY <4>1, <4>2, <1>5
    <3> QED BY <3>1
  <2> QED BY <2>1, <1>1, <1>5 DEF ExactAnswer
<1> QED BY <1>4, <1>5

\* With the owner's key the solver is asked about v*G for the balance v.
LEMMA OwnerAnswer ==
    ASSUME EGInv, NEW s \in Slots, NEW k \in Keys, owner[s] \in {k, Anyone},
           NEW a \in Answers(G, Range, DecryptPoint(cts[s], sk[k]))
    PROVE  a = ExactAnswer(bal[s])
<1>1. bal[s] \in Int /\ rnd[s] \in Scalar /\ sk[k] \in Scalar /\ InCap(bal[s])
  BY DEF EGInv, TypeOK, Homomorphic
<1>2. DecryptPoint(cts[s], sk[k]) = (bal[s] + rnd[s] * (sk[k] - sk[k])) % q
  <2>1. cts[s] = [C1 |-> rnd[s], C2 |-> (bal[s] + rnd[s] * sk[k]) % q]
    BY UnderKey
  <2>2. DecryptPoint([C1 |-> rnd[s], C2 |-> (bal[s] + rnd[s] * sk[k]) % q], sk[k])
           = (bal[s] + rnd[s] * (sk[k] - sk[k])) % q
    BY <1>1, DecryptChar
  <2> QED BY <2>1, <2>2, Zenon
<1>3. bal[s] + rnd[s] * (sk[k] - sk[k]) = bal[s]
  BY <1>1, QAssumption DEF Scalar
<1> QED BY <1>1, <1>2, <1>3, SolverExact

\* Validate refuses a pair of points for one reason only.
LEMMA RefusedC1 ==
    ASSUME NEW ct \in [C1 : Point, C2 : Point], ~Validate(ct)
    PROVE  ct.C1 = Identity
BY BadPoints DEF Validate, IsOnCurve, IsInfinity

\* Without randomness every key asks the solver about v*G.
LEMMA RefusedAnswer ==
    ASSUME EGInv, NEW s \in Slots, NEW k \in Keys, owner[s] # Mixed, ~Validate(cts[s]),
           NEW a \in Answers(G, Range, DecryptPoint(cts[s], sk[k]))
    PROVE  a = ExactAnswer(bal[s])
<1>1. CASE owner[s] = Anyone
  BY <1>1, OwnerAnswer
<1>2. CASE owner[s] \in Keys
  <2> DEFINE b == bal[s]
             x == sk[owner[s]]
             y == sk[k]
  <2>1. b \in Int /\ InCap(b) /\ x \in Scalar /\ y \in Scalar /\ 0 \in Scalar
    BY <1>2, QAssumption DEF EGInv, TypeOK, Homomorphic, Scalar
  <2>2. cts[s] = [C1 |-> rnd[s], C2 |-> (b + rnd[s] * x) % q]
    BY <1>2, UnderKey
  <2>3. rnd[s] = 0
    BY <2>2, RefusedC1 DEF EGInv, TypeOK, Identity
  <2> HIDE DEF b, x, y
  <2>4. DecryptPoint([C1 |-> 0, C2 |-> (b + 0 * x) % q], y) = (b + 0 * (x - y)) % q
    BY <2>1, DecryptChar
  <2>5. b + 0 * (x - y) = b
    BY <2>1, QAssumption DEF Scalar
  <2>6. DecryptPoint(cts[s], y) = b % q
    BY <2>2, <2>3, <2>4, <2>5, Zenon
  <2>7. a \in Answers(G, Range, b % q)
    BY <2>6 DEF y
  <2>8. a = ExactAnswer(b)
    BY <2>1, <2>7, SolverExact
  <2> QED BY <2>8 DEF b
<1> QED BY <1>1, <1>2 DEF EGInv, TypeOK

\* With another key the point is off by r*(x - y)*G, which is not the identity.
LEMMA ForeignAnswer ==
    ASSUME EGInv, NEW s \in Slots, NEW k \in Keys, owner[s] \in Keys,
           sk[k] # sk[owner[s]], Validate(cts[s]),
           NEW a \in Answers(G, Range, DecryptPoint(cts[s], sk[k]))
    PROVE  a # Solved(bal[s])
<1> DEFINE b == bal[s]
           r == rnd[s]
           x == sk[owner[s]]
           y == sk[k]
<1>1. b \in Int /\ r \in Scalar /\ x \in Scalar /\ y \in Scalar
  BY DEF EGInv, TypeOK
<1>2. cts[s] = [C1 |-> r, C2 |-> (b + r * x) % q]
  BY UnderKey
<1>3. r # 0
  BY <1>2 DEF Validate, IsInfinity, Identity
<1>4. DecryptPoint(cts[s], y) = (b + r * (x - y)) % q
  <2> HIDE DEF b, r, x, y
  <2>1. DecryptPoint([C1 |-> r, C2 |-> (b + r * x) % q], y) = (b + r * (x - y)) % q
    BY <1>1, DecryptChar
  <2> QED BY <1>2, <2>1, Zenon
<1> SUFFICES ASSUME a = Solved(b) PROVE FALSE
  OBVIOUS
<1>5. ScalarMul(b, G) = (b + r * (x - y)) % q
  <2>1. PICK v \in 0..(Range-1) : a = Solved(v) /\ ScalarMul(v, G) = (b + r * (x - y)) % q
    BY <1>4 DEF Answers, Solved, NoAnswer
  <2>2. v = b
    BY <2>1 DEF Solved
  <2> QED BY <2>1, <2>2
<1>6. b % q = (b + r * (x - y)) % q
  BY <1>1, <1>5, IntSMulG
<1>7. r \in Int /\ x - y \in Int /\ b + r * (x - y) \in Int
  BY <1>1, QAssumption DEF Scalar
<1>8. ((b + r * (x - y)) - b) % q = 0
  BY <1>1, <1>6, <1>7, ModDiff
<1>9. (b + r * (x - y)) - b = r * (x - y)
  BY <1>1, <1>7
<1>10. (r * (x - y)) % q = 0
  BY <1>8, <1>9
<1> HIDE DEF b, r, x, y
<1>11. x # y
  BY DEF x, y
<1>12. r % q = r /\ x % q = x /\ y % q = y /\ x \in Int /\ y \in Int
  BY <1>1, ModSmall, QAssumption DEF Scalar
<1>13. (x - y) % q # 0
  BY <1>11, <1>12, ModDiff
<1> QED BY <1>3, <1>7, <1>10, <1>12, <1>13, ModZeroDivisors

\* What Decrypt reported is right: the inductive invariant of dec.
Reported == DecryptExact /\ ForeignKeyLearnsNothing /\ RefusedIsPubliclyReadable
DecInv == EGInv /\ Reported

LEMMA DecStep == DecInv /\ [Next]_egVars => DecInv'
<1> SUFFICES ASSUME DecInv, [Next]_egVars PROVE DecInv'
  OBVIOUS
<1>1. EGInv /\ EGInv'
  BY EGStep DEF DecInv
<1>2. ASSUME NEW s \in Slots, NEW k \in Keys, Decrypt(s, k)
      PROVE  Reported'
  <2>1. PICK a \in Answers(G, Range, DecryptPoint(cts[s], sk[k])) :
           dec' = {[slot |-> s, key |-> k, res |-> a]}
    BY <1>2 DEF Decrypt
  <2>2. UNCHANGED <<sk, cts, owner, bal>>
    BY <1>2 DEF Decrypt, hist
  <2>3. owner[s] \in {k, Anyone} => a = ExactAnswer(bal[s])
    BY <1>1, OwnerAnswer
  <2>4. owner[s] \in Keys /\ sk[k] # sk[owner[s]] /\ Validate(cts[s]) => a # Solved(bal[s])
    BY <1>1, ForeignAnswer
  <2>5. owner[s] # Mixed /\ ~Validate(cts[s]) => a = ExactAnswer(bal[s])
    BY <1>1, RefusedAnswer
  <2>6. DecryptExact'
    BY <2>1, <2>2, <2>3 DEF DecryptExact, ExactAnswer
  <2>7. ForeignKeyLearnsNothing'
    BY <2>1, <2>2, <2>4 DEF ForeignKeyLearnsNothing
  <2>8. RefusedIsPubliclyReadable'
    BY <2>1, <2>2, <2>5 DEF RefusedIsPubliclyReadable, ExactAnswer
  <2> QED BY <2>6, <2>7, <2>8 DEF Reported
<1>3. UNCHANGED egVars => Reported'
  BY DEF DecInv, Reported, DecryptExact, ForeignKeyLearnsNothing,
         RefusedIsPubliclyReadable, egVars
<1>4. dec' = {} => Reported'
  BY DEF Reported, DecryptExact, ForeignKeyLearnsNothing, RefusedIsPubliclyReadable
<1>5. dec' = {} \/ UNCHANGED egVars \/ (\E s \in Slots, k \in Keys : Decrypt(s, k))
  BY DEF Next, KeyGen, KeyGenFails, Encrypt, EncryptBadKey, EncryptRngFails,
         EncryptNilRandomness, Add, Sub, NilCiphertextPanics, DecryptNilArgument
<1>6. Reported'
  BY <1>2, <1>3, <1>4, <1>5
<1> QED BY <1>1, <1>6 DEF DecInv

LEMMA DecInit == Init => DecInv
<1>1. Init => Reported
  BY DEF Init, Reported, DecryptExact, ForeignKeyLearnsNothing, RefusedIsPubliclyReadable
<1> QED BY <1>1, EGInit DEF DecInv

\* Decrypt with the owner's key returns the exact integer balance inside the
\* solver's range and an error outside it, for every sequence of calls.
THEOREM DecryptIsExact == Spec => []DecryptExact
<1>1. DecInv => DecryptExact
  BY DEF DecInv, Reported
<1> QED BY <1>1, DecInit, DecStep, PTL DEF Spec

\* A different secret key never decrypts a valid ciphertext to its balance.
THEOREM ForeignKeysFail == Spec => []ForeignKeyLearnsNothing
<1>1. DecInv => ForeignKeyLearnsNothing
  BY DEF DecInv, Reported
<1> QED BY <1>1, DecInit, DecStep, PTL DEF Spec

\* What Validate refuses is readable by every key: with ForeignKeysFail, the
\* check C1 # identity separates the readable ciphertexts from the others.
THEOREM RefusedAreReadable == Spec => []RefusedIsPubliclyReadable
<1>1. DecInv => RefusedIsPubliclyReadable
  BY DEF DecInv, Reported
<1> QED BY <1>1, DecInit, DecStep, PTL DEF Spec
=============================================================================
