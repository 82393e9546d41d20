---------------------------- MODULE BN254_proofs ----------------------------
(***************************************************************************)
(* Arithmetic modulo q, proved from the division theorem, and the laws of  *)
(* the group and of the scalar field that the components' proofs cite.     *)
(***************************************************************************)
EXTENDS BN254, TLAPS

\* The division theorem for the modulus q.
LEMMA DivMod ==
    \A x \in Int : /\ x = q * (x \div q) + (x % q)
                   /\ x % q \in 0..(q-1)
                   /\ x \div q \in Int
BY QAssumption

LEMMA ModType == \A x \in Int : x % q \in 0..(q-1)
BY DivMod

\* The remainder is the only representative of its class in 0..q-1.
LEMMA ModUnique ==
    ASSUME NEW x \in Int, NEW k \in Int, NEW r \in 0..(q-1), x = q * k + r
    PROVE  x % q = r
<1> DEFINE d == x \div q
           m == x % q
<1>1. x = q * d + m /\ m \in 0..(q-1) /\ d \in Int
  BY DivMod
<1> HIDE DEF d, m
<1>2. \A t \in Int : t >= 1 => q * t >= q
  BY QAssumption
<1>3. q * (k - d) = m - r /\ q * (d - k) = r - m
  BY <1>1, QAssumption
<1>4. ~(k - d >= 1) /\ ~(d - k >= 1)
  BY <1>1, <1>2, <1>3, QAssumption
<1>5. d = k
  BY <1>1, <1>4
<1>6. m = r
  BY <1>1, <1>5, QAssumption
<1> QED BY <1>6 DEF m

\* A remainder is its own remainder.
LEMMA ModSmall == \A x \in 0..(q-1) : x % q = x
<1> SUFFICES ASSUME NEW x \in 0..(q-1) PROVE x % q = x
  OBVIOUS
<1>1. x \in Int /\ x = q * 0 + x
  BY QAssumption
<1> QED BY <1>1, ModUnique

\* Adding a multiple of q does not change the remainder.
LEMMA ModShift == \A x, k \in Int : (x + q * k) % q = x % q
<1> SUFFICES ASSUME NEW x \in Int, NEW k \in Int PROVE (x + q * k) % q = x % q
  OBVIOUS
<1> DEFINE d == x \div q
           m == x % q
<1>1. x = q * d + m /\ m \in 0..(q-1) /\ d \in Int
  BY DivMod
<1> HIDE DEF d, m
<1>2. x + q * k = q * (d + k) + m /\ d + k \in Int /\ x + q * k \in Int
  BY <1>1, QAssumption
<1>3. (x + q * k) % q = m
  BY <1>1, <1>2, ModUnique
<1> QED BY <1>3 DEF m

\* Reduction can be postponed in sums, differences and products.
LEMMA ModAdd == \A x, y \in Int : ((x % q) + y) % q = (x + y) % q
<1> SUFFICES ASSUME NEW x \in Int, NEW y \in Int
             PROVE ((x % q) + y) % q = (x + y) % q
  OBVIOUS
<1> DEFINE d == x \div q
           m == x % q
<1>1. x = q * d + m /\ m \in 0..(q-1) /\ d \in Int
  BY DivMod
<1> HIDE DEF d, m
<1>2. x + y = (m + y) + q * d /\ m + y \in Int
  BY <1>1, QAssumption
<1>3. (x + y) % q = (m + y) % q
  BY <1>1, <1>2, ModShift
<1> QED BY <1>3 DEF m

LEMMA ModSub == \A x, y \in Int : (y - (x % q)) % q = (y - x) % q
<1> SUFFICES ASSUME NEW x \in Int, NEW y \in Int
             PROVE (y - (x % q)) % q = (y - x) % q
  OBVIOUS
<1> DEFINE d == x \div q
           m == x % q
<1>1. x = q * d + m /\ m \in 0..(q-1) /\ d \in Int
  BY DivMod
<1> HIDE DEF d, m
<1>2. y - m = (y - x) + q * d /\ y - x \in Int
  BY <1>1, QAssumption
<1>3. (y - m) % q = (y - x) % q
  BY <1>1, <1>2, ModShift
<1> QED BY <1>3 DEF m

LEMMA ModMul == \A x, y \in Int : ((x % q) * y) % q = (x * y) % q
<1> SUFFICES ASSUME NEW x \in Int, NEW y \in Int
             PROVE ((x % q) * y) % q = (x * y) % q
  OBVIOUS
<1> DEFINE d == x \div q
           m == x % q
<1>1. x = q * d + m /\ m \in 0..(q-1) /\ d \in Int
  BY DivMod
<1> HIDE DEF d, m
<1>2. x * y = (m * y) + q * (d * y) /\ m * y \in Int /\ d * y \in Int
  BY <1>1, QAssumption
<1>3. (x * y) % q = (m * y) % q
  BY <1>1, <1>2, ModShift
<1> QED BY <1>3 DEF m

\* Congruent numbers have a congruent difference, and conversely.
LEMMA ModDiff ==
    \A x, y \in Int : (x % q = y % q) <=> ((x - y) % q = 0)
<1> SUFFICES ASSUME NEW x \in Int, NEW y \in Int
             PROVE (x % q = y % q) <=> ((x - y) % q = 0)
  OBVIOUS
<1>0. 0 \in 0..(q-1) /\ x - y \in Int /\ y - x \in Int
  BY QAssumption
<1>1. ASSUME x % q = y % q PROVE (x - y) % q = 0
  <2> DEFINE d == x \div q
             m == x % q
             e == y \div q
  <2>1. x = q * d + m /\ m \in 0..(q-1) /\ d \in Int
    BY DivMod
  <2>2. y = q * e + m /\ e \in Int
    BY DivMod, <1>1
  <2> HIDE DEF d, m, e
  <2>3. x - y = q * (d - e) + 0 /\ d - e \in Int
    BY <2>1, <2>2, QAssumption
  <2> QED BY <2>3, <1>0, ModUnique
<1>2. ASSUME (x - y) % q = 0 PROVE x % q = y % q
  <2> DEFINE d == (x - y) \div q
  <2>1. x - y = q * d + 0 /\ d \in Int
    BY DivMod, <1>0, <1>2
  <2> HIDE DEF d
  <2>2. x = y + q * d
    BY <2>1, QAssumption
  <2> QED BY <2>1, <2>2, ModShift
<1> QED BY <1>1, <1>2
-----------------------------------------------------------------------------
(* The group *)

\* The group operations stay in the group.
LEMMA NegClosed == \A P \in Point : PNeg(P) \in Point
<1> SUFFICES ASSUME NEW P \in Point PROVE (-P) % q \in 0..(q-1)
  BY DEF PNeg, Point
<1>1. -P \in Int
  BY QAssumption DEF Point
<1> QED BY <1>1, ModType

LEMMA AddClosed == \A P, R \in Point : PAdd(P, R) \in Point
<1> SUFFICES ASSUME NEW P \in Point, NEW R \in Point PROVE (P + R) % q \in 0..(q-1)
  BY DEF PAdd, Point
<1>1. P + R \in Int
  BY QAssumption DEF Point
<1> QED BY <1>1, ModType

LEMMA SubClosed == \A P, R \in Point : PSub(P, R) \in Point
BY NegClosed, AddClosed DEF PSub

LEMMA SMulClosed == \A P \in Point, k \in Int : ScalarMul(k, P) \in Point
<1> SUFFICES ASSUME NEW P \in Point, NEW k \in Int PROVE (k * P) % q \in 0..(q-1)
  BY DEF ScalarMul, Point
<1>1. k * P \in Int
  BY QAssumption DEF Point
<1> QED BY <1>1, ModType

\* 0*P is the identity and (k+1)*P = k*P + P.
LEMMA SMulZero == \A P \in Point : ScalarMul(0, P) = Identity
<1> SUFFICES ASSUME NEW P \in Point PROVE ScalarMul(0, P) = Identity
  OBVIOUS
<1>1. 0 * P = 0 /\ 0 \in 0..(q-1)
  BY QAssumption DEF Point
<1>2. 0 % q = 0
  BY <1>1, ModSmall
<1> QED BY <1>1, <1>2 DEF ScalarMul, Identity

LEMMA SMulSucc ==
    \A P \in Point, k \in Int : PAdd(ScalarMul(k, P), P) = ScalarMul(k + 1, P)
<1> SUFFICES ASSUME NEW P \in Point, NEW k \in Int
             PROVE PAdd(ScalarMul(k, P), P) = ScalarMul(k + 1, P)
  OBVIOUS
<1>1. P \in Int /\ k * P \in Int /\ k * P + P = (k + 1) * P
  BY QAssumption DEF Point
<1>2. (((k * P) % q) + P) % q = (k * P + P) % q
  BY <1>1, ModAdd
<1> QED BY <1>1, <1>2 DEF PAdd, ScalarMul

\* X - k*P, with the reductions postponed.
LEMMA SubSMul ==
    \A X, P \in Point, k \in Int : PSub(X, ScalarMul(k, P)) = (X - k * P) % q
<1> SUFFICES ASSUME NEW X \in Point, NEW P \in Point, NEW k \in Int
             PROVE PSub(X, ScalarMul(k, P)) = (X - k * P) % q
  OBVIOUS
<1> DEFINE kP == k * P
           m == kP % q
<1>1. P \in Int /\ X \in Int /\ kP \in Int
  BY QAssumption DEF Point
<1>2. m \in Int
  BY <1>1, ModType
<1>3. (X - m) % q = (X - kP) % q
  BY <1>1, ModSub
<1> HIDE DEF m, kP
<1>4. -m \in Int /\ ((-m) % q) \in Int
  BY <1>2, ModType
<1>5. (((-m) % q) + X) % q = ((-m) + X) % q
  BY <1>1, <1>4, ModAdd
<1>6. X + ((-m) % q) = ((-m) % q) + X /\ (-m) + X = X - m
  BY <1>1, <1>2, <1>4
<1>7. (X + ((-m) % q)) % q = (X - kP) % q
  BY <1>3, <1>5, <1>6
<1> QED BY <1>7 DEF PSub, PAdd, PNeg, ScalarMul, m, kP

\* (X - a*P) - b*P = X - (a+b)*P
LEMMA SubSMulStep ==
    \A X, P \in Point, a, b \in Int :
        PAdd(PSub(X, ScalarMul(a, P)), PNeg(ScalarMul(b, P)))
            = PSub(X, ScalarMul(a + b, P))
<1> SUFFICES ASSUME NEW X \in Point, NEW P \in Point, NEW a \in Int, NEW b \in Int
             PROVE PSub(PSub(X, ScalarMul(a, P)), ScalarMul(b, P))
                       = PSub(X, ScalarMul(a + b, P))
  BY DEF PSub
<1> DEFINE Y == PSub(X, ScalarMul(a, P))
<1>1. Y \in Point /\ Y = (X - a * P) % q
  BY SubClosed, SMulClosed, SubSMul
<1>2. PSub(Y, ScalarMul(b, P)) = (Y - b * P) % q
  BY <1>1, SubSMul
<1>3. PSub(X, ScalarMul(a + b, P)) = (X - (a + b) * P) % q
  BY SubSMul
<1> HIDE DEF Y
<1>4. X - a * P \in Int /\ -(b * P) \in Int
  BY QAssumption DEF Point
<1>5. (((X - a * P) % q) + (-(b * P))) % q = ((X - a * P) + (-(b * P))) % q
  BY <1>4, ModAdd
<1>6. (X - a * P) + (-(b * P)) = X - (a + b) * P
  BY QAssumption DEF Point
<1>7. Y - b * P = Y + (-(b * P))
  BY <1>1, QAssumption DEF Point
<1>8. PSub(Y, ScalarMul(b, P)) = PSub(X, ScalarMul(a + b, P))
  BY <1>1, <1>2, <1>3, <1>5, <1>6, <1>7
<1> QED BY <1>8 DEF Y

\* t*P = X - a*P exactly when (a+t)*P = X.
LEMMA SMulHit ==
    \A X, P \in Point, a, t \in Int :
        (ScalarMul(t, P) = PSub(X, ScalarMul(a, P))) <=> (ScalarMul(a + t, P) = X)
<1> SUFFICES ASSUME NEW X \in Point, NEW P \in Point, NEW a \in Int, NEW t \in Int
             PROVE (ScalarMul(t, P) = PSub(X, ScalarMul(a, P)))
                       <=> (ScalarMul(a + t, P) = X)
  OBVIOUS
<1>1. PSub(X, ScalarMul(a, P)) = (X - a * P) % q
  BY SubSMul
<1>2. t * P \in Int /\ X - a * P \in Int /\ (a + t) * P \in Int /\ X \in Int
  BY QAssumption DEF Point
<1>3. ((t * P) % q = (X - a * P) % q) <=> ((t * P - (X - a * P)) % q = 0)
  BY <1>2, ModDiff
<1>4. (((a + t) * P) % q = X % q) <=> (((a + t) * P - X) % q = 0)
  BY <1>2, ModDiff
<1>5. t * P - (X - a * P) = (a + t) * P - X
  BY QAssumption DEF Point
<1>6. X % q = X
  BY ModSmall DEF Point
<1> QED BY <1>1, <1>3, <1>4, <1>5, <1>6 DEF ScalarMul

-----------------------------------------------------------------------------
(* The scalar field *)

\* Sums of reduced numbers.
LEMMA ModAdd2 == \A x, y \in Int : ((x % q) + (y % q)) % q = (x + y) % q
<1> SUFFICES ASSUME NEW x \in Int, NEW y \in Int
             PROVE ((x % q) + (y % q)) % q = (x + y) % q
  OBVIOUS
<1>1. x % q \in Int /\ y % q \in Int
  BY ModType
<1>2. ((x % q) + (y % q)) % q = (x + (y % q)) % q
  BY <1>1, ModAdd
<1>3. ((y % q) + x) % q = (y + x) % q
  BY ModAdd
<1>4. x + (y % q) = (y % q) + x /\ y + x = x + y
  BY <1>1
<1> QED BY <1>2, <1>3, <1>4

\* Reduction of a coefficient inside a linear expression.
LEMMA ModLin == \A u, r, x \in Int : (u + (r % q) * x) % q = (u + r * x) % q
<1> SUFFICES ASSUME NEW u \in Int, NEW r \in Int, NEW x \in Int
             PROVE (u + (r % q) * x) % q = (u + r * x) % q
  OBVIOUS
<1> DEFINE d == r \div q
           m == r % q
<1>1. r = q * d + m /\ m \in 0..(q-1) /\ d \in Int
  BY DivMod
<1> HIDE DEF d, m
<1>2. u + r * x = (u + m * x) + q * (d * x) /\ u + m * x \in Int /\ d * x \in Int
  BY <1>1, QAssumption
<1>3. (u + r * x) % q = (u + m * x) % q
  BY <1>2, ModShift
<1> QED BY <1>3 DEF m

\* -P for a reduced P.
LEMMA ModNeg == \A x \in Int : (-(x % q)) % q = (-x) % q
<1> SUFFICES ASSUME NEW x \in Int PROVE (-(x % q)) % q = (-x) % q
  OBVIOUS
<1>1. (0 - (x % q)) % q = (0 - x) % q
  BY ModSub
<1>2. x % q \in Int
  BY ModType
<1>3. 0 - (x % q) = -(x % q) /\ 0 - x = -x
  BY <1>2
<1> QED BY <1>1, <1>3

\* A product is zero only if a factor is: q is prime.
LEMMA NoZeroDivisors ==
    \A a, b \in 0..(q-1) : (a * b) % q = 0 => a = 0 \/ b = 0
<1> SUFFICES ASSUME NEW a \in 0..(q-1), NEW b \in 0..(q-1), (a * b) % q = 0, a # 0
             PROVE b = 0
  OBVIOUS
<1>1. PICK d \in 1..(q-1) : (d * a) % q = 1
  <2>1. a \in 1..(q-1)
    BY QAssumption
  <2> QED BY <2>1, QPrime
<1>2. a \in Int /\ b \in Int /\ d \in Int /\ d * a \in Int /\ a * b \in Int
  BY QAssumption
<1>3. (((d * a) % q) * b) % q = ((d * a) * b) % q
  BY <1>2, ModMul
<1>4. (((a * b) % q) * d) % q = ((a * b) * d) % q
  BY <1>2, ModMul
<1>5. (d * a) * b = (a * b) * d
  BY <1>2
<1>6. 1 * b = b /\ 0 * d = 0
  BY <1>2
<1>7. b % q = 0 % q
  BY <1>1, <1>3, <1>4, <1>5, <1>6
<1>8. 0 \in 0..(q-1)
  BY QAssumption
<1> QED BY <1>7, <1>8, ModSmall

\* The same for integer factors, up to congruence.
LEMMA ModZeroDivisors ==
    \A a, b \in Int : (a * b) % q = 0 => a % q = 0 \/ b % q = 0
<1> SUFFICES ASSUME NEW a \in Int, NEW b \in Int, (a * b) % q = 0
             PROVE a % q = 0 \/ b % q = 0
  OBVIOUS
<1> DEFINE x == a % q
           y == b % q
<1>1. x \in 0..(q-1) /\ y \in 0..(q-1) /\ x \in Int /\ y \in Int
  BY ModType
<1>2. (x * b) % q = 0
  BY ModMul
<1>3. (y * x) % q = (b * x) % q
  BY <1>1, ModMul
<1> HIDE DEF x, y
<1>4. b * x = x * b /\ y * x = x * y
  BY <1>1
<1>5. x = 0 \/ y = 0
  BY <1>1, <1>2, <1>3, <1>4, NoZeroDivisors
<1> QED BY <1>5 DEF x, y
=============================================================================
