------------------------------- MODULE BN254 -------------------------------
(***************************************************************************)
(* The prime-order group and scalar field that the library takes from      *)
(* gnark-crypto (packages bn254 and bn254/fr; external to the repository). *)
(* BN254 G1 is cyclic of prime order q with cofactor 1, hence isomorphic   *)
(* to the integers modulo q: a point on the curve is represented by its    *)
(* discrete logarithm to the generator G.  The isomorphism turns point     *)
(* addition into addition modulo q and scalar multiplication into          *)
(* multiplication modulo q; code that never asks for a discrete logarithm  *)
(* cannot tell the two groups apart.                                       *)
(***************************************************************************)
EXTENDS Integers

CONSTANT q    \* fr.Modulus(), the order of the group

ASSUME QAssumption == q \in Nat /\ q > 1

\* q is prime, in the form the proofs use: non-zero scalars have inverses.
ASSUME QPrime == \A a \in 1..(q-1) : \E d \in 1..(q-1) : (d * a) % q = 1

Scalar == 0..(q-1)            \* fr.Element, always reduced
Point  == 0..(q-1)            \* bn254.G1Affine values on the curve

Identity == 0                 \* (0,0), IsInfinity(); on the curve for gnark
G        == 1                 \* the generator

FAdd(a, b) == (a + b) % q     \* fr.Element.Add
FSub(a, b) == (a - b) % q     \* fr.Element.Sub
FMul(a, b) == (a * b) % q     \* fr.Element.Mul

PAdd(P, Q) == (P + Q) % q     \* G1Jac.AddAssign
PNeg(P)    == (-P) % q        \* G1Affine.Neg
PSub(P, Q) == PAdd(P, PNeg(Q))
ScalarMul(k, P) == (k * P) % q   \* G1Affine.ScalarMultiplication(P, k)
=============================================================================
