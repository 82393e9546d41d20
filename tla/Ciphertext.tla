----------------------------- MODULE Ciphertext -----------------------------
(***************************************************************************)
(* ciphertext.go: the Ciphertext pair and the validation that every        *)
(* encryption and every verifier performs first.                           *)
(***************************************************************************)
EXTENDS BN254

CONSTANTS
    OffCurve,   \* a G1Affine value that is not on the curve
    Nil         \* a nil pointer

ASSUME BadPoints ==
    OffCurve \notin Point /\ Nil \notin Point /\ Nil \notin [C1 : Point, C2 : Point]

\* IsOnCurve and IsInfinity of gnark; the identity counts as on the curve.
IsOnCurve(P) == P \in Point
IsInfinity(P) == P = Identity

ZeroCiphertext == [C1 |-> Identity, C2 |-> Identity]    \* Ciphertext{}

\* Mutant: the identity is accepted.
ValidatePublicKey_Identity(P) == P # Nil /\ IsOnCurve(P)

\* ValidatePublicKey: not nil, on the curve, not the identity.
ValidatePublicKey(P) == P # Nil /\ IsOnCurve(P) /\ ~IsInfinity(P)

\* Mutant: C1 may be the identity.
Validate_NoC1Check(ct) == ct # Nil /\ IsOnCurve(ct.C1) /\ IsOnCurve(ct.C2)

\* Mutant: C2 may not be the identity either.
Validate_NoZeroC2(ct) ==
    /\ ct # Nil /\ IsOnCurve(ct.C1) /\ IsOnCurve(ct.C2)
    /\ ~IsInfinity(ct.C1) /\ ~IsInfinity(ct.C2)

\* Ciphertext.Validate: not nil, both components on the curve, C1 not the
\* identity; C2 may be the identity.
Validate(ct) ==
    ct # Nil /\ IsOnCurve(ct.C1) /\ IsOnCurve(ct.C2) /\ ~IsInfinity(ct.C1)
=============================================================================
