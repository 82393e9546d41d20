----------------------------- MODULE SigmaProof -----------------------------
(***************************************************************************)
(* The proof system that pop.go, dleq.go, apply_pending_proof.go,          *)
(* commitment_equality.go and equality.go share.  Each of them proves a    *)
(* system of linear equations over the group,                              *)
(*                                                                         *)
(*     matrix[i][1]*w[1] + ... + matrix[i][4]*w[4] = image[i]   for all i  *)
(*                                                                         *)
(* for secret scalars w: the prover commits to matrix*k for fresh nonces   *)
(* k, draws a challenge e from the transcript and responds with k + e*w;   *)
(* the verifier checks matrix*s = commitment + e*image row by row.  A      *)
(* missing term of an equation is an Identity entry; no proof has more     *)
(* than 4 secrets, and unused ones have the nonce and the value 0.         *)
(***************************************************************************)
EXTENDS Ciphertext, Sequences

Columns == 1..4

\* The point row[1]*w[1] + ... + row[4]*w[4].
Combine(row, w) ==
    (row[1] * w[1] + row[2] * w[2] + row[3] * w[3] + row[4] * w[4]) % q

Commit(matrix, k) == [row \in DOMAIN matrix |-> Combine(matrix[row], k)]

\* Mutant: k - e*w
Respond_Minus(k, e, w) == [c \in Columns |-> FSub(k[c], FMul(e, w[c]))]

Respond(k, e, w) == [c \in Columns |-> FAdd(k[c], FMul(e, w[c]))]

\* One verification equation: lhs.Equal(&rhs).
Holds(row, s, R, e, Y) == Combine(row, s) = PAdd(R, ScalarMul(e, Y))

Accepts(matrix, image, R, s, e) ==
    \A row \in DOMAIN matrix : Holds(matrix[row], s, R[row], e, image[row])

\* The statement is true: some secrets solve every equation.
InRelation(matrix, image, w) ==
    \A row \in DOMAIN matrix : Combine(matrix[row], w) = image[row]
=============================================================================
