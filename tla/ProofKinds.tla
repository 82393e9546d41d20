----------------------------- MODULE ProofKinds -----------------------------
(***************************************************************************)
(* The six Prove/Verify pairs of the library side by side.  A statement is *)
(* a record with a field kind and the arguments the verifier is called     *)
(* with.                                                                   *)
(***************************************************************************)
EXTENDS PopProof, DLEQProof, ApplyPendingProof, CommitmentEqualityProof, EqualityProof

Kinds == {"pop", "dleq", "apply_pending", "commitment_equality", "equality", "equality2"}

\* What the Verify functions may be called with: points need not lie on the
\* curve, and a pointer may be nil.
AnyPoint == Point \cup {OffCurve, Nil}
AnyCiphertext == [C1 : AnyPoint, C2 : AnyPoint]

Statements ==
    [kind : {"pop"}, pk : AnyPoint]
    \cup [kind : {"dleq"}, pk : AnyPoint, ct : AnyCiphertext, amount : Scalar]
    \cup [kind : {"apply_pending"}, pk : AnyPoint, pending : AnyCiphertext,
          newCt : AnyCiphertext]
    \cup [kind : {"commitment_equality"}, pk : AnyPoint, H : AnyPoint,
          ct : AnyCiphertext, P : AnyPoint]
    \cup [kind : {"equality2"}, pks : [1..2 -> AnyPoint], cts : [1..2 -> AnyCiphertext]]
    \cup [kind : {"equality"}, pks : [1..3 -> AnyPoint], cts : [1..3 -> AnyCiphertext]]

Matrix(st) ==
    CASE st.kind = "pop"           -> PopMatrix(st)
      [] st.kind = "dleq"          -> DLEQMatrix(st)
      [] st.kind = "apply_pending" -> ApplyMatrix(st)
      [] st.kind = "commitment_equality" -> CommitEqMatrix(st)
      [] OTHER -> EqualityMatrix(st)

Image(st) ==
    CASE st.kind = "pop"           -> PopImage(st)
      [] st.kind = "dleq"          -> DLEQImage(st)
      [] st.kind = "apply_pending" -> ApplyImage(st)
      [] st.kind = "commitment_equality" -> CommitEqImage(st)
      [] OTHER -> EqualityImage(st)

\* The labelled data absorbed before the commitments.
Fields(st) ==
    CASE st.kind = "pop"           -> PopFields(st)
      [] st.kind = "dleq"          -> DLEQFields(st)
      [] st.kind = "apply_pending" -> ApplyFields(st)
      [] st.kind = "commitment_equality" -> CommitEqFields(st)
      [] OTHER -> EqualityFields(st)

CommitLabels(st) ==
    CASE st.kind = "pop"           -> PopCommitLabels
      [] st.kind = "dleq"          -> DLEQCommitLabels
      [] st.kind = "apply_pending" -> ApplyCommitLabels
      [] st.kind = "commitment_equality" -> CommitEqCommitLabels
      [] OTHER -> EqualityCommitLabels

ChallengeLabel(st) ==
    CASE st.kind = "pop"           -> "pop_challenge"
      [] st.kind = "dleq"          -> "dleq_challenge"
      [] st.kind = "apply_pending" -> "apply_pending_challenge"
      [] st.kind = "commitment_equality" -> "commitment_equality_challenge"
      [] st.kind = "equality"      -> "equality_challenge"
      [] OTHER -> "equality2_challenge"

\* The number of nonces the prover draws, one per secret.
Secrets(st) ==
    CASE st.kind \in {"pop", "dleq"} -> 1
      [] st.kind = "equality" -> 4
      [] OTHER -> 3

\* The prover's early returns; the other provers check nothing.
ProverChecks(st) ==
    CASE st.kind = "pop" -> PopProverChecks(st)
      [] st.kind = "commitment_equality" -> CommitEqProverChecks(st)
      [] OTHER -> TRUE

\* The verifier's early returns, before the transcript is touched.
VerifierChecks(st, R) ==
    CASE st.kind = "pop"           -> PopVerifierChecks(st, R)
      [] st.kind = "dleq"          -> DLEQVerifierChecks(st)
      [] st.kind = "apply_pending" -> ApplyVerifierChecks(st)
      [] st.kind = "commitment_equality" -> CommitEqVerifierChecks(st, R)
      [] OTHER -> EqualityVerifierChecks(st)
=============================================================================
