------------------------- MODULE ApplyPendingProof -------------------------
(* apply_pending_proof.go: knowledge of (m, sk, rNew) such that pending     *)
(* decrypts to m under sk and newCt encrypts m under pk with rNew.          *)
(* Statement: [pk, pending, newCt].                                         *)
EXTENDS SigmaProof

ApplyMatrix(st) == << <<G,        st.pending.C1, Identity, Identity>>,
                      <<Identity, G,             Identity, Identity>>,
                      <<Identity, Identity,      G,        Identity>>,
                      <<G,        Identity,      st.pk,    Identity>> >>
ApplyImage(st) == <<st.pending.C2, st.pk, st.newCt.C1, st.newCt.C2>>

ApplyFields(st) == << <<"proof_type", "apply_pending">>, <<"pk", st.pk>>,
                      <<"pending_C1", st.pending.C1>>, <<"pending_C2", st.pending.C2>>,
                      <<"new_C1", st.newCt.C1>>, <<"new_C2", st.newCt.C2>> >>
ApplyCommitLabels == <<"R1", "R2", "R3", "R4">>

ApplyVerifierChecks(st) ==
    ValidatePublicKey(st.pk) /\ Validate(st.pending) /\ Validate(st.newCt)
=============================================================================
