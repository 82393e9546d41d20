---------------------- MODULE CommitmentEqualityProof ----------------------
(* commitment_equality.go: knowledge of (v, r, s) with C1 = r*G,            *)
(* C2 = v*G + r*pk and P = v*G + s*H.  Statement: [pk, H, ct, P].           *)
EXTENDS SigmaProof

CommitEqMatrix(st) == << <<Identity, G,        Identity, Identity>>,
                         <<G,        st.pk,    Identity, Identity>>,
                         <<G,        Identity, st.H,     Identity>> >>
CommitEqImage(st) == <<st.ct.C1, st.ct.C2, st.P>>

\* Mutant: the second generator is not absorbed.
CommitEqFields_NoH(st) == << <<"proof_type", "commitment-equality">>, <<"pk", st.pk>>,
                             <<"C1", st.ct.C1>>, <<"C2", st.ct.C2>>, <<"P", st.P>> >>

\* appendCommitmentEqualityTranscript, up to the commitments
CommitEqFields(st) == << <<"proof_type", "commitment-equality">>, <<"pk", st.pk>>,
                         <<"H", st.H>>, <<"C1", st.ct.C1>>, <<"C2", st.ct.C2>>,
                         <<"P", st.P>> >>
CommitEqCommitLabels == <<"A1", "A2", "A3">>

CommitEqProverChecks(st) ==
    /\ st.ct # Nil /\ st.P # Nil
    /\ ValidatePublicKey(st.pk) /\ ValidatePublicKey(st.H)

CommitEqVerifierChecks(st, R) ==
    /\ st.P # Nil
    /\ ValidatePublicKey(st.pk) /\ ValidatePublicKey(st.H)
    /\ Validate(st.ct)
    /\ IsOnCurve(st.P) /\ ~IsInfinity(st.P)
    /\ \A a \in 1..3 : IsOnCurve(R[a]) /\ ~IsInfinity(R[a])
=============================================================================
