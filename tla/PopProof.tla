------------------------------ MODULE PopProof ------------------------------
(* pop.go: knowledge of sk with pk = sk*G.  Statement: [pk].                *)
EXTENDS SigmaProof

PopMatrix(st) == << <<G, Identity, Identity, Identity>> >>     \* Z*G
PopImage(st) == <<st.pk>>                                      \* A + e*pk

\* appendPopTranscript, up to the commitment A
PopFields(st) == << <<"proof_type", "pop">>, <<"pk", st.pk>> >>
PopCommitLabels == <<"A">>

PopProverChecks(st) == ValidatePublicKey(st.pk)
PopVerifierChecks(st, R) ==
    ValidatePublicKey(st.pk) /\ IsOnCurve(R[1]) /\ ~IsInfinity(R[1])
=============================================================================
