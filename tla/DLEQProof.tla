----------------------------- MODULE DLEQProof -----------------------------
(* dleq.go: knowledge of sk with pk = sk*G and C2 - amount*G = sk*C1, the   *)
(* correct decryption of ct.  Statement: [pk, ct, amount].                  *)
EXTENDS SigmaProof

DLEQMatrix(st) == << <<G,        Identity, Identity, Identity>>,     \* S*G
                     <<st.ct.C1, Identity, Identity, Identity>> >>   \* S*C1
DLEQImage(st) == <<st.pk, PSub(st.ct.C2, ScalarMul(st.amount, G))>>

\* Mutant: the claimed amount is not absorbed.
DLEQFields_NoAmount(st) == << <<"proof_type", "dleq">>, <<"pk", st.pk>>,
                              <<"C1", st.ct.C1>>, <<"C2", st.ct.C2>> >>

DLEQFields(st) == << <<"proof_type", "dleq">>, <<"pk", st.pk>>,
                     <<"C1", st.ct.C1>>, <<"C2", st.ct.C2>>, <<"amount", st.amount>> >>
DLEQCommitLabels == <<"R1", "R2">>

\* Mutant: the public key is not validated.
DLEQVerifierChecks_NoKey(st) == Validate(st.ct)

\* ProveDLEQ validates nothing; VerifyDLEQ validates key and ciphertext.
DLEQVerifierChecks(st) == ValidatePublicKey(st.pk) /\ Validate(st.ct)
=============================================================================
