--------------------------- MODULE EqualityProof ---------------------------
(* equality.go: two (ProveEquality2) or three (ProveEquality) ciphertexts   *)
(* under as many keys hold the same amount.  Secrets: (m, r1, r2, r3).      *)
(* Statement: [pks, cts], sequences of the same length.                     *)
EXTENDS SigmaProof

\* Equation pairs of key i: Sr_i*G = R1_i + e*C1_i and
\* Sm*G + Sr_i*pk_i = R2_i + e*C2_i, in the order R11, R21, R12, R22, ...
KeyOf(row) == (row + 1) \div 2
EqualityRow(st, row) ==
    [c \in Columns |->
        IF row % 2 = 1
        THEN IF c = KeyOf(row) + 1 THEN G ELSE Identity
        ELSE IF c = 1 THEN G
             ELSE IF c = KeyOf(row) + 1 THEN st.pks[KeyOf(row)] ELSE Identity]

EqualityMatrix(st) == [row \in 1..(2 * Len(st.pks)) |-> EqualityRow(st, row)]
EqualityImage(st) ==
    [row \in 1..(2 * Len(st.pks)) |->
        IF row % 2 = 1 THEN st.cts[KeyOf(row)].C1 ELSE st.cts[KeyOf(row)].C2]

\* The labels of the two variants agree but for the proof type.
EqualityFields(st) ==
    LET pkLabels == <<"pk1", "pk2", "pk3">>
        c1Labels == <<"ct1_C1", "ct2_C1", "ct3_C1">>
        c2Labels == <<"ct1_C2", "ct2_C2", "ct3_C2">>
        keys == 1..Len(st.pks)
    IN  << <<"proof_type", IF Len(st.pks) = 3 THEN "equality" ELSE "equality2">> >>
        \o [k \in keys |-> <<pkLabels[k], st.pks[k]>>]
        \o [row \in 1..(2 * Len(st.pks)) |->
              IF row % 2 = 1 THEN <<c1Labels[KeyOf(row)], st.cts[KeyOf(row)].C1>>
                             ELSE <<c2Labels[KeyOf(row)], st.cts[KeyOf(row)].C2>>]
EqualityCommitLabels == <<"R11", "R21", "R12", "R22", "R13", "R23">>

\* The loops over all keys and all ciphertexts; keys need not be distinct.
EqualityVerifierChecks(st) ==
    /\ \A k \in DOMAIN st.pks : ValidatePublicKey(st.pks[k])
    /\ \A k \in DOMAIN st.cts : Validate(st.cts[k])
=============================================================================
