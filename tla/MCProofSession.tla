--------------------------- MODULE MCProofSession ---------------------------
(* Small instances of ProofSession over a group of 11 elements: honest      *)
(* statements of every kind, claims that differ from them in one component, *)
(* and statements the verifiers refuse.                                     *)
EXTENDS ProofSession, TLC

Enc(v, pk, r) == [C1 |-> ScalarMul(r, G), C2 |-> PAdd(ScalarMul(v, G), ScalarMul(r, pk))]
Secret(a, b, c, d) == <<a, b, c, d>>

Pop(sk) == [st |-> [kind |-> "pop", pk |-> ScalarMul(sk, G)], w |-> Secret(sk, 0, 0, 0)]

DLEQ(sk, v, r) ==
    [st |-> [kind |-> "dleq", pk |-> ScalarMul(sk, G), ct |-> Enc(v, ScalarMul(sk, G), r),
             amount |-> v],
     w |-> Secret(sk, 0, 0, 0)]

Apply(sk, v, r, rNew) ==
    [st |-> [kind |-> "apply_pending", pk |-> ScalarMul(sk, G),
             pending |-> Enc(v, ScalarMul(sk, G), r), newCt |-> Enc(v, ScalarMul(sk, G), rNew)],
     w |-> Secret(v, sk, rNew, 0)]

CommitEq(pk, H, v, r, s) ==
    [st |-> [kind |-> "commitment_equality", pk |-> pk, H |-> H, ct |-> Enc(v, pk, r),
             P |-> PAdd(ScalarMul(v, G), ScalarMul(s, H))],
     w |-> Secret(v, r, s, 0)]

Equality2(pk1, pk2, v, r1, r2) ==
    [st |-> [kind |-> "equality2", pks |-> <<pk1, pk2>>,
             cts |-> <<Enc(v, pk1, r1), Enc(v, pk2, r2)>>],
     w |-> Secret(v, r1, r2, 0)]

Equality3(pk1, pk2, pk3, v, r1, r2, r3) ==
    [st |-> [kind |-> "equality", pks |-> <<pk1, pk2, pk3>>,
             cts |-> <<Enc(v, pk1, r1), Enc(v, pk2, r2), Enc(v, pk3, r3)>>],
     w |-> Secret(v, r1, r2, r3)]

ContextSymmetry == Permutations(Contexts)

\* Registration and decryption proofs.  Secret key 0 and C1 = identity are
\* what the provers do not refuse and the verifiers do.
KeyInstances == {Pop(3), DLEQ(3, 2, 5), DLEQ(0, 2, 5)}
KeyClaims == {[DLEQ(3, 2, 5).st EXCEPT !.amount = 1], DLEQ(3, 2, 0).st,
              [Pop(3).st EXCEPT !.pk = OffCurve]}

\* Transfers, absorptions and rotations; an equality proof is also checked as
\* an apply-pending proof and the other way round.
TransferInstances == {Apply(3, 2, 5, 4), CommitEq(3, 7, 2, 5, 4),
                      Equality2(3, 4, 2, 5, 1), Equality3(3, 4, 3, 2, 5, 1, 6)}
TransferClaims == {[Apply(3, 2, 5, 4).st EXCEPT !.newCt = Enc(1, 3, 4)],
                   [CommitEq(3, 7, 2, 5, 4).st EXCEPT !.P = Identity],
                   [CommitEq(3, 7, 2, 5, 4).st EXCEPT !.H = 8],
                   [Equality2(3, 4, 2, 5, 1).st EXCEPT !.pks = <<3, Identity>>],
                   [Equality3(3, 4, 3, 2, 5, 1, 6).st EXCEPT !.pks = <<3, 4, 5>>]}
=============================================================================
