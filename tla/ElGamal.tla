------------------------------ MODULE ElGamal ------------------------------
(***************************************************************************)
(* elgamal.go and the validation half of ciphertext.go: a caller that      *)
(* generates keys, encrypts amounts, adds and subtracts ciphertexts in any *)
(* order and decrypts them with any of its keys.  Ciphertext slots start   *)
(* as the zero value Ciphertext{}.  History variables remember, for every  *)
(* ciphertext, the integer amount and the randomness it should hold.       *)
(***************************************************************************)
EXTENDS Decryptor, Ciphertext

CONSTANTS
    Keys,       \* names of key pairs
    Slots,      \* names of Ciphertext variables
    Amounts,    \* the uint64 amounts callers encrypt
    Rands,      \* the scalars the random source (or the caller) supplies
    Range,      \* the Decryptor covers [0, Range)
    Cap,        \* bound on the absolute balance a slot accumulates
    MaxCalls,   \* bound on the number of calls of a run
    Anyone,     \* history: the zero ciphertext, an encryption of 0 for any key
    Mixed       \* history: a combination of ciphertexts under different keys

ASSUME ElGamalAssumption ==
    /\ Amounts \subseteq Nat /\ Rands \subseteq Scalar
    /\ Range \in Nat /\ Cap \in Nat /\ MaxCalls \in Nat
    /\ Anyone \notin Keys /\ Mixed \notin Keys /\ Anyone # Mixed

\* Amounts are at most 2^64 and q is about 2^254: balances of up to 2^189
\* transfers plus any solver range stay below q.
ASSUME NoGroupWrap == Cap + Range <= q /\ \A v \in Amounts : v <= Cap

VARIABLES
    sk,      \* secret keys, zero until KeyGen
    pk,      \* public keys, the identity until KeyGen
    cts,     \* Ciphertext values
    owner,   \* history: whose key the ciphertext is under
    bal,     \* history: the integer amount in it
    rnd,     \* history: its randomness
    calls,   \* number of calls made
    status,  \* outcome of the last call
    dec      \* {} or the one Decrypt that was the last call

hist == <<owner, bal, rnd>>
egVars == <<sk, pk, cts, owner, bal, rnd, calls, status, dec>>

Statuses == {"ok", "rngError", "badPublicKey", "nilArgument", "panicked"}

-----------------------------------------------------------------------------
(* The pure parts of the operations *)

\* The ciphertext EncryptWithRandomness computes.
EncryptPoints(amount, P, r) ==
    [C1 |-> ScalarMul(r, G),
     C2 |-> PAdd(ScalarMul(amount, G), ScalarMul(r, P))]

AddPoints(a, b) == [C1 |-> PAdd(a.C1, b.C1), C2 |-> PAdd(a.C2, b.C2)]

\* Mutant: C2 is not negated.
NegPoints_C1Only(b) == [C1 |-> PNeg(b.C1), C2 |-> b.C2]

NegPoints(b) == [C1 |-> PNeg(b.C1), C2 |-> PNeg(b.C2)]

\* Mutant: sk*C1 is added.
DecryptPoint_NoNeg(ct, x) == PAdd(ct.C2, ScalarMul(x, ct.C1))

\* m*G = C2 - sk*C1, the point Decrypt hands to the solver
DecryptPoint(ct, x) == PAdd(ct.C2, PNeg(ScalarMul(x, ct.C1)))

-----------------------------------------------------------------------------
Init ==
    /\ sk = [k \in Keys |-> 0]
    /\ pk = [k \in Keys |-> Identity]
    /\ cts = [s \in Slots |-> ZeroCiphertext]
    /\ owner = [s \in Slots |-> Anyone]
    /\ bal = [s \in Slots |-> 0]
    /\ rnd = [s \in Slots |-> 0]
    /\ calls = 0
    /\ status = "ok"
    /\ dec = {}

Called(outcome) ==
    /\ status # "panicked"
    /\ calls < MaxCalls
    /\ calls' = calls + 1
    /\ status' = outcome

\* KeyGen: any scalar of [0, q), zero included.  A usable key is kept.
KeyGen(k, x) ==
    /\ Called("ok")
    /\ pk[k] = Identity
    /\ sk' = [sk EXCEPT ![k] = x]
    /\ pk' = [pk EXCEPT ![k] = ScalarMul(x, G)]
    /\ dec' = {}
    /\ UNCHANGED <<cts, hist>>

\* The random source of KeyGen fails: zero values and the error are returned.
KeyGenFails ==
    /\ Called("rngError")
    /\ dec' = {}
    /\ UNCHANGED <<sk, pk, cts, hist>>

\* Encrypt with r drawn from the random source, and EncryptWithRandomness
\* with r from the caller: the same computation once the key is validated.
Encrypt(s, k, amount, r) ==
    /\ Called("ok")
    /\ ValidatePublicKey(pk[k])
    /\ cts' = [cts EXCEPT ![s] = EncryptPoints(amount, pk[k], r)]
    /\ owner' = [owner EXCEPT ![s] = k]
    /\ bal' = [bal EXCEPT ![s] = amount]
    /\ rnd' = [rnd EXCEPT ![s] = r]
    /\ dec' = {}
    /\ UNCHANGED <<sk, pk>>

\* The public key argument is rejected before anything is sampled.
EncryptBadKey(P) ==
    /\ Called("badPublicKey")
    /\ ~ValidatePublicKey(P)
    /\ dec' = {}
    /\ UNCHANGED <<sk, pk, cts, hist>>

\* Encrypt: the key is valid, the random source fails.
EncryptRngFails(k) ==
    /\ Called("rngError")
    /\ ValidatePublicKey(pk[k])
    /\ dec' = {}
    /\ UNCHANGED <<sk, pk, cts, hist>>

\* EncryptWithRandomness: the key is valid, r is nil.
EncryptNilRandomness(k) ==
    /\ Called("nilArgument")
    /\ ValidatePublicKey(pk[k])
    /\ dec' = {}
    /\ UNCHANGED <<sk, pk, cts, hist>>

\* History: the owner of a combination of two ciphertexts.
JointOwner(a, b) ==
    IF owner[a] = Anyone THEN owner[b]
    ELSE IF owner[b] \in {Anyone, owner[a]} THEN owner[a] ELSE Mixed

InCap(v) == -Cap <= v /\ v <= Cap

\* Add(&cts[a], &cts[b]) assigned to slot s
Add(s, a, b) ==
    /\ Called("ok")
    /\ InCap(bal[a] + bal[b])
    /\ cts' = [cts EXCEPT ![s] = AddPoints(cts[a], cts[b])]
    /\ owner' = [owner EXCEPT ![s] = JointOwner(a, b)]
    /\ bal' = [bal EXCEPT ![s] = bal[a] + bal[b]]
    /\ rnd' = [rnd EXCEPT ![s] = FAdd(rnd[a], rnd[b])]
    /\ dec' = {}
    /\ UNCHANGED <<sk, pk>>

\* Sub negates both components of b and calls Add.
Sub(s, a, b) ==
    /\ Called("ok")
    /\ InCap(bal[a] - bal[b])
    /\ cts' = [cts EXCEPT ![s] = AddPoints(cts[a], NegPoints(cts[b]))]
    /\ owner' = [owner EXCEPT ![s] = JointOwner(a, b)]
    /\ bal' = [bal EXCEPT ![s] = bal[a] - bal[b]]
    /\ rnd' = [rnd EXCEPT ![s] = FSub(rnd[a], rnd[b])]
    /\ dec' = {}
    /\ UNCHANGED <<sk, pk>>

\* Add and Sub panic on a nil ciphertext.
NilCiphertextPanics ==
    /\ Called("panicked")
    /\ dec' = {}
    /\ UNCHANGED <<sk, pk, cts, hist>>

\* Decrypt rejects a nil ciphertext, secret key or table.
DecryptNilArgument ==
    /\ Called("nilArgument")
    /\ dec' = {}
    /\ UNCHANGED <<sk, pk, cts, hist>>

\* Decrypt: the solver's answer about C2 - sk*C1 is returned unchanged.
Decrypt(s, k) ==
    /\ Called("ok")
    /\ \E a \in Answers(G, Range, DecryptPoint(cts[s], sk[k])) :
          dec' = {[slot |-> s, key |-> k, res |-> a]}
    /\ UNCHANGED <<sk, pk, cts, hist>>

Next ==
    \/ \E k \in Keys, x \in Rands : KeyGen(k, x)
    \/ KeyGenFails
    \/ \E s \in Slots, k \in Keys, v \in Amounts, r \in Rands : Encrypt(s, k, v, r)
    \/ \E P \in {Nil, OffCurve} \cup {pk[k] : k \in Keys} : EncryptBadKey(P)
    \/ \E k \in Keys : EncryptRngFails(k)
    \/ \E k \in Keys : EncryptNilRandomness(k)
    \/ \E s, a, b \in Slots : Add(s, a, b)
    \/ \E s, a, b \in Slots : Sub(s, a, b)
    \/ NilCiphertextPanics
    \/ DecryptNilArgument
    \/ \E s \in Slots, k \in Keys : Decrypt(s, k)

Spec == Init /\ [][Next]_egVars

-----------------------------------------------------------------------------
(* Properties *)

\* The types, a part of the inductive invariant of the proofs.
TypeOK ==
    /\ sk \in [Keys -> Scalar] /\ pk \in [Keys -> Point]
    /\ cts \in [Slots -> [C1 : Point, C2 : Point]]
    /\ owner \in [Slots -> Keys \cup {Anyone, Mixed}]
    /\ bal \in [Slots -> Int] /\ rnd \in [Slots -> Scalar]
    /\ calls \in Nat
    /\ status \in Statuses

\* KeyGen's relation pk = sk*G holds for every key name at all times; a key
\* whose secret is zero has the identity as public key, so it is rejected by
\* ValidatePublicKey and nothing is ever encrypted under it.
KeyPairs ==
    /\ \A k \in Keys : pk[k] = ScalarMul(sk[k], G)
    /\ \A s \in Slots : owner[s] \in Keys => sk[owner[s]] # 0

\* The homomorphism, over every sequence of calls: a ciphertext built from
\* ciphertexts under one key is C1 = r*G, C2 = v*G + r*pk for the sum r of the
\* randomness and the integer balance v of what was added and subtracted.
Homomorphic ==
    \A s \in Slots :
        /\ InCap(bal[s])
        /\ owner[s] = Anyone => bal[s] = 0 /\ rnd[s] = 0 /\ cts[s] = ZeroCiphertext
        /\ owner[s] \in Keys =>
              /\ cts[s].C1 = rnd[s]
              /\ cts[s].C2 = (bal[s] + rnd[s] * sk[owner[s]]) % q

\* Decrypt with the owner's key never lies (the zero ciphertext is anyone's):
\* it returns the exact integer balance when that lies in the solver's range
\* and an error otherwise; in particular a negative balance or one past the
\* range is never returned as some other amount.
DecryptExact ==
    \A d \in dec : owner[d.slot] \in {d.key, Anyone} =>
        d.res = IF bal[d.slot] \in 0..(Range-1) THEN Solved(bal[d.slot]) ELSE NoAnswer

\* A ciphertext that passes Validate (C1 is not the identity) never yields
\* its balance to a different secret key.
ForeignKeyLearnsNothing ==
    \A d \in dec :
        /\ owner[d.slot] \in Keys
        /\ sk[d.key] # sk[owner[d.slot]]
        /\ Validate(cts[d.slot])
        => d.res # Solved(bal[d.slot])

\* The converse, which makes the line Validate draws exact: what it refuses is
\* "a publicly-readable 'ciphertext'".  Every key, the zero key of a slot that
\* was never generated included, reads its balance as the owner would; so a C2
\* that sums to the identity over secret randomness is not refused.
RefusedIsPubliclyReadable ==
    \A d \in dec : owner[d.slot] # Mixed /\ ~Validate(cts[d.slot]) =>
        d.res = IF bal[d.slot] \in 0..(Range-1) THEN Solved(bal[d.slot]) ELSE NoAnswer

\* ciphertext.go, comment of Validate: "C2 = identity is NOT rejected: it is a
\* legitimate encoding of amount=0 with randomness=0".
ZeroAmountZeroRandomnessIsValid ==
    \A s \in Slots : owner[s] \in Keys /\ bal[s] = 0 /\ rnd[s] = 0 => Validate(cts[s])
=============================================================================
