# A TLA+ model of elgamal-bn254

`elgamal-bn254` is a Go library for confidential amounts: ElGamal encryption
in the exponent over BN254 G1, two discrete-logarithm solvers that make
decryption possible, six Prove/Verify pairs of Schnorr-style proofs over a
Fiat-Shamir transcript, serialization, and encrypted memos. This directory
models all of it in TLA+, checks it with TLC on small groups and fields, and
proves with TLAPS, for every size of group, field and range, the correctness of
both solvers and the number of steps they take, of the encryption, of the proofs,
what they prove and their transcripts (down to the bytes), of the memos and of the
serialization.

## 1. The system

| component | source | state | operations | what makes it correct |
|---|---|---|---|---|
| group and field | gnark-crypto (external), `G` in `elgamal.go` | none | add, negate, scalar multiplication | group axioms, prime order |
| ElGamal | `elgamal.go` | key pairs, ciphertexts (held by the caller) | `KeyGen`, `Encrypt`, `EncryptWithRandomness`, `Decrypt`, `Add`, `Sub` | the homomorphism over any sequence of calls; decryption exact or an error |
| validation | `ciphertext.go` | none | `Validate`, `ValidatePublicKey` | degenerate keys and ciphertexts are refused everywhere |
| BSGS solver | `decryption_table.go` | baby-step map, giant step | `NewDecryptionTable[WithBase]`, `DiscreteLog` | map = baby steps; answer is a logarithm, error only if there is none; terminates |
| split solver | `split_decryption.go` | the BSGS solver over `2^splitBits*G` | `NewSplitDecryptionTable`, `DiscreteLog` | the same, over its advertised range |
| transcript | `transcript.go` | byte state | `NewTranscript`, `Append*`, `ChallengeScalar` | prover and verifier stay in step; everything is bound |
| proofs | `pop.go`, `dleq.go`, `apply_pending_proof.go`, `commitment_equality.go`, `equality.go` | the caller's transcript | six `Prove*`/`Verify*` pairs | completeness on the right transcript, refusal elsewhere, statement bound by the challenge |
| serialization | `serialization.go`, `ciphertext.go`, `pop.go` | receiver structs | `Marshal`/`Unmarshal` | one encoding per value; what is accepted is sound; a failure leaves a known mixture |
| memo | `memo.go` | none | `EncryptMemo`, `DecryptMemo` | opened by exactly the recipient, and only byte for byte as made; size limits meet |

The library has no threads and persists nothing. What is hard is arithmetic at
boundaries (the ends of the solver's range, `uint64` wrap, the zero scalar and
the identity point), long sequences of homomorphic operations, and several
proofs sharing one stateful transcript while messages are lost, repeated,
reordered or misdelivered and provers fail half-way, and reading damaged bytes
into variables that hold older values. `PROJECT.json` lists these hazards at the lines where they bite, with the properties that watch them.

Interactions: `Decrypt` calls a `Decryptor` (either solver); the split solver
calls the BSGS solver once per low part; every prover and verifier calls the
transcript; verifiers call the validation functions before the transcript, and
`Ciphertext.Unmarshal`, `UnmarshalPublicKey` and `DecryptMemo` call them too;
`DecryptMemo` reads its ephemeral key with the point decoder of
`serialization.go`.

## 2. Modules

| module | models | notes |
|---|---|---|
| `BN254` | gnark's group and field | points are their logarithms to `G`, modulo a prime `q` |
| `Decryptor`, `DiscreteLog` | the `Decryptor` interface | the answers a solver may give; the abstract specification of a solver |
| `DecryptionTable` | `decryption_table.go` | one action per loop iteration; `uint64` arithmetic modulo `2^Width` |
| `SplitDecryptionTable` | `split_decryption.go` | extends `DecryptionTable` and runs its actions as the inner call |
| `Ciphertext` | `ciphertext.go` | `OffCurve` and `Nil` are values outside the group |
| `ElGamal` | `elgamal.go` | slots are Ciphertext variables; `owner`, `bal`, `rnd` are history |
| `SigmaProof` | what all proofs share | a proof is a linear system `matrix*w = image` |
| `PopProof`, `DLEQProof`, `ApplyPendingProof`, `CommitmentEqualityProof`, `EqualityProof` | one proof file each | matrix, image, transcript fields, checks |
| `ProofKinds` | dispatch over the six kinds | |
| `Transcript` | `transcript.go` at the level of frames | Keccak256 is a collision-free random oracle |
| `ProofSession` | provers and verifiers with shared transcripts and a network | composes `ProofKinds` and `Transcript` |
| `TranscriptFraming` | `transcript.go` at the level of bytes | several transcripts written side by side; says when the frames of `Transcript` are faithful |
| `Serialization` | `serialization.go`, `Marshal`/`Unmarshal` of `ciphertext.go` and `pop.go` | words of 32 bytes, curve points with coordinates |
| `Memo` | `memo.go` | symbolic HKDF and AES-GCM, a network that alters memos |
| `MC*` | small instances | constants only |
| `BN254_proofs`, `DecryptionTable_proofs`, `SplitDecryptionTable_proofs`, `ElGamal_proofs`, `ProofSession_proofs`, `TranscriptFraming_proofs`, `Memo_proofs`, `Serialization_proofs` | lemmas and theorems | section 5 |

Correspondence of state and actions:

- **BSGS.** `table`, `base`, `halfBits`, `giantStep` are the struct's fields;
  `current`/`i` and `gamma`/`j` are the loop variables of the constructor and
  of `DiscreteLog`. `BabyStep`, `GiantStep` are iterations; `FinishTable` is the
  code after the loop with its one further addition; `FoundLog` and
  `LogNotFound` are the two returns. A solver answers any number of queries.
- **Split.** `AskHi`, `HiSearchStep`, `HiFound`/`HiMissed` are the call of the
  inner solver, its steps, and its two outcomes.
- **ElGamal.** One action per function and outcome. `KeyGen` may draw 0. A key
  name whose public key is usable is not regenerated, because the history
  speaks about the key a ciphertext was made under. The zero value
  `Ciphertext{}` belongs to `Anyone`; a combination of ciphertexts under
  different keys is `Mixed` and nothing is claimed of it. `Decrypt` relies only
  on the contract `Answers`, which both solvers are shown to implement.
- **Proofs.** `Prove` is a whole `Prove*` call: nonces, commitments, absorbing,
  challenge, fold, responses. `ProveFails` is its error returns: all of them
  come before the transcript is touched. `VerifyRejectsInput` is the early
  returns of `Verify*` (transcript untouched); `Verify` is the rest, which
  advances the transcript whether or not the equations hold. Passing a nil
  transcript is a reset followed by one proof. A verifier also checks proofs
  against other statements (`Claims`), and reads an `Equality2Proof` as an
  `ApplyPendingProof` and back, since the two have one size and layout.
  One operator `Absorb` stands for what a kind appends: `pop.go` and
  `commitment_equality.go` have one function for it too; `dleq.go`,
  `apply_pending_proof.go` and `equality.go` write the sequence out in the prover
  and again in the verifier, and the two copies were compared by reading, label by
  label.
- **Framing.** `state` is the byte slice of each transcript. `Append1` is
  `AppendBytes`, to which `AppendPoint` and `AppendScalar` reduce; `Challenge` is
  `ChallengeScalar`, which appends a prefixed label and folds the hash in without
  a prefix. `domain` and `ops` are history: the properties compare the calls of
  two transcripts that hold the same bytes.
- **Serialization.** A byte string is a sequence of 32-byte words, because every
  field of every layout starts at a multiple of 32 bytes; a length that is no
  multiple of 32 is refused like any other wrong length. A struct of any of the
  eight types is its scalars and its points in the order of `Marshal`. `Build`
  puts a computed value into a variable, `Send` marshals a variable, `Garble`
  and `Resize` alter the bytes, `Receive` unmarshals them into a variable that
  may hold anything a program can have put there, leftovers of a failed call
  included. gnark's point decoder (`G1Decode`, with its compressed forms) is
  external; what it leaves behind on failure is a choice over the states its
  field-by-field decoding can produce.
- **Memo.** `EncryptMemo` and its two kinds of failure (`EncryptMemoRefuses`,
  `EncryptMemoRngFails`), `OpenMemo` for `DecryptMemo`. `AlterMemo` is the
  network: another ephemeral key or point format, another nonce, the sealed
  message of another memo, a changed byte, bytes lost or added. Senders may run
  a build with another `memoKDFDomain`.

Definitions named `<Definition>_<Change>` and marked "Mutant" are faulty
variants: each property is checked to fail when the variant takes the place of
the definition.

## 3. Runs

| run | instance | shows |
|---|---|---|
| `bsgs` | q = 37, halfBits 0..3 with limit 2, bases identity, G, 5G, -G, all 37 queries | `BabySteps`, `SearchProgress`, `AnswerCorrect`; refinement of `DiscreteLog`; termination |
| `split` | q = 131, uint64 scaled to 5 bits, every pair of splitBits <= 4 and hiHalfBits <= 3 (limits 3 and 2), all queries | `SplitProgress`; answers exact when the range fits, exact modulo 2^Width otherwise; termination, within the documented number of iterations (`SplitStepsBounded`) |
| `split_contract` | the pairs whose range fits | refinement of `DiscreteLog` over the advertised range |
| `split_wrap` | all accepted pairs | **violation**: finding 1 |
| `elgamal` | q = 13, 2 keys, 2 slots, amounts {0,1,3}, scalars {0,1,5}, range 3, 6 calls | `Homomorphic`, `DecryptExact`, `ForeignKeyLearnsNothing`, `RefusedIsPubliclyReadable` (the two sides of the line `Validate` draws), `KeyPairs` |
| `elgamal_zero` | the same | **violation**: finding 2 |
| `session_keys` | q = 11, 2 contexts, possession and DLEQ proofs, nonces {0,2}, 2 proofs, 2 verifications, 1 reset, 1 failure | the four transcript properties |
| `session_transfer` | the same with apply-pending, commitment-equality, two- and three-key equality proofs, nonce 2 | the same |
| `serialization` | p = 7, q = 13, flags of weight 8; two variables of each of the eight types, of `Equality2Proof` with `ApplyPendingProof` (one size) and of `Ciphertext` with `PopProof` (two sizes); 5 calls, 1 alteration | `AcceptedReencodes`, `DistinctBytesDistinctValues`, `AcceptedIsSound`, `UndamagedRoundTrip`, `FailureSplitsReceiver` |
| `memo` | q = 7, three owners (one with secret key 0), lengths 0, 1024 and 1025, ephemeral secrets {0,2,4}, cuts of 17 bytes (an empty memo is then shorter than its header) and of 1, and an addition of 1; 2 memos, 1 alteration, 1 opening | `MemoDelivered`, `MemoAuthentic`, `SharedSecretNotPublic` |
| `framing` | bytes of one bit, prefixes and hashes of 2 bytes; two transcripts of up to 2 calls each, lengths below 4 | `NoTwoSequencesCollide`, `ScheduledRunsNeverCollide` |
| `framing_long` | data of length 4 | **violation**: finding 3 |

Why the bounds suffice. The solver runs ask every point of the group, so both
ends of every range, values just outside it and values far outside occur; the
scaled widths keep the order `2*MaxHalfBits < Width < MaxSplitBits +
2*MaxHalfBits` of the code (60 < 64 < 92), which decides where wrapping can
happen. Six calls let a key be generated, several ciphertexts be made and
combined (with themselves too), go negative or past the range, reach C1 =
identity, and be decrypted. Two proofs and two verifications are the least that
make order, repetition and misdelivery differ; one reset and one failed prover
call fall at every place in between. Four challenge values let every hash input
of a session get its own. The curve y^2 = x^3 + 3 over the field of 7 elements
has 13 points. As for BN254, p fits below the flag bits and q fits a word, and
every kind of word occurs: reduced and not reduced for each of the two fields,
and with each of the four flag patterns; five
calls allow a failed read into a used variable, a marshalling of what it left
and a read of that. One alteration on two memos makes every splice. `Cap`, `MaxCalls`, `MaxProofs`, `MaxVerifies`,
`MaxResets`, `MaxFaults`, `MaxDamage`, `MaxMemos`,
`MaxOpens` and `MaxOps` are the named bounds. Deadlock checking is off where
the bounds stop a run or a caller may simply stop calling.

Symmetry is used on key and slot names, on contexts and on the names of
transcripts, in runs with invariants only.

Fairness. `TableSpec` and `SplitSpec` assume weak fairness of the loop steps
only: the loops are sequential code that nothing suspends. Whether anyone calls
the solver is not assumed. No other specification has liveness properties.

## 4. Findings

1. *Split range past uint64* (`split_decryption.go:97`). The constructor accepts
   up to 32 + 2*30 = 92 bits, the doc comment promises coverage of the whole
   product, but `hi*n + lo` is computed in `uint64`: for a value of 2^64 or more
   (a sum of two large encrypted amounts) the solver returns the amount modulo
   2^64 with a nil error. `SplitAnswerModWidth` states what does hold for every
   accepted pair, `SplitAnswerExact` what holds when the range fits.
2. *Comment of `Validate`* (`ciphertext.go:68`). It calls C2 = identity "a
   legitimate encoding of amount=0 with randomness=0"; with randomness 0 also
   C1 is the identity, which the same function rejects.
3. *Length prefixes* (`transcript.go:39`). The comment of `AppendBytes` says that
   "no two distinct (label, data) sequences can produce the same byte
   concatenation". Lengths are truncated to `uint32`, so that data of 2^32 bytes
   carries the prefix 0: one append of it equals two appends of shorter data.
   `SequencesNeverCollide` proves the comment for lengths that fit.

Three behaviours the properties state as they are, because nothing in the
repository says otherwise: `EncryptMemo` returns no error for the ephemeral
secret 0, though nobody can open such a memo (`MemoDelivered` excludes it);
`Ciphertext{}` and the difference of a ciphertext with itself are marshalled
but cannot be read back (`UndamagedRoundTrip`); after a failed `Unmarshal` the
receiver is a mixture of old and new fields, so that a caller who ignores the
error can marshal a value nobody computed (`FailureSplitsReceiver` says which
mixtures, `AcceptedIsSound` that an unsound one is accepted nowhere).

## 5. Proofs

Everything below is proved for every prime `q`, all parameters and every number
of steps. Assumptions: `QAssumption` and `QPrime` (non-zero scalars have
inverses); for the solvers `PowAssumption` (2^h is a positive number and
n*n <= 2^Width for every accepted halfBits; true of 30 and 64) and
`SplitAssumption`; for ElGamal `NoGroupWrap` (balances and the solver's range
together stay below q, about 2^254) and the separation of the history values;
for the proof sessions `SessionAssumption` and `StatementAssumption` (provers are
called with points of the curve, scalars and true statements, verifiers with
anything of the six shapes, points off the curve and nil included);
`MemoAssumption` and `SerializationAssumption` give the constants their types
(p fits below the flag bits, q fits a word); for the framing `FramingAssumption`
(types, at least one byte of prefix) and `PowerAssumption` (the defining equations
of `Base^i` up to the width of the prefix). TLC evaluates the assumptions on
the instances of the runs.

- `BN254_proofs`: arithmetic modulo q from the defining property of `%` and
  `\div`: congruences, closure of the group operations, no zero divisors.
- `DecryptionTable_proofs`: the inductive invariant is type correctness with
  `BabySteps`, `SearchProgress` and `AnswerCorrect`. `AnswerCorrect` alone is
  not inductive: that the value returned is a logarithm needs the content of
  the map and the position of `gamma`; that an error is justified needs
  `SearchProgress`, which says that the values of the giant steps taken are not
  logarithms. A step of the search uses that a multiple below
  n of the base is in the map: a miss rules out n more values.
  `TableImplementsContract` maps the two loops to the single step `Reply`.
- `SplitDecryptionTable_proofs`: the inductive invariant `SplitInv` is the inner
  solver's invariant with `SplitProgress`, `SplitAnswerModWidth` and `Nested`,
  which ties the program counters of the two loops together and says that an
  inner error rules out the whole range of high parts: without it a failed inner
  call would not justify the next low part. The inner solver's steps keep its
  own invariant by the lemmas of `DecryptionTable_proofs`. `SplitCallsAreBounded`
  shows that every step uses up some of `SplitWork`, which bounds a search by
  2^splitBits * (2^hiHalfBits + 3) + 1 steps, and `SplitCallsNeverStuck` that a
  call which has not returned can take one (`TableCallsAreBounded` says both of
  the plain solver): what termination needs besides fairness.
  `SplitSolverImplementsContract` needs `RangesFit` (every accepted pair of
  parameters has a range that fits `uint64`); finding 1 shows that it is false
  without.
- `ElGamal_proofs`: the inductive invariant `EGInv` is `TypeOK`, `KeyPairs` and
  `Homomorphic`. `KeyPairs` is needed because a key name whose public key is the
  identity may be generated again, and owns no ciphertext. `StoreInv` says that
  storing a ciphertext of the right form keeps the invariant; `Encrypt`, `Add`
  and `Sub` then are one algebraic identity each. `DecryptExact` follows because
  congruence to a balance inside the cap is equality; `ForeignKeyLearnsNothing`
  because r*(x - y) is not 0 modulo a prime for r, x - y not 0; and
  `RefusedIsPubliclyReadable` because the only pairs of curve points `Validate`
  refuses have C1 = identity, hence r = 0, and then every key asks the solver
  about v*G: together, `Validate` refuses exactly what anybody can read.
- `ProofSession_proofs`, the algebra: for every linear system with up to four
  secrets, completeness (`SigmaCompleteness`), that one response fits one
  challenge only unless the images are the identity (`OneChallengePerResponse`:
  the reason why the verifiers refuse degenerate keys and ciphertexts), and
  special soundness (`SigmaSpecialSoundness`: from two accepted responses to one
  commitment the secrets are computed as (s1 - s2)/(e1 - e2)).
- `ProofSession_proofs`, what the proofs prove: `Means(st, w)` writes down what the
  doc comments of the six proof types say of a statement, in terms of keys and of
  what their holders decrypt, without matrices. `CheckedTyped` shows that the
  verifier's early returns leave only points of the curve in the equations, and
  `SolutionsMeanStatements` that a solution of the equations is a `w` with
  `Means(st, w)`, kind by kind. With special soundness, `TwoAnswersProveStatement`:
  two accepted answers to one commitment give such secrets; and
  `FalseStatementNeedsOneChallenge`: for a false statement and a commitment there
  is at most one challenge that any response satisfies, the chance that the
  comment of `ChallengeScalar` reckons with. Possession and commitment equality
  are never false in a cyclic group (some key, some opening always exists); for
  them the content is that the secrets are computed from the answers.
- `ProofSession_proofs`, the sessions: the inductive invariant `SessInv` says that the oracle
  answers different inputs differently, that every proof on the network was
  computed by a prover for the challenge of the transcript it remembers, and
  that every transcript is the one its history leads to. `Chain` states the last
  part without recursion: a history is empty, or ends in a proof on the network
  that remembers the history and the transcript before it. `HistoryDetermines`
  concludes that equal histories give equal transcripts, which is
  `TranscriptsInSync`. `InOrderProofsAccepted` then is completeness,
  `AcceptedOnlyOnItsTranscript` is `OneChallengePerResponse` with the fact that
  different transcripts give different hash inputs, and
  `ChallengeBindsStatement` is the injectivity of the field lists of each kind,
  with the labels keeping the kinds apart.
- `TranscriptFraming_proofs`: for any number of transcripts and calls, all byte
  values and all prefix widths, under `LengthsFit` (every domain, label and datum is
  shorter than `Base^PrefixLen`, in the code 2^32 bytes; finding 3 is what happens
  otherwise). The truncated prefix is injective on such lengths (`PrefixInjective`,
  digit by digit), so a prefixed string, and with it a frame, is determined by any
  byte string it starts. Instead of a recursive decoder the invariant `FrameInv`
  has the positions of the cuts: a transcript is its domain and its calls one
  behind the other. Two transcripts with the same bytes then have the same cuts,
  by a least counterexample (`SameCuts`), and the same calls (`ReadOnce`). A
  challenge and an append are not told apart by their bytes, which is why
  `ScheduledRunsNeverCollide` speaks of runs that agree on where the challenges are.
- `Memo_proofs`: the inductive invariant `MemoInv` says how each memo was made
  (`SentInv`), that everything sealed on the network was sealed by some
  `EncryptMemo`, however memos are altered and spliced (`NetInv`), and that what
  was opened is what `DecryptMemo` returns (`OpenedInv`). Delivery is the
  commutation r*(sk*G) = sk*(r*G); authenticity follows because the key and the
  additional data contain domain, ephemeral key and recipient; and the shared
  secret is not the identity because r*sk is not 0 modulo a prime.
- `Serialization_proofs`: the inductive invariant `SerInv` is about memory, the
  bytes under way, the last call (`LastInv`: an outcome of `Unmarshal` on an
  earlier value of the variable) and everything accepted so far (`LogInv`). The
  work is in the lemmas on `Unmarshal`: the words of an encoding, that a word or
  a slot that is accepted re-encodes to itself, and what each of the four kinds
  of outcome leaves in the receiver, where the first bad field is a minimum and
  comes from well-founded induction on the natural numbers.

Only model-checked: the temporal statements of termination, `SearchTerminates`,
`BuildTerminates` and `SplitTerminates`, because the prover has no liveness under
fairness and no ENABLED. Their safety half, a measure that every step decreases and
the absence of stuck states, is proved.

## 6. Not modelled

- Hash collisions, and provers other than the library's: proofs in the sessions
  come from `Prove*`. That the verification equations admit no others without
  the secrets is `TwoAnswersProveStatement` and `FalseStatementNeedsOneChallenge`;
  the probabilistic argument from there to Fiat-Shamir proofs (rewinding, the small
  bias of reduced hashes) is not modelled. HKDF and AES-GCM are
  symbolic; two uses of one GCM nonce under one key are not ruled out and not
  held against confidentiality, of which nothing is claimed.
- The bits of `uint32` and of field elements: words and lengths are numbers.
- Nil pointers the code dereferences without a check (a programming error that
  panics), `IsZero` (a pure test that nothing calls), formatting of errors, tests
  and benchmarks.
- An account built from the parts (register, transfer, apply pending, rotate):
  the repository's README and tests use the library so, but no code under `src/`
  implements it.

## 7. Plan

Every operation of the library that changes state is an action of a module.
What is left: a session that reads its proofs with `Serialization` from damaged
bytes, instead of taking them as values from the network.
