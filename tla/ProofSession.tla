---------------------------- MODULE ProofSession ----------------------------
(***************************************************************************)
(* Provers and verifiers that run several proofs over one transcript       *)
(* (transcript.go and the Prove/Verify pairs).  A context is the domain    *)
(* and identity a session is bound to; each has a prover's transcript and  *)
(* a verifier's.  Proofs travel over a network that loses, duplicates and  *)
(* reorders them and delivers them to verifiers of other contexts; the     *)
(* verifier supplies the statement itself.  Prover errors (validation,     *)
(* random source) happen between proofs and are followed by retries.       *)
(***************************************************************************)
EXTENDS ProofKinds, Transcript

CONSTANTS
    Contexts,     \* session contexts
    Instances,    \* what provers prove: [st |-> statement, w |-> secrets]
    Claims,       \* further statements verifiers check proofs against
    NonceVals,    \* the nonces the random source delivers
    MaxProofs,    \* bound on the proofs made
    MaxVerifies,  \* bound on the verifications
    MaxResets,    \* bound on new transcripts
    MaxFaults     \* bound on failed Prove calls

ASSUME SessionAssumption ==
    /\ Challenges \subseteq Scalar /\ NonceVals \subseteq Scalar
    /\ {MaxProofs, MaxVerifies, MaxResets, MaxFaults} \subseteq Nat
    /\ \A x \in Instances : ProverChecks(x.st) =>
          InRelation(Matrix(x.st), Image(x.st), x.w)

\* Provers are called with points of the curve and scalars, verifiers with
\* whatever a statement may hold.
ASSUME StatementAssumption ==
    /\ {x.st : x \in Instances} \cup Claims \subseteq Statements
    /\ \A x \in Instances :
          /\ x.w \in [Columns -> Scalar]
          /\ \A row \in DOMAIN Matrix(x.st) :
                Matrix(x.st)[row] \in [Columns -> Point] /\ Image(x.st)[row] \in Point

VARIABLES
    ptr,      \* the provers' transcripts
    vtr,      \* the verifiers' transcripts
    oracle,   \* what Keccak256 has answered so far
    net,      \* proofs sent; they stay deliverable
    sent,     \* history: the proofs made on the prover's transcript
    seen,     \* history: the proofs and statements absorbed by the verifier's transcript
    drawn,    \* history: who drew which challenge, for which statement
    verdict,  \* {} or the outcome of the last Verify call
    count     \* numbers of proofs, verifications, resets and faults

vars == <<ptr, vtr, oracle, net, sent, seen, drawn, verdict, count>>

Init ==
    /\ ptr = [c \in Contexts |-> NewTranscript(c)]
    /\ vtr = [c \in Contexts |-> NewTranscript(c)]
    /\ oracle = [x \in {} |-> 0]
    /\ net = {}
    /\ sent = [c \in Contexts |-> <<>>]
    /\ seen = [c \in Contexts |-> <<>>]
    /\ drawn = {}
    /\ verdict = {}
    /\ count = [proofs |-> 0, verifies |-> 0, resets |-> 0, faults |-> 0]

\* The transcript t after the fields of st and the commitments R.
Absorb(t, st, R) ==
    AppendFrames(AppendFrames(t, Fields(st)),
                 [a \in DOMAIN R |-> <<CommitLabels(st)[a], R[a]>>])

\* Nonce vectors: one random scalar per secret.
NonceVectors(st) ==
    {k \in [Columns -> NonceVals \cup {0}] :
        \A c \in Columns : IF c <= Secrets(st) THEN k[c] \in NonceVals ELSE k[c] = 0}

-----------------------------------------------------------------------------
\* Prove*: nonces, commitments, absorb, challenge, responses.
Prove(c, x, k, e) ==
    LET R == Commit(Matrix(x.st), k)
        t == Absorb(ptr[c], x.st, R)
        input == HashInput(t, ChallengeLabel(x.st))
        m == [st |-> x.st, R |-> R, s |-> Respond(k, e, x.w),
              ctx |-> c, pre |-> ptr[c], prev |-> sent[c]]
    IN  /\ count.proofs < MaxProofs
        /\ ProverChecks(x.st)
        /\ Hashed(oracle, input, e, oracle')
        /\ ptr' = [ptr EXCEPT ![c] = Folded(t, ChallengeLabel(x.st), e)]
        /\ net' = net \cup {m}
        /\ sent' = [sent EXCEPT ![c] = Append(@, m)]
        /\ drawn' = drawn \cup {[in |-> input, st |-> x.st, R |-> R]}
        /\ count' = [count EXCEPT !.proofs = @ + 1]
        /\ verdict' = {}
        /\ UNCHANGED <<vtr, seen>>

\* Mutant: the proof type is absorbed before the nonces are drawn.
ProveFails_AfterAppend(c) ==
    /\ count.faults < MaxFaults
    /\ count' = [count EXCEPT !.faults = @ + 1]
    /\ ptr' = [ptr EXCEPT ![c] = AppendFrames(@, << <<"proof_type", "failed">> >>)]
    /\ verdict' = {}
    /\ UNCHANGED <<vtr, oracle, net, sent, seen, drawn>>

\* Prove* returns an error: a rejected argument, or the random source failing
\* at any of the nonces.  The transcript has not been touched.
ProveFails(c) ==
    /\ count.faults < MaxFaults
    /\ count' = [count EXCEPT !.faults = @ + 1]
    /\ ptr' = ptr
    /\ verdict' = {}
    /\ UNCHANGED <<vtr, oracle, net, sent, seen, drawn>>

\* Verify*: the early returns leave the transcript alone; after them it is
\* advanced whatever the equations say.
VerifyRejectsInput(v, m, st) ==
    /\ count.verifies < MaxVerifies
    /\ ~VerifierChecks(st, m.R)
    /\ verdict' = {[m |-> m, st |-> st, ctx |-> v, at |-> vtr[v], before |-> seen[v],
                    ok |-> FALSE]}
    /\ count' = [count EXCEPT !.verifies = @ + 1]
    /\ UNCHANGED <<ptr, vtr, oracle, net, sent, seen, drawn>>

Verify(v, m, st, e) ==
    LET t == Absorb(vtr[v], st, m.R)
        input == HashInput(t, ChallengeLabel(st))
    IN  /\ count.verifies < MaxVerifies
        /\ VerifierChecks(st, m.R)
        /\ Hashed(oracle, input, e, oracle')
        /\ vtr' = [vtr EXCEPT ![v] = Folded(t, ChallengeLabel(st), e)]
        /\ seen' = [seen EXCEPT ![v] = Append(@, [m EXCEPT !.st = st])]
        /\ drawn' = drawn \cup {[in |-> input, st |-> st, R |-> m.R]}
        /\ verdict' = {[m |-> m, st |-> st, ctx |-> v, at |-> vtr[v], before |-> seen[v],
                        ok |-> Accepts(Matrix(st), Image(st), m.R, m.s, e)]}
        /\ count' = [count EXCEPT !.verifies = @ + 1]
        /\ UNCHANGED <<ptr, net, sent>>

\* A caller starts over with a new transcript (or passes none).
ProverResets(c) ==
    /\ count.resets < MaxResets
    /\ sent[c] # <<>>
    /\ ptr' = [ptr EXCEPT ![c] = NewTranscript(c)]
    /\ sent' = [sent EXCEPT ![c] = <<>>]
    /\ count' = [count EXCEPT !.resets = @ + 1]
    /\ verdict' = {}
    /\ UNCHANGED <<vtr, oracle, net, seen, drawn>>

VerifierResets(v) ==
    /\ count.resets < MaxResets
    /\ seen[v] # <<>>
    /\ vtr' = [vtr EXCEPT ![v] = NewTranscript(v)]
    /\ seen' = [seen EXCEPT ![v] = <<>>]
    /\ count' = [count EXCEPT !.resets = @ + 1]
    /\ verdict' = {}
    /\ UNCHANGED <<ptr, oracle, net, sent, drawn>>

\* Proof bytes do not name their type: Equality2Proof and ApplyPendingProof
\* have one size and layout, so either is read as the other.
SameLayout(k1, k2) == k1 = k2 \/ {k1, k2} = {"equality2", "apply_pending"}

\* The statements a verifier may check a proof m against.
Checked(m) == {m.st} \cup {st \in Claims : SameLayout(st.kind, m.st.kind)}

Next ==
    \/ \E c \in Contexts, x \in Instances : \E k \in NonceVectors(x.st), e \in Challenges :
          Prove(c, x, k, e)
    \/ \E c \in Contexts : ProveFails(c)
    \/ \E v \in Contexts, m \in net : \E st \in Checked(m) : VerifyRejectsInput(v, m, st)
    \/ \E v \in Contexts, m \in net : \E st \in Checked(m), e \in Challenges :
          Verify(v, m, st, e)
    \/ \E c \in Contexts : ProverResets(c)
    \/ \E v \in Contexts : VerifierResets(v)

Spec == Init /\ [][Next]_vars

-----------------------------------------------------------------------------
(* Properties *)

SessionTypeOK ==
    /\ DOMAIN ptr = Contexts /\ DOMAIN vtr = Contexts
    /\ \A x \in DOMAIN oracle : oracle[x] \in Challenges
    /\ \A m \in net : m.st.kind \in Kinds /\ m.ctx \in Contexts
    /\ \A d \in verdict : d.ok \in BOOLEAN /\ d.m \in net

\* An honest proof is accepted by every verifier of its context that has
\* absorbed exactly the proofs made before it, whatever was lost, duplicated,
\* delivered elsewhere or failed in between, unless an early return of the
\* verifier refuses the statement or a zero nonce.
InOrderProofsAccepted ==
    \A d \in verdict :
        d.st = d.m.st /\ d.ctx = d.m.ctx /\ d.before = d.m.prev
            /\ VerifierChecks(d.st, d.m.R)
        => d.ok

\* A proof is accepted for its own statement only on the transcript it was
\* made on: same context, same proofs before it.  Replays into another
\* context, out of order, or twice on one transcript are refused.
AcceptedOnlyOnItsTranscript ==
    \A d \in verdict : d.st = d.m.st /\ d.ok => d.at = d.m.pre

\* A verifier that has absorbed exactly the prover's proofs has the prover's
\* transcript, so the next proof will verify; failed Prove calls in between
\* do not matter.
TranscriptsInSync ==
    \A c \in Contexts : seen[c] = sent[c] => vtr[c] = ptr[c]

\* A challenge is drawn for one statement and one commitment only: everything
\* the verification equations use, but the responses, is in the hash input.
ChallengeBindsStatement ==
    \A d1, d2 \in drawn : d1.in = d2.in => d1.st = d2.st /\ d1.R = d2.R
=============================================================================
