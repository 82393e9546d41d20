-------------------------- MODULE TranscriptFraming --------------------------
(***************************************************************************)
(* transcript.go at the level of bytes: every label and every datum is     *)
(* preceded by its length as a little-endian number of PrefixLen bytes,    *)
(* truncated to that width, and a challenge appends its label and then the *)
(* bare hash.  Module Transcript works with the sequence of calls instead; *)
(* this module asks when the bytes determine that sequence, by letting     *)
(* several transcripts be written side by side and comparing them.         *)
(***************************************************************************)
EXTENDS Integers, Sequences

CONSTANTS
    Base,         \* 256, the number of byte values
    PrefixLen,    \* 4, the bytes of a length prefix
    HashLen,      \* 32, the bytes of a Keccak256 output
    Transcripts,  \* names of transcripts, those of a prover and a verifier say
    Domains,      \* the domain separators
    Labels,       \* the labels callers use
    Data,         \* the data callers append
    MaxOps        \* bound on the calls of a run

Byte == 0..(Base - 1)

ASSUME FramingAssumption ==
    /\ {Base, PrefixLen, HashLen, MaxOps} \subseteq Nat
    /\ Base > 1 /\ PrefixLen > 0
    /\ Domains \cup Labels \cup Data \subseteq Seq(Byte)

\* Exponentiation, as far as the digits of a prefix need it
ASSUME PowerAssumption ==
    /\ Base ^ 0 = 1
    /\ \A i \in 0..PrefixLen : Base ^ i \in Nat \ {0} /\ Base ^ (i + 1) = Base * Base ^ i

Hashes == [1..HashLen -> Byte]

VARIABLES
    state,    \* Transcript.state
    domain,   \* history: the argument of NewTranscript
    ops       \* history: the calls made since

framingVars == <<state, domain, ops>>

-----------------------------------------------------------------------------
\* binary.LittleEndian.PutUint32(uint32(n)): the digits beyond are dropped.
PutUint32(n) == [i \in 1..PrefixLen |-> (n \div Base ^ (i - 1)) % Base]

Prefixed(s) == PutUint32(Len(s)) \o s

NewTranscript(d) == Prefixed(d)

\* Mutant: the label is not length-prefixed.
AppendBytes_BareLabel(t, label, data) == t \o label \o Prefixed(data)

AppendBytes(t, label, data) == t \o Prefixed(label) \o Prefixed(data)

\* Mutant: the label is not length-prefixed.
ChallengeScalar_BareLabel(t, label, hash) == t \o label \o hash

\* The state that is hashed, followed by the hash of it.
ChallengeScalar(t, label, hash) == t \o Prefixed(label) \o hash

Init ==
    /\ domain \in [Transcripts -> Domains]
    /\ state = [t \in Transcripts |-> NewTranscript(domain[t])]
    /\ ops = [t \in Transcripts |-> <<>>]

\* AppendPoint and AppendScalar are AppendBytes of a fixed-size encoding.
Append1(t, label, data) ==
    /\ Len(ops[t]) < MaxOps
    /\ state' = [state EXCEPT ![t] = AppendBytes(@, label, data)]
    /\ ops' = [ops EXCEPT ![t] = Append(@, [op |-> "append", label |-> label, data |-> data])]
    /\ UNCHANGED domain

\* Keccak256 may return any hash.
Challenge(t, label, hash) ==
    /\ Len(ops[t]) < MaxOps
    /\ state' = [state EXCEPT ![t] = ChallengeScalar(@, label, hash)]
    /\ ops' = [ops EXCEPT ![t] = Append(@, [op |-> "challenge", label |-> label, data |-> hash])]
    /\ UNCHANGED domain

Next ==
    \E t \in Transcripts, label \in Labels :
        \/ \E data \in Data : Append1(t, label, data)
        \/ \E hash \in Hashes : Challenge(t, label, hash)

Spec == Init /\ [][Next]_framingVars

-----------------------------------------------------------------------------
(* Properties *)

OnlyAppends(calls) == \A i \in DOMAIN calls : calls[i].op = "append"

\* Which of the calls were challenges: prover and verifier of one protocol
\* agree on this.
Schedule(calls) == [i \in DOMAIN calls |-> calls[i].op]

\* transcript.go, comment of AppendBytes: "no two distinct (label, data)
\* sequences can produce the same byte concatenation", and NewTranscript: "no
\* two distinct (domain, data-sequence) pairs can produce the same byte stream".
NoTwoSequencesCollide ==
    \A t, u \in Transcripts :
        OnlyAppends(ops[t]) /\ OnlyAppends(ops[u]) /\ state[t] = state[u]
        => domain[t] = domain[u] /\ ops[t] = ops[u]

\* With challenges in between, whose hashes ChallengeScalar folds in without a
\* prefix: two runs of one protocol that differ in any label, datum or hash
\* never agree on the bytes that the next challenge hashes.
ScheduledRunsNeverCollide ==
    \A t, u \in Transcripts :
        Schedule(ops[t]) = Schedule(ops[u]) /\ state[t] = state[u]
        => domain[t] = domain[u] /\ ops[t] = ops[u]
==============================================================================
