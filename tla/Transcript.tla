----------------------------- MODULE Transcript -----------------------------
(***************************************************************************)
(* transcript.go, at the level of frames.  Every label and every datum is  *)
(* length-prefixed in the byte stream, so the stream is determined by, and *)
(* (short of a folded hash that reads as a length prefix) determines the   *)
(* sequence of frames; a transcript is that sequence.                      *)
(* Keccak256 is a random oracle: its output on a new input is a fresh      *)
(* scalar, different from every output given before (no collisions), and   *)
(* on an old input it is what it was.                                      *)
(***************************************************************************)
EXTENDS Integers, Sequences, FiniteSets

CONSTANT Challenges      \* the scalars the oracle gives out

NewTranscript(domain) == << <<"domain", domain>> >>

\* Mutant: the state is overwritten.
AppendFrames_Overwrite(t, frames) == frames

\* The calls AppendBytes(label, data), one per frame <<label, data>>.
AppendFrames(t, frames) == t \o frames

\* ChallengeScalar hashes the state with the label appended ...
HashInput(t, label) == Append(t, <<"challenge", label>>)

\* Mutant: the oracle's answer is not reduced to a scalar.
Hashed_Raw(oracle, input, e, oracle2) ==
    IF input \in DOMAIN oracle
    THEN e = oracle[input] /\ oracle2 = oracle
    ELSE oracle2 = [x \in DOMAIN oracle \cup {input} |-> IF x = input THEN -1 - e ELSE oracle[x]]

\* ... for which the oracle answers e, and then holds the table oracle2 ...
Hashed(oracle, input, e, oracle2) ==
    IF input \in DOMAIN oracle
    THEN e = oracle[input] /\ oracle2 = oracle
    ELSE /\ e \in Challenges \ {oracle[x] : x \in DOMAIN oracle}
         /\ oracle2 = [x \in DOMAIN oracle \cup {input} |-> IF x = input THEN e ELSE oracle[x]]

\* ... and folds the hash back into the state.
Folded(t, label, e) == Append(HashInput(t, label), <<"hash", e>>)
=============================================================================
