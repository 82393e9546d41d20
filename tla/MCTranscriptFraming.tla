------------------------ MODULE MCTranscriptFraming ------------------------
(* Bits for bytes and prefixes of two bits: lengths up to 3 fit, 4 does not. *)
EXTENDS TranscriptFraming, TLC

CONSTANTS prover, verifier
Parties == {prover, verifier}
PartySymmetry == Permutations(Parties)

MCDomains == {<<>>, <<1, 0>>}
MCLabels == {<<>>, <<0>>, <<0, 0>>}
ShortData == {<<>>, <<0>>, <<1, 0>>, <<0, 1, 1>>}
LongData == {<<>>, <<0>>, <<0, 0, 0, 0>>}
Single == {<<>>}
============================================================================
