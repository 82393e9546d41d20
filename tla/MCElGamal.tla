----------------------------- MODULE MCElGamal -----------------------------
(* Small instance of ElGamal.  Amounts past the solver's range are           *)
(* encrypted, and balances go below zero and past the range.                 *)
EXTENDS ElGamal, TLC

KeySlotSymmetry == Permutations(Keys) \cup Permutations(Slots)
=============================================================================
