------------------------------- MODULE MCMemo -------------------------------
(* Three owners, one with the degenerate secret key 0; messages at both     *)
(* size limits and one past the upper one; an addition and cuts that make   *)
(* a memo just too long, just too short, and shorter than its header.       *)
EXTENDS Memo

CONSTANTS alice, bob, zero

MCSecretKey == [o \in {alice, bob, zero} |-> IF o = alice THEN 3 ELSE IF o = bob THEN 5 ELSE 0]
MCCuts == {-17, -1, 1}
MCTexts == {[id |-> "empty", len |-> 0], [id |-> "full", len |-> 1024],
            [id |-> "long", len |-> 1025]}
=============================================================================
