---------------------------- MODULE DiscreteLog ----------------------------
(***************************************************************************)
(* What a Decryptor promises (decryption_table.go, interface Decryptor):   *)
(* a solver is constructed once for a base point and a range, or its       *)
(* constructor panics; from then on every query DiscreteLog(mG) returns a  *)
(* value v of the range with v*base = mG, and returns an error only when   *)
(* the range holds no such value.                                          *)
(***************************************************************************)
EXTENDS Decryptor

VARIABLES
    solver,    \* "none" | "ready" | "busy" | "panicked"
    dlBase,    \* the base point of the constructed solver
    dlRange,   \* the solver covers the values [0, dlRange)
    query,     \* the argument mG of the current or last call
    answer     \* what the last call returned

dlVars == <<solver, dlBase, dlRange, query, answer>>

DLInit ==
    /\ solver = "none"
    /\ dlBase = Identity
    /\ dlRange = 0
    /\ query = Identity
    /\ answer = NoAnswer

Construct ==
    /\ solver = "none"
    /\ solver' = "ready"
    /\ dlBase' \in Point
    /\ dlRange' \in Nat
    /\ UNCHANGED <<query, answer>>

Panic ==
    /\ solver = "none"
    /\ solver' = "panicked"
    /\ UNCHANGED <<dlBase, dlRange, query, answer>>

Ask(P) ==
    /\ solver = "ready"
    /\ solver' = "busy"
    /\ query' = P
    /\ answer' = NoAnswer
    /\ UNCHANGED <<dlBase, dlRange>>

Reply ==
    /\ solver = "busy"
    /\ solver' = "ready"
    /\ answer' \in Answers(dlBase, dlRange, query)
    /\ UNCHANGED <<dlBase, dlRange, query>>

DLNext ==
    \/ Construct
    \/ Panic
    \/ \E P \in Point : Ask(P)
    \/ Reply

DLSpec == DLInit /\ [][DLNext]_dlVars
=============================================================================
