----------------------------- MODULE Decryptor -----------------------------
(***************************************************************************)
(* The answers a Decryptor (decryption_table.go, interface Decryptor) may  *)
(* give: the contract that Decrypt relies on and that both solvers are     *)
(* shown to implement.                                                     *)
(***************************************************************************)
EXTENDS BN254

NoAnswer == [ok |-> FALSE, val |-> 0]     \* (0, error)
Solved(v) == [ok |-> TRUE, val |-> v]     \* (v, nil)

\* A solver for base b and range [0, n), asked about the point P, returns a
\* logarithm of P inside the range, and an error only if there is none.
Answers(b, n, P) ==
    LET logs == {v \in 0..(n-1) : ScalarMul(v, b) = P}
    IN  IF logs = {} THEN {NoAnswer} ELSE {Solved(v) : v \in logs}
=============================================================================
