--------------------------- MODULE MCSerialization ---------------------------
(* A curve of 13 points over the field of 7 elements, words of 5 bits, and  *)
(* for every type a value whose fields all differ from their neighbours.    *)
EXTENDS Serialization

CONSTANTS a, b

\* (1,2), (2,5), (3,3), (5,4), (6,3), (1,5): points on y^2 = x^3 + 3 mod 7
Curve6 == << [X |-> 1, Y |-> 2], [X |-> 2, Y |-> 5], [X |-> 3, Y |-> 3],
             [X |-> 5, Y |-> 4], [X |-> 6, Y |-> 3], [X |-> 1, Y |-> 5] >>

Sample(t) == [s |-> [i \in 1..Scalars(t) |-> (5 * i + 7) % q],
              P |-> [j \in 1..Points(t) |-> Curve6[j]]]

\* C1 - C1 leaves the identity in C1.
Drained == [s |-> <<>>, P |-> <<Infinity, [X |-> 2, Y |-> 2]>>]

MCBuilt == [t \in Types |-> IF t = "ciphertext" THEN {Sample(t), Drained} ELSE {Sample(t)}]

\* Two variables of one type, and pairs of types that may be confused.
MCTypings ==
    {[r \in {a, b} |-> t] : t \in Types}
    \cup {[r \in {a, b} |-> IF r = a THEN "equality2" ELSE "apply_pending"],
          [r \in {a, b} |-> IF r = a THEN "ciphertext" ELSE "pop"]}
==============================================================================
