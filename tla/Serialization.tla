---------------------------- MODULE Serialization ----------------------------
(***************************************************************************)
(* serialization.go, and Marshal and Unmarshal of ciphertext.go and        *)
(* pop.go.  Programs build ciphertexts, keys and proofs, send their bytes  *)
(* and read received bytes into variables that hold older values; on the   *)
(* way one 32-byte word may be altered, or a word cut off or added.        *)
(*                                                                         *)
(* A byte string is a sequence of 32-byte words, each an integer whose two *)
(* top bits are the point-format flags of gnark.  Coordinates are elements *)
(* of the field of p elements and the curve is BN254's y^2 = x^3 + 3.      *)
(***************************************************************************)
EXTENDS Integers, Sequences, FiniteSetsExt

CONSTANTS
    q,           \* fr modulus
    p,           \* fp modulus
    Flag,        \* 2^254, the weight of the format bits of a word
    Vars,        \* names of the variables that receive values
    Typings,     \* the types the variables may be declared with
    Built,       \* Built[t]: the values of type t that programs compute
    Noise,       \* the words a damaged byte string may contain
    MaxCalls,    \* bound on the number of calls
    MaxDamage    \* bound on the number of alterations

Word == 0..(4 * Flag - 1)
Scalar == 0..(q - 1)                      \* fr.Element
Coord == 0..(p - 1)                       \* fp.Element
G1Affine == [X : Coord, Y : Coord]
Infinity == [X |-> 0, Y |-> 0]

CurveEquation(P) == (P.Y * P.Y) % p = (P.X * P.X * P.X + 3) % p
IsOnCurve(P) == P = Infinity \/ CurveEquation(P)

Types == {"ciphertext", "public_key", "pop", "dleq", "equality", "equality2",
          "apply_pending", "commitment_equality"}

-----------------------------------------------------------------------------
(* Layouts: all scalars come first, then all points. *)

Scalars(t) ==
    CASE t \in {"ciphertext", "public_key"} -> 0
      [] t \in {"pop", "dleq"} -> 1
      [] t = "equality" -> 4
      [] OTHER -> 3

Points(t) ==
    CASE t \in {"public_key", "pop"} -> 1
      [] t \in {"ciphertext", "dleq"} -> 2
      [] t = "commitment_equality" -> 3
      [] t = "equality" -> 6
      [] OTHER -> 4

\* CiphertextSize, PublicKeySize and the proofs' sizes, in words.
Size(t) == Scalars(t) + 2 * Points(t)

Fields(t) == 1..(Scalars(t) + Points(t))

\* The value of a struct: its scalars and its points in the order of Marshal.
Struct(t) == [s : [1..Scalars(t) -> Scalar], P : [1..Points(t) -> G1Affine]]
Zero(t) == [s |-> [i \in 1..Scalars(t) |-> 0], P |-> [j \in 1..Points(t) |-> Infinity]]

ASSUME SerializationAssumption ==
    /\ p \in Nat /\ 0 < p /\ p <= Flag
    /\ q \in Nat /\ 0 < q /\ q <= 4 * Flag
    /\ Flag \in Nat
    /\ Typings \subseteq [Vars -> Types] /\ Noise \subseteq Word
    /\ \A t \in Types : Built[t] \subseteq Struct(t)
    /\ MaxCalls \in Nat /\ MaxDamage \in Nat

-----------------------------------------------------------------------------
(* Encoding *)

marshalScalar(s) == s                     \* fr.Element.Bytes, big endian

\* Mutant: the halves are swapped.
marshalPoint_YX(P) == <<P.Y, P.X>>

marshalPoint(P) == <<P.X, P.Y>>           \* G1Affine.Marshal, flags 00

\* Where word i of the point part lies: point and coordinate.
PointOf(t, i) == (i - Scalars(t) + 1) \div 2
CoordOf(t, i) == 2 - ((i - Scalars(t)) % 2)

Marshal(t, v) ==
    [i \in 1..Size(t) |->
        IF i <= Scalars(t) THEN marshalScalar(v.s[i])
        ELSE marshalPoint(v.P[PointOf(t, i)])[CoordOf(t, i)]]

-----------------------------------------------------------------------------
(* Decoding *)

\* Mutant: the word is taken as it is.
unmarshalScalar_Unchecked(w) == {w}

\* The scalar a word stands for, if it is canonical (SetBytesCanonical).
unmarshalScalar(w) == {s \in {w} : s < q}

\* The points with abscissa x on the upper or the lower branch.
Decompress(x, largest) ==
    {P \in [X : {x}, Y : Coord] : x < p /\ CurveEquation(P) /\ (2 * P.Y > p - 1) = largest}

\* G1Affine.Unmarshal: the point the two words of a slot stand for, if any.
\* The compressed forms ignore the second word.
G1Decode(w1, w2) ==
    LET P == [X |-> w1, Y |-> w2]
    IN  CASE w1 \div Flag = 0 -> {R \in {P} : w1 < p /\ w2 < p /\ IsOnCurve(R)}
          [] w1 \div Flag = 1 -> {R \in {Infinity} : w1 = Flag}
          [] w1 \div Flag = 2 -> Decompress(w1 % Flag, FALSE)
          [] OTHER -> Decompress(w1 % Flag, TRUE)

\* What a G1Affine that held old may hold after Unmarshal has failed.
G1Leftovers(w1, w2, old) ==
    {old} \cup {R \in {[X |-> w1, Y |-> old.Y], [X |-> w1, Y |-> w2]} : R \in G1Affine}

\* Mutant: every format is let through.
requireUncompressedPoint_Any(w) == TRUE

requireUncompressedPoint(w) == w \div Flag = 0

\* The two words of point j.
First(t, j) == Scalars(t) + 2 * j - 1
Second(t, j) == Scalars(t) + 2 * j

unmarshalPoint(t, data, j) ==
    {P \in G1Decode(data[First(t, j)], data[Second(t, j)]) :
        requireUncompressedPoint(data[First(t, j)])}

FieldOK(t, data, f) ==
    IF f <= Scalars(t) THEN unmarshalScalar(data[f]) # {}
    ELSE unmarshalPoint(t, data, f - Scalars(t)) # {}

\* Mutant: the last field is never written.
Written_SkipLast(t, data, old, k) ==
    [s |-> [i \in 1..Scalars(t) |->
              IF i < k THEN CHOOSE x \in unmarshalScalar(data[i]) : TRUE ELSE old.s[i]],
     P |-> [j \in 1..Points(t) |->
              IF Scalars(t) + j < k /\ (j < Points(t) \/ j = 1)
              THEN CHOOSE R \in unmarshalPoint(t, data, j) : TRUE
              ELSE old.P[j]]]

\* Mutant: an error in one field does not stop the others from being read.
Written_GoOn(t, data, old, k) ==
    [s |-> [i \in 1..Scalars(t) |->
              IF FieldOK(t, data, i) THEN data[i] ELSE old.s[i]],
     P |-> [j \in 1..Points(t) |->
              IF FieldOK(t, data, Scalars(t) + j)
              THEN CHOOSE R \in unmarshalPoint(t, data, j) : TRUE
              ELSE old.P[j]]]

\* The receiver old after the fields before field k have been read.
Written(t, data, old, k) ==
    [s |-> [i \in 1..Scalars(t) |->
              IF i < k THEN CHOOSE x \in unmarshalScalar(data[i]) : TRUE ELSE old.s[i]],
     P |-> [j \in 1..Points(t) |->
              IF Scalars(t) + j < k THEN CHOOSE R \in unmarshalPoint(t, data, j) : TRUE
              ELSE old.P[j]]]

\* Mutant: C1 may be the identity.
Validated_NoC1Check(t, v) == t = "public_key" => IsOnCurve(v.P[1]) /\ v.P[1] # Infinity

\* The last check of Ciphertext.Unmarshal (Validate) and UnmarshalPublicKey
\* (ValidatePublicKey); proofs are not validated here.
Validated(t, v) ==
    CASE t = "ciphertext" -> IsOnCurve(v.P[1]) /\ IsOnCurve(v.P[2]) /\ v.P[1] # Infinity
      [] t = "public_key" -> IsOnCurve(v.P[1]) /\ v.P[1] # Infinity
      [] OTHER -> TRUE

\* UnmarshalPublicKey fills a new variable and returns it, error or not.
Receiver(t, old) == IF t = "public_key" THEN Zero(t) ELSE old

\* Unmarshal: the outcomes of reading data into a variable that holds old.
\* Fields are written one by one up to the first that is refused, which is
\* left alone (a scalar) or perhaps half written (a point).
Unmarshal(t, data, old) ==
    LET rec == Receiver(t, old)
        bad == {f \in Fields(t) : ~FieldOK(t, data, f)}
        full == Written(t, data, rec, Scalars(t) + Points(t) + 1)
        k == Min(bad)
        j == k - Scalars(t)
        cut == Written(t, data, rec, k)
    IN  IF Len(data) # Size(t) THEN {[ok |-> FALSE, val |-> rec]}
        ELSE IF bad = {} THEN {[ok |-> Validated(t, full), val |-> full]}
        ELSE IF k <= Scalars(t) \/ ~requireUncompressedPoint(data[First(t, j)])
             THEN {[ok |-> FALSE, val |-> cut]}
        ELSE {[ok |-> FALSE, val |-> [cut EXCEPT !.P[j] = R]] :
                 R \in G1Leftovers(data[First(t, j)], data[Second(t, j)], rec.P[j])}

-----------------------------------------------------------------------------
VARIABLES
    typ,     \* the declared types of the variables
    mem,     \* their values
    wire,    \* {} or the byte string under way; it stays deliverable
    last,    \* {} or the last Unmarshal
    log,     \* history: what was accepted, as a consumer keyed by bytes keeps it
    calls,   \* number of calls made
    damage   \* number of alterations made

vars == <<typ, mem, wire, last, log, calls, damage>>

Init ==
    /\ typ \in Typings
    /\ mem = [r \in Vars |-> Zero(typ[r])]
    /\ wire = {} /\ last = {} /\ log = {}
    /\ calls = 0 /\ damage = 0

Call == calls < MaxCalls /\ calls' = calls + 1

\* The library or its caller computes a value (Encrypt, KeyGen, Prove...).
Build(r, v) ==
    /\ Call
    /\ mem' = [mem EXCEPT ![r] = v]
    /\ last' = {}
    /\ UNCHANGED <<typ, wire, log, damage>>

\* x.Marshal(), whatever x holds; from remembers x for the properties.
Send(r) ==
    /\ Call
    /\ wire' = {[data |-> Marshal(typ[r], mem[r]), intact |-> TRUE,
                 from |-> [typ |-> typ[r], val |-> mem[r]]]}
    /\ last' = {}
    /\ UNCHANGED <<typ, mem, log, damage>>

Altered(data) ==
    /\ damage < MaxDamage /\ damage' = damage + 1
    /\ \E m \in wire :
          data # m.data /\ wire' = {[data |-> data, intact |-> FALSE, from |-> m.from]}
    /\ last' = {}
    /\ UNCHANGED <<typ, mem, log, calls>>

\* One word arrives with another value, in particular with other flags.
Garble ==
    \E m \in wire : \E i \in DOMAIN m.data :
        \E w \in Noise \cup {(m.data[i] % Flag) + f * Flag : f \in 0..3} :
            Altered([m.data EXCEPT ![i] = w])

\* The last word is lost, or one follows.
Resize ==
    \E m \in wire :
        \/ m.data # <<>> /\ Altered(SubSeq(m.data, 1, Len(m.data) - 1))
        \/ \E w \in Noise : Altered(Append(m.data, w))

\* Unmarshal the bytes under way into variable r.
Receive(r) ==
    /\ Call
    /\ \E m \in wire : \E out \in Unmarshal(typ[r], m.data, mem[r]) :
          /\ mem' = [mem EXCEPT ![r] = out.val]
          /\ last' = {[var |-> r, msg |-> m, old |-> Receiver(typ[r], mem[r]), ok |-> out.ok]}
          /\ log' = IF out.ok
                    THEN log \cup {[typ |-> typ[r], data |-> m.data, val |-> out.val]}
                    ELSE log
    /\ UNCHANGED <<typ, wire, damage>>

Next ==
    \/ \E r \in Vars : \E v \in Built[typ[r]] : Build(r, v)
    \/ \E r \in Vars : Send(r)
    \/ Garble
    \/ Resize
    \/ \E r \in Vars : Receive(r)

Spec == Init /\ [][Next]_vars

-----------------------------------------------------------------------------
(* Properties *)

\* Variables always hold reduced scalars and coordinates, though not always
\* points of the curve.
SerTypeOK ==
    /\ typ \in [Vars -> Types]
    /\ \A r \in Vars : mem[r] \in Struct(typ[r])
    /\ \A m \in wire : \A i \in DOMAIN m.data : m.data[i] \in Word

\* A successful Unmarshal leaves in its receiver exactly the bytes it was
\* given, whatever failed calls had left there before: encoding the receiver
\* again gives the same bytes.
AcceptedReencodes ==
    \A u \in last : u.ok => Marshal(typ[u.var], mem[u.var]) = u.msg.data

\* point_canonical_test.go: consumers dedup and protect against replays by
\* bytes.  Two different byte strings are never accepted as one value of a
\* type.
DistinctBytesDistinctValues ==
    \A a, b \in log : a.typ = b.typ /\ a.val = b.val => a.data = b.data

\* What is accepted is safe to compute with: every point lies on the curve, a
\* ciphertext has C1 and a public key itself different from the identity,
\* also when the sender's variable was left invalid by a failed Unmarshal.
AcceptedIsSound ==
    \A a \in log :
        /\ \A j \in DOMAIN a.val.P : IsOnCurve(a.val.P[j])
        /\ a.typ \in {"ciphertext", "public_key"} => a.val.P[1] # Infinity

\* Undamaged bytes read as the type they were made from are accepted exactly
\* when the sender's value was sound, and then give that value.  In particular
\* Ciphertext{} and x - x can be marshalled but not read back.
UndamagedRoundTrip ==
    \A u \in last : LET m == u.msg IN
        m.intact /\ m.from.typ = typ[u.var] =>
            /\ u.ok <=> /\ \A j \in DOMAIN m.from.val.P : IsOnCurve(m.from.val.P[j])
                        /\ Validated(m.from.typ, m.from.val)
            /\ u.ok => mem[u.var] = m.from.val

\* After a failed Unmarshal there is a field up to which the receiver is what
\* the bytes say and after which it is what it was; a refused length leaves
\* everything.
FailureSplitsReceiver ==
    \A u \in last : LET t == typ[u.var] v == mem[u.var] d == u.msg.data IN
        ~u.ok =>
            \/ v = u.old
            \/ /\ Len(d) = Size(t)
               /\ \E k \in 1..(Scalars(t) + Points(t) + 1) :
                    /\ \A i \in 1..Scalars(t) :
                          IF i < k THEN v.s[i] = d[i] ELSE v.s[i] = u.old.s[i]
                    /\ \A j \in 1..Points(t) :
                          /\ Scalars(t) + j < k =>
                               marshalPoint(v.P[j]) = <<d[First(t, j)], d[Second(t, j)]>>
                          /\ Scalars(t) + j > k => v.P[j] = u.old.P[j]
==============================================================================
