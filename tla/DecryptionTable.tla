-------------------------- MODULE DecryptionTable --------------------------
(***************************************************************************)
(* decryption_table.go: the baby-step giant-step solver.  The constructor  *)
(* fills a map with the baby steps, one loop iteration at a time, and      *)
(* DiscreteLog walks the giant steps, one iteration at a time; a solver    *)
(* answers any number of queries.  Widths are parameters: the code has     *)
(* Width = 64 (uint64) and MaxHalfBits = 30.                               *)
(***************************************************************************)
EXTENDS BN254

CONSTANTS
    Width,         \* bits of a uint64
    MaxHalfBits,   \* largest halfBits the constructor accepts
    HalfBits,      \* the halfBits arguments callers try
    Bases,         \* the base points callers try
    Queries        \* the points callers ask about

ASSUME WidthAssumption == Width \in Nat /\ MaxHalfBits \in Nat
ASSUME CallerAssumption == HalfBits \subseteq Nat /\ Bases \subseteq Point /\ Queries \subseteq Point

\* Every accepted halfBits gives n = 2^halfBits >= 1 with n^2 <= 2^Width.
ASSUME PowAssumption ==
    /\ 2^Width \in Nat
    /\ \A h \in 0..MaxHalfBits : 2^h \in Nat \ {0} /\ 2^h * 2^h <= 2^Width

VARIABLES
    pc,         \* "none" | "baby" | "ready" | "search" | "panicked"
    halfBits,   \* dt.halfBits
    base,       \* dt.base
    table,      \* dt.table; Absent where the map has no entry
    giantStep,  \* dt.giantStep
    current,    \* currentJac, the running multiple of base
    i,          \* the next baby step
    mG,         \* the argument of DiscreteLog
    gamma,      \* gammaJac
    j,          \* the giant step
    ret         \* (value, error == nil) returned by the last DiscreteLog

buildVars  == <<halfBits, base, table, giantStep, current, i>>
searchVars == <<mG, gamma, j, ret>>
tableVars  == <<pc, halfBits, base, table, giantStep, current, i, mG, gamma, j, ret>>

Absent == -1
U64(x) == x % 2^Width                     \* uint64 arithmetic wraps
n == 2^halfBits                           \* uint64(1) << halfBits
Err == [ok |-> FALSE, val |-> 0]
Ok(v) == [ok |-> TRUE, val |-> v]

TableInit ==
    /\ pc = "none"
    /\ halfBits = 0
    /\ base = Identity
    /\ table = [P \in Point |-> Absent]
    /\ giantStep = Identity
    /\ current = Identity
    /\ i = 0
    /\ mG = Identity
    /\ gamma = Identity
    /\ j = 0
    /\ ret = Err

-----------------------------------------------------------------------------
(* NewDecryptionTableWithBase *)

\* Mutant: no limit on halfBits.
NewTable_NoLimit(h, b) ==
    /\ pc = "none"
    /\ pc' = "baby"
    /\ halfBits' = h
    /\ base' = b
    /\ current' = Identity
    /\ table' = [table EXCEPT ![Identity] = 0]
    /\ i' = 1
    /\ UNCHANGED <<giantStep, searchVars>>

\* Parameters checked, the identity stored for i = 0.
NewDecryptionTableWithBase(h, b) ==
    /\ pc = "none"
    /\ h <= MaxHalfBits
    /\ pc' = "baby"
    /\ halfBits' = h
    /\ base' = b
    /\ current' = Identity
    /\ table' = [table EXCEPT ![Identity] = 0]
    /\ i' = 1
    /\ UNCHANGED <<giantStep, searchVars>>

\* panic: halfBits > MaxHalfBits
NewTablePanics(h) ==
    /\ pc = "none"
    /\ h > MaxHalfBits
    /\ pc' = "panicked"
    /\ UNCHANGED <<buildVars, searchVars>>

\* Mutant: i is not advanced.
BabyStep_Stuck ==
    /\ pc = "baby"
    /\ i < n
    /\ current' = PAdd(current, base)
    /\ table' = [table EXCEPT ![PAdd(current, base)] = i]
    /\ UNCHANGED <<pc, halfBits, base, giantStep, i, searchVars>>

\* One iteration of the baby-step loop.
BabyStep ==
    /\ pc = "baby"
    /\ i < n
    /\ current' = PAdd(current, base)
    /\ table' = [table EXCEPT ![PAdd(current, base)] = i]
    /\ i' = i + 1
    /\ UNCHANGED <<pc, halfBits, base, giantStep, searchVars>>

\* Mutant: without the extra addition, giantStep is -((n-1)*base).
FinishTable_NoExtraAdd ==
    /\ pc = "baby"
    /\ i = n
    /\ pc' = "ready"
    /\ giantStep' = PNeg(current)
    /\ UNCHANGED <<halfBits, base, table, current, i, searchVars>>

\* Loop exit: one more addition gives n*base, and giantStep = -(n*base).
FinishTable ==
    /\ pc = "baby"
    /\ i = n
    /\ pc' = "ready"
    /\ current' = PAdd(current, base)
    /\ giantStep' = PNeg(PAdd(current, base))
    /\ UNCHANGED <<halfBits, base, table, i, searchVars>>

-----------------------------------------------------------------------------
(* DiscreteLog *)

\* Mutant: j keeps the value of the previous call.
DiscreteLog_NoReset(P) ==
    /\ pc = "ready"
    /\ pc' = "search"
    /\ mG' = P
    /\ gamma' = P
    /\ ret' = Err
    /\ UNCHANGED <<buildVars, j>>

DiscreteLog(P) ==
    /\ pc = "ready"
    /\ pc' = "search"
    /\ mG' = P
    /\ gamma' = P
    /\ j' = 0
    /\ ret' = Err
    /\ UNCHANGED buildVars

\* Mutant: i*n + j is returned.
FoundLog_Swapped ==
    /\ pc = "search"
    /\ j < n
    /\ table[gamma] # Absent
    /\ pc' = "ready"
    /\ ret' = Ok(U64(table[gamma] * n + j))
    /\ UNCHANGED <<buildVars, mG, gamma, j>>

\* table[gamma] hit: return j*n + i
FoundLog ==
    /\ pc = "search"
    /\ j < n
    /\ table[gamma] # Absent
    /\ pc' = "ready"
    /\ ret' = Ok(U64(j * n + table[gamma]))
    /\ UNCHANGED <<buildVars, mG, gamma, j>>

\* Mutant: j is not advanced.
GiantStep_Stuck ==
    /\ pc = "search"
    /\ j < n
    /\ table[gamma] = Absent
    /\ gamma' = PAdd(gamma, giantStep)
    /\ UNCHANGED <<pc, buildVars, mG, j, ret>>

\* table[gamma] miss: gamma += giantStep
GiantStep ==
    /\ pc = "search"
    /\ j < n
    /\ table[gamma] = Absent
    /\ gamma' = PAdd(gamma, giantStep)
    /\ j' = j + 1
    /\ UNCHANGED <<pc, buildVars, mG, ret>>

\* Mutant: the last giant step is left out.
LogNotFound_Early ==
    /\ pc = "search"
    /\ j >= n - 1
    /\ pc' = "ready"
    /\ ret' = Err
    /\ UNCHANGED <<buildVars, mG, gamma, j>>

\* Loop exit: "discrete log not found: value out of table range"
LogNotFound ==
    /\ pc = "search"
    /\ j = n
    /\ pc' = "ready"
    /\ ret' = Err
    /\ UNCHANGED <<buildVars, mG, gamma, j>>

BuildStep  == BabyStep \/ FinishTable
SearchStep == FoundLog \/ GiantStep \/ LogNotFound

TableNext ==
    \/ \E h \in HalfBits, b \in Bases : NewDecryptionTableWithBase(h, b)
    \/ \E h \in HalfBits : NewTablePanics(h)
    \/ BuildStep
    \/ \E P \in Queries : DiscreteLog(P)
    \/ SearchStep

\* Both loops are plain sequential code: once entered they keep running.
TableSpec ==
    /\ TableInit
    /\ [][TableNext]_tableVars
    /\ WF_tableVars(BuildStep)
    /\ WF_tableVars(SearchStep)

-----------------------------------------------------------------------------
(* Properties *)

\* The values the solver claims to cover: [0, 2^(2*halfBits)).
Covered == 0..(n * n - 1)

TableTypeOK ==
    /\ pc \in {"none", "baby", "ready", "search", "panicked"}
    /\ halfBits \in 0..MaxHalfBits
    /\ base \in Point
    /\ table \in [Point -> Nat \cup {Absent}]
    /\ giantStep \in Point
    /\ current \in Point
    /\ i \in Nat
    /\ mG \in Point
    /\ gamma \in Point
    /\ j \in Nat
    /\ ret \in [ok : BOOLEAN, val : Nat]

\* The map is exactly the baby steps computed so far: every stored entry is a
\* discrete logarithm of its key below i, and every multiple below i has one.
BabySteps ==
    /\ pc = "none" => table = [P \in Point |-> Absent]
    /\ pc \in {"baby", "ready", "search"} =>
          /\ i \in 1..n
          /\ \A P \in Point : table[P] # Absent =>
                table[P] \in 0..(i-1) /\ ScalarMul(table[P], base) = P
          /\ \A k \in 0..(i-1) : table[ScalarMul(k, base)] # Absent
          /\ pc = "baby" => current = ScalarMul(i - 1, base)
          /\ pc # "baby" => i = n /\ giantStep = PNeg(ScalarMul(n, base))

\* While DiscreteLog searches, gamma is mG - j*n*base and none of the j*n
\* values of the giant steps already taken is a logarithm of mG.
SearchProgress ==
    /\ pc \in {"none", "baby", "search"} => ret = Err
    /\ pc = "search" =>
          /\ j \in 0..n
          /\ gamma = PSub(mG, ScalarMul(j * n, base))
          /\ \A v \in 0..(j * n - 1) : ScalarMul(v, base) # mG

\* A value DiscreteLog returns is in the range [0, 2^(2*halfBits)) and is a
\* logarithm of mG: j*n + i of the giant step that hit has not overflowed
\* uint64 and its last giant step is not one too many.
AnswerCorrect ==
    pc = "ready" /\ ret.ok =>
        ret.val \in Covered /\ ScalarMul(ret.val, base) = mG

\* Every search ends, and so does every construction.
SearchTerminates == (pc = "search") ~> (pc = "ready")
BuildTerminates  == (pc = "baby") ~> (pc = "ready")

-----------------------------------------------------------------------------
(* Refinement: the solver implements the Decryptor contract. *)

Contract == INSTANCE DiscreteLog WITH
    solver  <- CASE pc \in {"none", "baby"} -> "none"
                 [] pc = "ready"  -> "ready"
                 [] pc = "search" -> "busy"
                 [] OTHER -> "panicked",
    dlBase  <- IF pc \in {"ready", "search"} THEN base ELSE Identity,
    dlRange <- IF pc \in {"ready", "search"} THEN n * n ELSE 0,
    query   <- mG,
    answer  <- ret

\* TableSpec => Contract!DLSpec: a value is returned only if it is a
\* logarithm of the query inside the range, an error only if there is none.
ImplementsContract == Contract!DLSpec
=============================================================================
