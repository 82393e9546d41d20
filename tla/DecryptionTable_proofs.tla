----------------------- MODULE DecryptionTable_proofs -----------------------
(***************************************************************************)
(* The BSGS solver is right for every group order, every base, every       *)
(* accepted halfBits and every sequence of queries.  The inductive         *)
(* invariant is the conjunction of the invariants the model checker checks.*)
(***************************************************************************)
EXTENDS DecryptionTable, BN254_proofs

TableInv == TableTypeOK /\ BabySteps /\ SearchProgress /\ AnswerCorrect

\* n = 2^halfBits is positive and n^2 fits uint64.
LEMMA NType == TableTypeOK => n \in Nat \ {0} /\ n * n \in Nat /\ n * n <= 2^Width
<1> SUFFICES ASSUME TableTypeOK PROVE n \in Nat \ {0} /\ n * n \in Nat /\ n * n <= 2^Width
  OBVIOUS
<1>1. n \in Nat \ {0} /\ n * n <= 2^Width
  BY PowAssumption DEF TableTypeOK, n
<1> QED BY <1>1

\* uint64 arithmetic does not wrap below 2^Width.
LEMMA U64Small == \A x \in Nat : x < 2^Width => U64(x) = x
<1> SUFFICES ASSUME NEW x \in Nat, x < 2^Width PROVE x % 2^Width = x
  BY DEF U64
<1> DEFINE W == 2^Width
<1>1. W \in Nat /\ x < W
  BY PowAssumption
<1> HIDE DEF W
<1>2. x % W = x
  BY <1>1
<1> QED BY <1>2 DEF W

\* Splitting the value of a hit: v in [j*n, (j+1)*n) is j*n + t with t < n.
LEMMA GiantBlock ==
    ASSUME NEW N \in Nat \ {0}, NEW J \in Nat, NEW v \in Nat,
           v >= J * N, v < (J + 1) * N
    PROVE  v - J * N \in 0..(N-1)
<1>1. J * N \in Nat /\ (J + 1) * N = J * N + N
  OBVIOUS
<1> QED BY <1>1

LEMMA GiantBound ==
    ASSUME NEW N \in Nat \ {0}, NEW J \in Nat, J < N, NEW t \in 0..(N-1)
    PROVE  J * N + t \in 0..(N * N - 1)
<1>1. (J + 1) * N <= N * N
  <2>1. N - (J + 1) \in Nat
    OBVIOUS
  <2>2. (N - (J + 1)) * N \in Nat
    BY <2>1
  <2>3. (N - (J + 1)) * N = N * N - (J + 1) * N
    OBVIOUS
  <2> QED BY <2>2, <2>3
<1>2. (J + 1) * N = J * N + N /\ J * N \in Nat /\ N * N \in Nat
  OBVIOUS
<1> QED BY <1>1, <1>2

LEMMA TableInitInv == TableInit => TableInv
<1> SUFFICES ASSUME TableInit PROVE TableInv
  OBVIOUS
<1>1. TableTypeOK
  BY QAssumption, WidthAssumption DEF TableInit, TableTypeOK, Point, Identity, Absent, Err
<1>2. BabySteps /\ SearchProgress /\ AnswerCorrect
  BY DEF TableInit, BabySteps, SearchProgress, AnswerCorrect, Err
<1> QED BY <1>1, <1>2 DEF TableInv

-----------------------------------------------------------------------------
(* One lemma per action. *)

LEMMA NewTableInv ==
    ASSUME TableInv, NEW h \in Nat, NEW b \in Point, NewDecryptionTableWithBase(h, b)
    PROVE  TableInv'
<1> USE DEF NewDecryptionTableWithBase, searchVars
<1>0. Identity \in Point
  BY QAssumption DEF Identity, Point
<1>1. TableTypeOK'
  BY <1>0, WidthAssumption DEF TableInv, TableTypeOK
<1>2. n' \in Nat \ {0}
  BY <1>1, PowAssumption DEF TableTypeOK, n
<1>3. ScalarMul(0, b) = Identity
  BY SMulZero
<1>4. BabySteps'
  <2>1. table' = [[P \in Point |-> Absent] EXCEPT ![Identity] = 0]
    BY DEF TableInv, BabySteps
  <2>2. (i \in 1..n)'
    BY <1>2
  <2>3. \A P \in Point : table'[P] # Absent => P = Identity /\ table'[P] = 0
    BY <2>1, <1>0 DEF Absent
  <2>4. table'[Identity] = 0
    BY <2>1, <1>0
  <2>5. \A k \in 0..(i'-1) : k = 0
    OBVIOUS
  <2>6. i' - 1 = 0 /\ 0 \in 0..(i'-1) /\ 0 # Absent
    BY DEF Absent
  <2> QED BY <1>3, <2>2, <2>3, <2>4, <2>5, <2>6 DEF BabySteps
<1>5. SearchProgress' /\ AnswerCorrect'
  BY DEF TableInv, SearchProgress, AnswerCorrect
<1> QED BY <1>1, <1>4, <1>5 DEF TableInv

LEMMA BabyStepInv == TableInv /\ BabyStep => TableInv'
<1> SUFFICES ASSUME TableInv, BabyStep PROVE TableInv'
  OBVIOUS
<1> USE DEF BabyStep, searchVars
<1> DEFINE next == PAdd(current, base)
<1>1. n \in Nat \ {0} /\ n' = n
  BY NType DEF TableInv, n
<1>2. next \in Point /\ i \in Nat /\ current \in Point /\ base \in Point
  BY AddClosed DEF TableInv, TableTypeOK
<1>3. next = ScalarMul(i, base)
  <2>1. current = ScalarMul(i - 1, base) /\ i - 1 \in Int /\ (i - 1) + 1 = i
    BY <1>2 DEF TableInv, BabySteps
  <2> QED BY <1>2, <2>1, SMulSucc
<1>4. table' = [table EXCEPT ![next] = i]
  OBVIOUS
<1>5. table \in [Point -> Nat \cup {Absent}]
  BY DEF TableInv, TableTypeOK
<1> HIDE DEF next
<1>6. TableTypeOK'
  <2>1. table' \in [Point -> Nat \cup {Absent}]
    BY <1>2, <1>4, <1>5
  <2>2. current' \in Point /\ i' \in Nat
    BY <1>2 DEF next
  <2> QED BY <2>1, <2>2 DEF TableInv, TableTypeOK
<1>7. BabySteps'
  <2>1. i' \in 1..n'
    BY <1>1, <1>2 DEF TableInv, BabySteps
  <2>2. \A P \in Point : table'[P] # Absent =>
           table'[P] \in 0..(i'-1) /\ ScalarMul(table'[P], base') = P
    <3> SUFFICES ASSUME NEW P \in Point, table'[P] # Absent
                 PROVE table'[P] \in 0..(i'-1) /\ ScalarMul(table'[P], base') = P
      OBVIOUS
    <3>1. CASE P = next
      <4>1. table'[P] = i
        BY <3>1, <1>2, <1>4, <1>5
      <4> QED BY <4>1, <3>1, <1>2, <1>3
    <3>2. CASE P # next
      <4>1. table'[P] = table[P]
        BY <3>2, <1>4, <1>5
      <4>2. table[P] \in 0..(i-1) /\ ScalarMul(table[P], base) = P
        BY <4>1 DEF TableInv, BabySteps
      <4> QED BY <4>1, <4>2, <1>2
    <3> QED BY <3>1, <3>2
  <2>3. \A k \in 0..(i'-1) : table'[ScalarMul(k, base')] # Absent
    <3> SUFFICES ASSUME NEW k \in 0..i PROVE table'[ScalarMul(k, base)] # Absent
      BY <1>2
    <3>0. ScalarMul(k, base) \in Point
      BY <1>2, SMulClosed
    <3>1. CASE ScalarMul(k, base) = next
      BY <3>1, <1>2, <1>4, <1>5 DEF Absent
    <3>2. CASE ScalarMul(k, base) # next
      <4>1. k \in 0..(i-1)
        BY <3>2, <1>2, <1>3
      <4>2. table[ScalarMul(k, base)] # Absent
        BY <4>1 DEF TableInv, BabySteps
      <4> QED BY <4>2, <3>0, <3>2, <1>4, <1>5
    <3> QED BY <3>1, <3>2
  <2>4. current' = ScalarMul(i' - 1, base')
    BY <1>2, <1>3 DEF next
  <2> QED BY <2>1, <2>2, <2>3, <2>4 DEF BabySteps
<1>8. SearchProgress' /\ AnswerCorrect'
  BY DEF TableInv, SearchProgress, AnswerCorrect
<1> QED BY <1>6, <1>7, <1>8 DEF TableInv

\* The constructor leaves no answer behind: until the first query ret = Err.
LEMMA FinishTableInv == TableInv /\ FinishTable => TableInv'
<1> SUFFICES ASSUME TableInv, FinishTable PROVE TableInv'
  OBVIOUS
<1> USE DEF FinishTable, searchVars
<1>1. n \in Nat \ {0} /\ n' = n
  BY NType DEF TableInv, n
<1>2. i \in Nat /\ current \in Point /\ base \in Point
  BY DEF TableInv, TableTypeOK
<1>3. PAdd(current, base) = ScalarMul(n, base)
  <2>1. current = ScalarMul(n - 1, base) /\ n - 1 \in Int /\ (n - 1) + 1 = n
    BY <1>1 DEF TableInv, BabySteps
  <2> QED BY <1>2, <2>1, SMulSucc
<1>4. TableTypeOK'
  <2>1. PAdd(current, base) \in Point
    BY <1>2, AddClosed
  <2>2. PNeg(PAdd(current, base)) \in Point
    BY <2>1, NegClosed
  <2> QED BY <2>1, <2>2 DEF TableInv, TableTypeOK
<1>5. BabySteps'
  BY <1>1, <1>3 DEF TableInv, BabySteps
<1>6. SearchProgress' /\ AnswerCorrect'
  BY DEF TableInv, SearchProgress, AnswerCorrect, Err
<1> QED BY <1>4, <1>5, <1>6 DEF TableInv

LEMMA DiscreteLogInv ==
    ASSUME TableInv, NEW P \in Point, DiscreteLog(P) PROVE TableInv'
<1> USE DEF DiscreteLog, buildVars
<1>1. n \in Nat \ {0} /\ n' = n
  BY NType DEF TableInv, n
<1>2. TableTypeOK'
  BY DEF TableInv, TableTypeOK, Err
<1>3. BabySteps'
  BY <1>1 DEF TableInv, BabySteps
<1>4. SearchProgress'
  <2>1. base \in Point /\ 0 * n = 0 /\ 0 \in 0..n /\ Identity \in Point
    BY <1>1, QAssumption DEF TableInv, TableTypeOK, Identity, Point
  <2>2. PSub(P, ScalarMul(0, base)) = P
    <3>1. ScalarMul(0, base) = PSub(P, ScalarMul(0, base)) <=> ScalarMul(0 + 0, base) = P
      BY <2>1, SMulHit
    <3>2. PSub(P, ScalarMul(0, base)) = (P - 0 * base) % q
      BY <2>1, SubSMul
    <3>3. P - 0 * base = P
      BY <2>1, QAssumption DEF Point
    <3> QED BY <3>2, <3>3, ModSmall DEF Point
  <2>3. 0..(0 * n - 1) = {}
    BY <2>1
  <2>4. j' = 0 /\ gamma' = P /\ mG' = P /\ base' = base /\ ret' = Err
    OBVIOUS
  <2>5. \A v \in 0..(j' * n' - 1) : ScalarMul(v, base') # mG'
    BY <1>1, <2>3, <2>4
  <2> QED BY <1>1, <2>1, <2>2, <2>4, <2>5 DEF SearchProgress
<1>5. AnswerCorrect'
  BY DEF AnswerCorrect
<1> QED BY <1>2, <1>3, <1>4, <1>5 DEF TableInv

LEMMA FoundLogInv == TableInv /\ FoundLog => TableInv'
<1> SUFFICES ASSUME TableInv, FoundLog PROVE TableInv'
  OBVIOUS
<1> USE DEF FoundLog, buildVars
<1> DEFINE t == table[gamma]
           v == j * n + t
<1>1. n \in Nat \ {0} /\ n' = n /\ n * n \in Nat /\ n * n <= 2^Width
  BY NType DEF TableInv, n
<1>2. mG \in Point /\ base \in Point /\ gamma \in Point /\ j \in Nat /\ j * n \in Nat
  BY <1>1 DEF TableInv, TableTypeOK
<1>3. t \in 0..(n-1) /\ ScalarMul(t, base) = gamma
  BY <1>2 DEF TableInv, BabySteps
<1>4. gamma = PSub(mG, ScalarMul(j * n, base))
  BY DEF TableInv, SearchProgress
<1> HIDE DEF t
<1>5. ScalarMul(v, base) = mG
  BY <1>2, <1>3, <1>4, SMulHit
<1>6. v \in 0..(n * n - 1)
  BY <1>1, <1>2, <1>3, GiantBound
<1> HIDE DEF v
<1>7. U64(v) = v /\ v \in Nat
  <2>1. 2^Width \in Nat
    BY PowAssumption
  <2>2. v \in Nat /\ v < 2^Width
    BY <1>1, <1>6, <2>1
  <2> QED BY <2>2, U64Small
<1>8. ret' = Ok(v)
  BY <1>7 DEF v, t
<1>9. TableTypeOK'
  BY <1>7, <1>8 DEF TableInv, TableTypeOK, Ok
<1>10. BabySteps'
  BY <1>1 DEF TableInv, BabySteps
<1>11. SearchProgress' /\ AnswerCorrect'
  BY <1>1, <1>5, <1>6, <1>8 DEF SearchProgress, AnswerCorrect, Ok, Covered
<1> QED BY <1>9, <1>10, <1>11 DEF TableInv

LEMMA GiantStepInv == TableInv /\ GiantStep => TableInv'
<1> SUFFICES ASSUME TableInv, GiantStep PROVE TableInv'
  OBVIOUS
<1> USE DEF GiantStep, buildVars
<1>1. n \in Nat \ {0} /\ n' = n
  BY NType DEF TableInv, n
<1>2. mG \in Point /\ base \in Point /\ gamma \in Point /\ giantStep \in Point
      /\ j \in Nat /\ j * n \in Nat
  BY <1>1 DEF TableInv, TableTypeOK
<1>3. gamma = PSub(mG, ScalarMul(j * n, base)) /\ giantStep = PNeg(ScalarMul(n, base))
  BY DEF TableInv, SearchProgress, BabySteps
<1>4. (j + 1) * n = j * n + n
  BY <1>1, <1>2
<1>5. TableTypeOK'
  <2>1. gamma' \in Point /\ j' \in Nat
    BY <1>2, AddClosed
  <2> QED BY <2>1 DEF TableInv, TableTypeOK
<1>6. BabySteps'
  BY <1>1 DEF TableInv, BabySteps
<1>7. SearchProgress'
  <2>1. gamma' = PSub(mG, ScalarMul((j + 1) * n, base))
    BY <1>1, <1>2, <1>3, <1>4, SubSMulStep
  <2>2. \A v \in 0..((j + 1) * n - 1) : ScalarMul(v, base) # mG
    <3> SUFFICES ASSUME NEW v \in 0..((j + 1) * n - 1), ScalarMul(v, base) = mG
                 PROVE FALSE
      OBVIOUS
    <3>0. v \in Nat /\ (j + 1) * n \in Nat /\ v < (j + 1) * n
      BY <1>1, <1>2
    <3>1. v >= j * n
      <4>1. v \in 0..(j * n - 1) => ScalarMul(v, base) # mG
        BY DEF TableInv, SearchProgress
      <4> QED BY <4>1, <3>0, <1>2
    <3> DEFINE t == v - j * n
    <3>2. t \in 0..(n - 1) /\ j * n + t = v
      BY <1>1, <1>2, <3>0, <3>1, GiantBlock
    <3> HIDE DEF t
    <3>3. ScalarMul(t, base) = gamma
      <4>1. t \in Int /\ j * n \in Int /\ ScalarMul(j * n + t, base) = mG
        BY <1>1, <1>2, <3>2
      <4>2. ScalarMul(t, base) = PSub(mG, ScalarMul(j * n, base))
        BY <1>2, <4>1, SMulHit
      <4> QED BY <1>3, <4>2
    <3>4. table[gamma] # Absent
      BY <3>2, <3>3 DEF TableInv, BabySteps
    <3> QED BY <3>4
  <2>3. j' \in 0..n' /\ ret' = Err
    BY <1>1, <1>2 DEF TableInv, SearchProgress
  <2> QED BY <1>1, <2>1, <2>2, <2>3 DEF SearchProgress
<1>8. AnswerCorrect'
  BY DEF AnswerCorrect
<1> QED BY <1>5, <1>6, <1>7, <1>8 DEF TableInv

LEMMA LogNotFoundInv == TableInv /\ LogNotFound => TableInv'
<1> SUFFICES ASSUME TableInv, LogNotFound PROVE TableInv'
  OBVIOUS
<1> USE DEF LogNotFound, buildVars
<1>1. n' = n
  BY DEF n
<1>2. TableTypeOK' /\ BabySteps' /\ SearchProgress' /\ AnswerCorrect'
  BY <1>1 DEF TableInv, TableTypeOK, BabySteps, SearchProgress, AnswerCorrect, Err
<1> QED BY <1>2 DEF TableInv

LEMMA PanicInv == ASSUME TableInv, NEW h, NewTablePanics(h) PROVE TableInv'
<1>1. n' = n
  BY DEF n, NewTablePanics, buildVars
<1> QED BY <1>1 DEF TableInv, TableTypeOK, BabySteps, SearchProgress, AnswerCorrect,
            NewTablePanics, buildVars, searchVars

LEMMA StutterInv == TableInv /\ UNCHANGED tableVars => TableInv'
<1> SUFFICES ASSUME TableInv, UNCHANGED tableVars PROVE TableInv'
  OBVIOUS
<1>1. n' = n
  BY DEF n, tableVars
<1> QED BY <1>1 DEF TableInv, TableTypeOK, BabySteps, SearchProgress, AnswerCorrect,
            tableVars, Covered

-----------------------------------------------------------------------------
(* The theorems *)

LEMMA TableStepInv == TableInv /\ [TableNext]_tableVars => TableInv'
<1> SUFFICES ASSUME TableInv, [TableNext]_tableVars PROVE TableInv'
  OBVIOUS
<1>1. ASSUME NEW h \in HalfBits, NEW b \in Bases, NewDecryptionTableWithBase(h, b)
      PROVE TableInv'
  BY <1>1, NewTableInv, CallerAssumption
<1>2. ASSUME NEW h \in HalfBits, NewTablePanics(h) PROVE TableInv'
  BY <1>2, PanicInv
<1>3. CASE BabyStep
  BY <1>3, BabyStepInv
<1>4. CASE FinishTable
  BY <1>4, FinishTableInv
<1>5. ASSUME NEW P \in Queries, DiscreteLog(P) PROVE TableInv'
  BY <1>5, DiscreteLogInv, CallerAssumption
<1>6. CASE FoundLog
  BY <1>6, FoundLogInv
<1>7. CASE GiantStep
  BY <1>7, GiantStepInv
<1>8. CASE LogNotFound
  BY <1>8, LogNotFoundInv
<1>9. CASE UNCHANGED tableVars
  BY <1>9, StutterInv
<1> QED BY <1>1, <1>2, <1>3, <1>4, <1>5, <1>6, <1>7, <1>8, <1>9
        DEF TableNext, BuildStep, SearchStep

\* The BSGS invariants hold in every reachable state: types, the exact
\* content of the baby-step map, and the progress of the giant steps.
THEOREM TableInvariant == TableSpec => []TableInv
<1>1. TableInit => TableInv
  BY TableInitInv
<1>2. TableInv /\ [TableNext]_tableVars => TableInv'
  BY TableStepInv
<1> QED BY <1>1, <1>2, PTL DEF TableSpec

\* DiscreteLog (decryption_table.go) never returns a wrong value: what it
\* returns lies in [0, 2^(2*halfBits)) and is a logarithm of its argument.
THEOREM TableAnswersAreLogs == TableSpec => []AnswerCorrect
<1>1. TableInv => AnswerCorrect
  BY DEF TableInv
<1> QED BY <1>1, TableInvariant, PTL

\* The map holds exactly the baby steps built so far, each with one of
\* its logarithms, and the giant step is -2^halfBits*base.
THEOREM TableHoldsBabySteps == TableSpec => []BabySteps
<1>1. TableInv => BabySteps
  BY DEF TableInv
<1> QED BY <1>1, TableInvariant, PTL

\* The search never skips a value: those of the giant steps already taken are
\* not logarithms.
THEOREM SearchSkipsNothing == TableSpec => []SearchProgress
<1>1. TableInv => SearchProgress
  BY DEF TableInv
<1> QED BY <1>1, TableInvariant, PTL

\* Type correctness of the solver.
THEOREM TableTypes == TableSpec => []TableTypeOK
<1>1. TableInv => TableTypeOK
  BY DEF TableInv
<1> QED BY <1>1, TableInvariant, PTL

-----------------------------------------------------------------------------
(* Refinement of the Decryptor contract *)

LEMMA ContractInit == TableInit => Contract!DLInit
BY DEF TableInit, Contract!DLInit, Err, Identity, Contract!NoAnswer, Contract!Identity

\* An error ends a search only when the whole range holds no logarithm.
LEMMA ErrorMeansNone ==
    TableInv /\ LogNotFound => \A v \in Covered : ScalarMul(v, base) # mG
BY DEF TableInv, LogNotFound, SearchProgress, Covered

\* The set of answers of the contract, in the solver's own terms.
LEMMA AnswersChar ==
    ASSUME NEW N \in Nat, NEW b, NEW P
    PROVE  /\ \A v \in 0..(N-1) : ScalarMul(v, b) = P => Ok(v) \in Contract!Answers(b, N, P)
           /\ (\A v \in 0..(N-1) : ScalarMul(v, b) # P) => Err \in Contract!Answers(b, N, P)
<1> DEFINE logs == {v \in 0..(N-1) : ScalarMul(v, b) = P}
<1>1. Contract!Answers(b, N, P) = IF logs = {} THEN {Err} ELSE {Ok(v) : v \in logs}
  BY DEF Contract!Answers, Contract!NoAnswer, Contract!Solved, Err, Ok,
         ScalarMul, Contract!ScalarMul
<1>2. ASSUME NEW v \in 0..(N-1), ScalarMul(v, b) = P
      PROVE  Ok(v) \in Contract!Answers(b, N, P)
  <2>1. v \in logs
    BY <1>2
  <2> QED BY <1>1, <2>1
<1>3. ASSUME \A v \in 0..(N-1) : ScalarMul(v, b) # P
      PROVE  Err \in Contract!Answers(b, N, P)
  <2>1. logs = {}
    BY <1>3
  <2> QED BY <1>1, <2>1
<1> QED BY <1>2, <1>3

LEMMA ContractStep ==
    TableInv /\ TableInv' /\ [TableNext]_tableVars
        => [Contract!DLNext]_(Contract!dlVars)
<1> SUFFICES ASSUME TableInv, TableInv', [TableNext]_tableVars
             PROVE  [Contract!DLNext]_(Contract!dlVars)
  OBVIOUS
<1> USE DEF Contract!dlVars
<1>0. n \in Nat /\ n * n \in Nat /\ n' \in Nat /\ n' * n' \in Nat
  <2>1. TableTypeOK /\ TableTypeOK'
    BY DEF TableInv
  <2>2. n \in Nat /\ n' \in Nat
    BY <2>1, PowAssumption DEF TableTypeOK, n
  <2>3. \A x \in Nat : x * x \in Nat
    OBVIOUS
  <2> QED BY <2>2, <2>3
<1>1. ASSUME NEW h \in HalfBits, NEW b \in Bases, NewDecryptionTableWithBase(h, b)
      PROVE UNCHANGED Contract!dlVars
  BY <1>1 DEF NewDecryptionTableWithBase, searchVars
<1>2. ASSUME NEW h \in HalfBits, NewTablePanics(h) PROVE Contract!DLNext
  BY <1>2 DEF NewTablePanics, buildVars, searchVars, Contract!DLNext, Contract!Panic
<1>3. CASE BabyStep
  BY <1>3 DEF BabyStep, searchVars
<1>4. CASE FinishTable
  <2>1. base' \in Point /\ n' * n' \in Nat
    BY <1>0 DEF TableInv, TableTypeOK
  <2> QED BY <1>4, <2>1 DEF FinishTable, searchVars, Contract!DLNext, Contract!Construct,
                          Point, Contract!Point
<1>5. ASSUME NEW P \in Queries, DiscreteLog(P) PROVE Contract!DLNext
  <2>1. P \in Point /\ n' = n
    BY <1>5, CallerAssumption DEF DiscreteLog, buildVars, n
  <2>2. Contract!Ask(P)
    BY <1>5, <2>1 DEF DiscreteLog, buildVars, Contract!Ask, Contract!NoAnswer, Err
  <2> QED BY <2>1, <2>2 DEF Contract!DLNext, Point, Contract!Point
<1>6. CASE FoundLog
  <2>1. n' = n /\ base' = base /\ mG' = mG /\ pc = "search" /\ pc' = "ready"
    BY <1>6 DEF FoundLog, buildVars, n
  <2>2. ret' = Ok(ret'.val) /\ ret'.ok
    BY <1>6 DEF FoundLog, Ok
  <2>3. ret'.val \in 0..(n * n - 1) /\ ScalarMul(ret'.val, base) = mG
    BY <2>1, <2>2 DEF TableInv, AnswerCorrect, Covered
  <2>4. ret' \in Contract!Answers(base, n * n, mG)
    BY <1>0, <2>2, <2>3, AnswersChar
  <2>5. Contract!Reply
    BY <2>1, <2>4 DEF Contract!Reply
  <2> QED BY <2>5 DEF Contract!DLNext
<1>7. CASE GiantStep
  <2>1. n' = n
    BY <1>7 DEF GiantStep, buildVars, n
  <2> QED BY <1>7, <2>1 DEF GiantStep, buildVars
<1>8. CASE LogNotFound
  <2>1. n' = n /\ base' = base /\ mG' = mG /\ pc = "search" /\ pc' = "ready" /\ ret' = Err
    BY <1>8 DEF LogNotFound, buildVars, n
  <2>2. ret' \in Contract!Answers(base, n * n, mG)
    BY <1>0, <1>8, <2>1, ErrorMeansNone, AnswersChar DEF Covered
  <2>3. Contract!Reply
    BY <2>1, <2>2 DEF Contract!Reply
  <2> QED BY <2>3 DEF Contract!DLNext
<1>9. CASE UNCHANGED tableVars
  <2>1. n' = n
    BY <1>9 DEF n, tableVars
  <2> QED BY <1>9, <2>1 DEF tableVars
<1> QED BY <1>1, <1>2, <1>3, <1>4, <1>5, <1>6, <1>7, <1>8, <1>9
        DEF TableNext, BuildStep, SearchStep

\* The BSGS solver implements the Decryptor contract: every answer is a
\* logarithm inside the advertised range, and an error is returned only
\* when that range holds none.
THEOREM TableImplementsContract == TableSpec => ImplementsContract
<1>1. TableInit => Contract!DLInit
  BY ContractInit
<1>2. TableInv /\ TableInv' /\ [TableNext]_tableVars
        => [Contract!DLNext]_(Contract!dlVars)
  BY ContractStep
<1> QED BY <1>1, <1>2, TableInvariant, PTL
        DEF TableSpec, ImplementsContract, Contract!DLSpec

-----------------------------------------------------------------------------
(* The work of a call *)

\* An upper bound on the steps a running constructor or search has left.
TableWork ==
    CASE pc = "baby" -> (n - i) + 1
      [] pc = "search" -> (n - j) + 1
      [] OTHER -> 0

\* Both loops of decryption_table.go are over after 2^halfBits iterations,
\* whatever the base and the query: every step uses up work, and a loop that has
\* not ended has a next iteration or is at its exit.
THEOREM TableCallsAreBounded ==
    TableSpec => /\ [][BuildStep \/ SearchStep => TableWork' \in 0..(TableWork - 1)]_tableVars
                 /\ [](pc = "baby" => i <= n)
                 /\ [](pc = "search" => j <= n)
<1>1. TableInv /\ [TableNext]_tableVars
        => [BuildStep \/ SearchStep => TableWork' \in 0..(TableWork - 1)]_tableVars
  <2> SUFFICES ASSUME TableInv, BuildStep \/ SearchStep
               PROVE  TableWork' \in 0..(TableWork - 1)
    OBVIOUS
  <2>1. n \in Nat \ {0} /\ i \in Nat /\ j \in Nat
    BY NType DEF TableInv, TableTypeOK
  <2>2. n' = n
    BY DEF BuildStep, BabyStep, FinishTable, SearchStep, FoundLog, GiantStep, LogNotFound,
           buildVars, n
  <2>3. CASE BabyStep
    <3>1. TableWork = (n - i) + 1 /\ TableWork' = (n - (i + 1)) + 1 /\ i < n
      BY <2>2, <2>3 DEF BabyStep, TableWork
    <3> QED BY <2>1, <3>1
  <2>4. CASE FinishTable
    <3>1. TableWork = (n - i) + 1 /\ TableWork' = 0 /\ i = n
      BY <2>4 DEF FinishTable, TableWork
    <3> QED BY <2>1, <3>1
  <2>5. CASE GiantStep
    <3>1. TableWork = (n - j) + 1 /\ TableWork' = (n - (j + 1)) + 1 /\ j < n
      BY <2>2, <2>5 DEF GiantStep, TableWork
    <3> QED BY <2>1, <3>1
  <2>6. CASE FoundLog \/ LogNotFound
    <3>1. TableWork = (n - j) + 1 /\ TableWork' = 0 /\ pc = "search"
      BY <2>6 DEF FoundLog, LogNotFound, TableWork
    <3>2. j \in 0..n
      BY <3>1 DEF TableInv, SearchProgress
    <3> QED BY <2>1, <3>1, <3>2
  <2> QED BY <2>3, <2>4, <2>5, <2>6 DEF BuildStep, SearchStep
<1>2. TableInv => (pc = "baby" => i <= n) /\ (pc = "search" => j <= n)
  <2> SUFFICES ASSUME TableInv PROVE (pc = "baby" => i <= n) /\ (pc = "search" => j <= n)
    OBVIOUS
  <2>1. n \in Nat
    BY NType DEF TableInv
  <2>2. (pc = "baby" => i \in 1..n) /\ (pc = "search" => j \in 0..n)
    BY DEF TableInv, BabySteps, SearchProgress
  <2> QED BY <2>1, <2>2
<1> QED BY <1>1, <1>2, TableInvariant, PTL DEF TableSpec
=============================================================================
