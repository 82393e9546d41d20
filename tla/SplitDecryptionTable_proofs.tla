-------------------- MODULE SplitDecryptionTable_proofs --------------------
(***************************************************************************)
(* The split solver, for every prime group order, all parameters and every *)
(* sequence of queries, on top of the invariant of the BSGS solver it runs *)
(* as its inner call.                                                      *)
(***************************************************************************)
EXTENDS SplitDecryptionTable, DecryptionTable_proofs

\* How the two control states go together, what a finished inner search has
\* shown, and that nothing is reported before a call returns.
Nested ==
    /\ spc = "none" => pc = "none"
    /\ spc = "build" => pc = "baby"
    /\ spc \in {"ready", "loop"} => pc = "ready"
    /\ spc = "hi" => pc \in {"search", "ready"}
    /\ spc \in {"build", "ready", "loop", "hi"} => base = ScalarMul(loCount, G) /\ nG = base
    /\ spc \in {"none", "build", "loop", "hi"} => sret = Err
    /\ spc = "hi" /\ pc = "ready" /\ ret.ok = FALSE =>
          \A v \in Covered : ScalarMul(v, base) # mG

SplitInv == TableInv /\ SplitTypeOK /\ Nested /\ SplitProgress /\ SplitAnswerModWidth

-----------------------------------------------------------------------------
(* Arithmetic of the two parts of an amount *)

LEMMA LoCountType == SplitTypeOK => loCount \in Nat \ {0}
BY SplitAssumption DEF SplitTypeOK, loCount

LEMMA GIsPoint == G \in Point /\ ScalarMul(1, G) = G
<1>1. 1 \in 0..(q-1)
  BY QAssumption
<1>2. 1 * 1 = 1 /\ 1 % q = 1
  BY <1>1, ModSmall
<1> QED BY <1>1, <1>2 DEF G, Point, ScalarMul

\* h*(L*G) = (h*L)*G
LEMMA SMulAssoc ==
    \A h, L \in Int : ScalarMul(h, ScalarMul(L, G)) = ScalarMul(h * L, G)
<1> SUFFICES ASSUME NEW h \in Int, NEW L \in Int
             PROVE  ScalarMul(h, ScalarMul(L, G)) = ScalarMul(h * L, G)
  OBVIOUS
<1>1. L * 1 = L /\ h * L \in Int /\ (h * L) * 1 = h * L
  OBVIOUS
<1>2. ((L % q) * h) % q = (L * h) % q
  BY ModMul
<1>3. L % q \in Int
  BY ModType
<1>4. h * (L % q) = (L % q) * h /\ L * h = h * L
  BY <1>3
<1> QED BY <1>1, <1>2, <1>4 DEF ScalarMul, G

\* h is a logarithm of P - l*G to the base L*G exactly if h*L + l is one of P.
LEMMA PartsHit ==
    ASSUME NEW P \in Point, NEW h \in Int, NEW L \in Int, NEW l \in Int
    PROVE  (ScalarMul(h, ScalarMul(L, G)) = PSub(P, ScalarMul(l, G)))
               <=> (ScalarMul(h * L + l, G) = P)
<1>1. h * L \in Int /\ l + h * L = h * L + l
  OBVIOUS
<1>2. (ScalarMul(h * L, G) = PSub(P, ScalarMul(l, G))) <=> (ScalarMul(l + h * L, G) = P)
  BY <1>1, GIsPoint, SMulHit
<1> QED BY <1>1, <1>2, SMulAssoc

\* Every amount below L*N has parts h < N and l < L, and no other has.
LEMMA PartsOf ==
    ASSUME NEW L \in Nat \ {0}, NEW N \in Nat
    PROVE  /\ \A v \in 0..(L * N - 1) : \E h \in 0..(N-1), l \in 0..(L-1) : v = h * L + l
           /\ \A h \in 0..(N-1), l \in 0..(L-1) : h * L + l \in 0..(L * N - 1)
<1>1. ASSUME NEW v \in 0..(L * N - 1)
      PROVE  \E h \in 0..(N-1), l \in 0..(L-1) : v = h * L + l
  <2> DEFINE h == v \div L
             l == v % L
  <2>1. L * N \in Nat /\ v \in Nat /\ v < L * N
    OBVIOUS
  <2>2. v = L * h + l /\ l \in 0..(L-1) /\ h \in Int
    BY <2>1
  <2> HIDE DEF h, l
  <2>3. h * L = L * h
    BY <2>2
  <2>4. h >= 0
    <3>1. ASSUME h <= -1 PROVE FALSE
      <4>1. -1 - h \in Nat
        BY <2>2, <3>1
      <4>2. L * (-1 - h) \in Nat
        BY <4>1
      <4>3. L * (-1 - h) = -L - L * h
        BY <2>2
      <4> QED BY <2>1, <2>2, <4>2, <4>3
    <3> QED BY <2>2, <3>1
  <2>5. h < N
    <3>1. ASSUME h >= N PROVE FALSE
      <4>1. h - N \in Nat
        BY <2>2, <3>1
      <4>2. L * (h - N) \in Nat
        BY <4>1
      <4>3. L * (h - N) = L * h - L * N
        BY <2>2
      <4> QED BY <2>1, <2>2, <4>2, <4>3
    <3> QED BY <2>2, <3>1
  <2> QED BY <2>2, <2>3, <2>4, <2>5
<1>2. ASSUME NEW h \in 0..(N-1), NEW l \in 0..(L-1) PROVE h * L + l \in 0..(L * N - 1)
  <2>1. h \in Nat /\ N - 1 - h \in Nat /\ L * N \in Nat /\ h * L \in Nat
    OBVIOUS
  <2>2. L * (N - 1 - h) \in Nat
    BY <2>1
  <2>3. L * (N - 1 - h) = L * N - L - h * L
    BY <2>1
  <2> QED BY <2>1, <2>2, <2>3
<1> QED BY <1>1, <1>2

-----------------------------------------------------------------------------
(* The invariant *)

LEMMA SplitInitInv == SplitInit => SplitInv
<1> SUFFICES ASSUME SplitInit PROVE SplitInv
  OBVIOUS
<1>1. TableInv
  BY TableInitInv DEF SplitInit
<1>2. SplitTypeOK
  BY <1>1, SplitAssumption, QAssumption DEF SplitInit, SplitTypeOK, TableInv, Identity, Point, Err
<1>3. Nested /\ SplitProgress /\ SplitAnswerModWidth
  BY DEF SplitInit, TableInit, Nested, SplitProgress, SplitAnswerModWidth, Err
<1> QED BY <1>1, <1>2, <1>3 DEF SplitInv

\* The constructor: the inner table is built over 2^splitBits*G.
LEMMA NewSplitInv ==
    ASSUME SplitInv, NEW s \in Nat, NEW h \in Nat, NewSplitDecryptionTable(s, h)
    PROVE  SplitInv'
<1> USE DEF NewSplitDecryptionTable
<1>1. s \in 0..MaxSplitBits /\ 2^s \in Nat
  BY SplitAssumption
<1>2. ScalarMul(2^s, G) \in Point
  BY <1>1, GIsPoint, SMulClosed
<1>3. TableInv'
  BY <1>2, NewTableInv DEF SplitInv
<1>4. SplitTypeOK'
  BY <1>1, <1>2, <1>3 DEF SplitInv, SplitTypeOK, TableInv
<1>5. loCount' = 2^s /\ base' = ScalarMul(2^s, G) /\ pc' = "baby" /\ sret' = Err
  BY DEF loCount, NewDecryptionTableWithBase, SplitInv, Nested
<1>6. Nested' /\ SplitProgress' /\ SplitAnswerModWidth'
  BY <1>5 DEF Nested, SplitProgress, SplitAnswerModWidth
<1> QED BY <1>3, <1>4, <1>6 DEF SplitInv

LEMMA SplitPanicsInv ==
    ASSUME SplitInv, NEW s, NEW h, SplitPanics(s) \/ HiTablePanics(s, h)
    PROVE  SplitInv'
<1>1. TableInv'
  BY StutterInv, PanicInv DEF SplitInv, SplitPanics, HiTablePanics
<1>2. spc' = "panicked" /\ UNCHANGED <<splitBits, nG, target, lo, residual, sret>>
  BY DEF SplitPanics, HiTablePanics
<1>3. SplitTypeOK'
  BY <1>1, <1>2 DEF SplitInv, SplitTypeOK, TableInv
<1>4. Nested' /\ SplitProgress' /\ SplitAnswerModWidth'
  BY <1>2 DEF Nested, SplitProgress, SplitAnswerModWidth
<1> QED BY <1>1, <1>3, <1>4 DEF SplitInv

LEMMA HiBuildInv ==
    ASSUME SplitInv, HiBabyStep \/ HiTableFinished
    PROVE  SplitInv'
<1>1. TableInv'
  BY BabyStepInv, FinishTableInv DEF SplitInv, HiBabyStep, HiTableFinished
<1>2. /\ spc = "build" /\ base' = base /\ halfBits' = halfBits
      /\ UNCHANGED <<splitBits, nG, target, lo, residual, sret>>
      /\ \/ spc' = "build" /\ pc' = "baby"
         \/ spc' = "ready" /\ pc' = "ready"
  BY DEF HiBabyStep, HiTableFinished, BabyStep, FinishTable, splitVars
<1>3. loCount' = loCount /\ sret' = Err
  BY <1>2 DEF loCount, SplitInv, Nested
<1>4. SplitTypeOK'
  BY <1>1, <1>2 DEF SplitInv, SplitTypeOK, TableInv
<1>5. Nested' /\ SplitProgress' /\ SplitAnswerModWidth'
  BY <1>2, <1>3 DEF SplitInv, Nested, SplitProgress, SplitAnswerModWidth, Err
<1> QED BY <1>1, <1>4, <1>5 DEF SplitInv

LEMMA SplitDiscreteLogInv ==
    ASSUME SplitInv, NEW P \in Point, SplitDiscreteLog(P)
    PROVE  SplitInv'
<1> USE DEF SplitDiscreteLog
<1>1. TableInv' /\ n' = n /\ loCount' = loCount /\ UNCHANGED <<pc, base, ret, mG>>
  BY StutterInv DEF SplitInv, n, loCount, tableVars
<1>2. SplitTypeOK'
  BY <1>1 DEF SplitInv, SplitTypeOK, TableInv, Err
<1>3. Nested' /\ SplitAnswerModWidth'
  BY <1>1 DEF SplitInv, Nested, SplitAnswerModWidth
<1>4. SplitProgress'
  <2>1. residual' = PSub(target', ScalarMul(0, G))
    <3>1. P \in 0..(q-1) /\ P \in Int /\ P - 0 * G = P
      BY QAssumption DEF Point, G
    <3>2. PSub(P, ScalarMul(0, G)) = (P - 0 * G) % q
      BY GIsPoint, SubSMul
    <3> QED BY <3>1, <3>2, ModSmall
  <2>2. loCount \in Nat
    BY LoCountType DEF SplitInv
  <2> QED BY <1>1, <2>1, <2>2 DEF SplitInv, Nested, SplitProgress
<1> QED BY <1>1, <1>2, <1>3, <1>4 DEF SplitInv

LEMMA AskHiInv == ASSUME SplitInv, AskHi PROVE SplitInv'
<1> USE DEF AskHi
<1>1. residual \in Point
  BY DEF SplitInv, SplitTypeOK
<1>2. TableInv'
  BY <1>1, DiscreteLogInv DEF SplitInv
<1>3. /\ n' = n /\ loCount' = loCount /\ base' = base
      /\ pc' = "search" /\ mG' = residual
  BY DEF n, loCount, DiscreteLog, buildVars
<1>4. SplitTypeOK'
  BY <1>2 DEF SplitInv, SplitTypeOK, TableInv
<1>5. Nested' /\ SplitAnswerModWidth'
  BY <1>3 DEF SplitInv, Nested, SplitAnswerModWidth
<1>6. SplitProgress'
  BY <1>3 DEF SplitInv, SplitProgress
<1> QED BY <1>2, <1>4, <1>5, <1>6 DEF SplitInv

LEMMA HiSearchStepInv == ASSUME SplitInv, HiSearchStep PROVE SplitInv'
<1> USE DEF HiSearchStep
<1>1. TableInv'
  BY FoundLogInv, GiantStepInv, LogNotFoundInv DEF SplitInv, SearchStep
<1>2. UNCHANGED <<halfBits, base, mG>> /\ pc' \in {"search", "ready"}
  BY DEF SearchStep, FoundLog, GiantStep, LogNotFound, buildVars
<1>3. n' = n /\ loCount' = loCount /\ UNCHANGED splitVars
  BY <1>2 DEF n, loCount, splitVars
<1>4. SplitTypeOK'
  BY <1>1, <1>3 DEF SplitInv, SplitTypeOK, TableInv, splitVars
<1>5. pc' = "ready" /\ ret'.ok = FALSE => \A v \in Covered' : ScalarMul(v, base') # mG'
  <2>1. CASE FoundLog
    <3>1. ret'.ok = TRUE
      BY <2>1 DEF FoundLog, Ok
    <3> QED BY <3>1
  <2>2. CASE GiantStep
    BY <2>2 DEF GiantStep
  <2>3. CASE LogNotFound
    BY <1>2, <1>3, <2>3, ErrorMeansNone DEF SplitInv, Covered
  <2> QED BY <2>1, <2>2, <2>3 DEF SearchStep
<1>6. Nested'
  BY <1>2, <1>3, <1>5 DEF SplitInv, Nested, splitVars
<1>7. SplitProgress' /\ SplitAnswerModWidth'
  BY <1>2, <1>3 DEF SplitInv, SplitProgress, SplitAnswerModWidth, splitVars
<1> QED BY <1>1, <1>4, <1>6, <1>7 DEF SplitInv

\* The inner search found hi: the amount has the parts hi and lo.
LEMMA HiFoundParts ==
    ASSUME SplitInv, HiFound
    PROVE  /\ ret.val \in 0..(n * n - 1) /\ lo \in 0..(loCount - 1)
           /\ ScalarMul(ret.val * loCount + lo, G) = target
<1> USE DEF HiFound
<1>1. ret.val \in 0..(n * n - 1) /\ ScalarMul(ret.val, base) = mG
  BY DEF SplitInv, TableInv, AnswerCorrect, Covered
<1>2. /\ mG = PSub(target, ScalarMul(lo, G)) /\ base = ScalarMul(loCount, G)
      /\ lo \in 0..loCount /\ lo < loCount
  BY DEF SplitInv, SplitProgress
<1>3. loCount \in Nat \ {0} /\ n * n \in Nat /\ target \in Point
  BY LoCountType, NType DEF SplitInv, SplitTypeOK
<1>4. ScalarMul(ret.val * loCount + lo, G) = target
  BY <1>1, <1>2, <1>3, PartsHit
<1> QED BY <1>1, <1>2, <1>3, <1>4

LEMMA HiFoundInv == ASSUME SplitInv, HiFound PROVE SplitInv'
<1> USE DEF HiFound
<1>1. TableInv' /\ n' = n /\ loCount' = loCount /\ UNCHANGED <<pc, base, ret, mG>>
  BY StutterInv DEF SplitInv, n, loCount, tableVars
<1> DEFINE v == ret.val * loCount + lo
<1>2. /\ ret.val \in 0..(n * n - 1) /\ lo \in 0..(loCount - 1)
      /\ ScalarMul(v, G) = target
  BY HiFoundParts
<1>3. loCount \in Nat \ {0} /\ n * n \in Nat
  BY LoCountType, NType DEF SplitInv, SplitTypeOK
<1>4. v \in Nat
  BY <1>2, <1>3
<1>5. U64(v) \in Nat
  <2> DEFINE W == 2^Width
  <2>1. W \in Nat /\ W > 0
    <3>1. 0 \in 0..MaxHalfBits
      BY WidthAssumption
    <3>2. 2^0 \in Nat \ {0} /\ 2^0 * 2^0 <= 2^Width
      BY <3>1, PowAssumption
    <3>3. \A y \in Nat \ {0} : y * y >= 1
      OBVIOUS
    <3> QED BY <3>2, <3>3, PowAssumption
  <2> HIDE DEF W, v
  <2>2. v % W \in Nat
    BY <1>4, <2>1
  <2> QED BY <2>2 DEF U64, W
<1>6. sret' = Ok(U64(v)) /\ sret'.ok = TRUE /\ sret'.val = U64(v)
  BY DEF Ok
<1>7. SplitTypeOK'
  BY <1>1, <1>5, <1>6 DEF SplitInv, SplitTypeOK, TableInv, Ok
<1>8. SplitAnswerModWidth'
  BY <1>1, <1>2, <1>6 DEF SplitAnswerModWidth
<1>9. Nested' /\ SplitProgress'
  BY <1>1 DEF SplitInv, Nested, SplitProgress
<1> QED BY <1>1, <1>7, <1>8, <1>9 DEF SplitInv

\* The inner search failed: no amount with low part lo is a logarithm.
LEMMA HiMissedInv == ASSUME SplitInv, HiMissed PROVE SplitInv'
<1> USE DEF HiMissed
<1>1. TableInv' /\ n' = n /\ loCount' = loCount /\ UNCHANGED <<pc, base, ret, mG>>
  BY StutterInv DEF SplitInv, n, loCount, tableVars
<1>2. /\ mG = residual /\ residual = PSub(target, ScalarMul(lo, G))
      /\ base = ScalarMul(loCount, G) /\ nG = base /\ lo \in 0..loCount /\ lo < loCount
      /\ \A h \in 0..(n * n - 1), l \in 0..(lo-1) : ScalarMul(h * loCount + l, G) # target
  BY DEF SplitInv, SplitProgress
<1>3. loCount \in Nat \ {0} /\ n * n \in Nat /\ target \in Point /\ residual \in Point
  BY LoCountType, NType DEF SplitInv, SplitTypeOK
<1>4. ret.ok = FALSE
  <2>1. ret.ok \in BOOLEAN
    BY DEF SplitInv, TableInv, TableTypeOK
  <2> QED BY <2>1, Zenon
<1>5. \A v \in 0..(n * n - 1) : ScalarMul(v, base) # mG
  BY <1>4 DEF SplitInv, Nested, Covered
<1>6. residual' = PSub(target, ScalarMul(lo + 1, G))
  BY <1>2, <1>3, GIsPoint, SubSMulStep
<1>7. ASSUME NEW h \in 0..(n * n - 1), NEW l \in 0..lo
      PROVE  ScalarMul(h * loCount + l, G) # target
  <2>1. CASE l = lo
    BY <1>2, <1>3, <1>5, <2>1, PartsHit
  <2>2. CASE l # lo
    BY <1>2, <2>2
  <2> QED BY <2>1, <2>2
<1>8. SplitTypeOK'
  <2>1. residual' \in Point
    BY <1>3, GIsPoint, NegClosed, AddClosed
  <2> QED BY <1>1, <2>1 DEF SplitInv, SplitTypeOK, TableInv
<1>9. Nested' /\ SplitAnswerModWidth'
  BY <1>1, <1>2 DEF SplitInv, Nested, SplitAnswerModWidth
<1>10. SplitProgress'
  <2>1. lo' \in 0..loCount' /\ lo' - 1 = lo
    BY <1>1, <1>2, <1>3
  <2> QED BY <1>1, <1>2, <1>6, <1>7, <2>1 DEF SplitProgress
<1> QED BY <1>1, <1>8, <1>9, <1>10 DEF SplitInv

LEMMA SplitNotFoundInv == ASSUME SplitInv, SplitNotFound PROVE SplitInv'
<1> USE DEF SplitNotFound
<1>1. TableInv' /\ n' = n /\ loCount' = loCount /\ UNCHANGED <<pc, base, ret, mG>>
  BY StutterInv DEF SplitInv, n, loCount, tableVars
<1>2. SplitTypeOK'
  BY <1>1 DEF SplitInv, SplitTypeOK, TableInv, Err
<1>3. Nested' /\ SplitProgress' /\ SplitAnswerModWidth'
  BY <1>1 DEF SplitInv, Nested, SplitProgress, SplitAnswerModWidth, Err
<1> QED BY <1>1, <1>2, <1>3 DEF SplitInv

LEMMA SplitStutterInv == ASSUME SplitInv, UNCHANGED splitAll PROVE SplitInv'
<1>1. TableInv' /\ n' = n /\ loCount' = loCount /\ UNCHANGED tableVars /\ UNCHANGED splitVars
  BY StutterInv DEF SplitInv, splitAll, n, loCount, tableVars, splitVars
<1>2. SplitTypeOK'
  BY <1>1 DEF SplitInv, SplitTypeOK, TableInv, splitVars
<1>3. Nested' /\ SplitProgress' /\ SplitAnswerModWidth'
  BY <1>1 DEF SplitInv, Nested, SplitProgress, SplitAnswerModWidth, splitVars, tableVars, Covered
<1> QED BY <1>1, <1>2, <1>3 DEF SplitInv

LEMMA SplitStepInv == SplitInv /\ [SplitNext]_splitAll => SplitInv'
<1> SUFFICES ASSUME SplitInv, [SplitNext]_splitAll PROVE SplitInv'
  OBVIOUS
<1>1. ASSUME NEW p \in Params, NewSplitDecryptionTable(p[1], p[2]) PROVE SplitInv'
  <2>1. p[1] \in Nat /\ p[2] \in Nat
    BY SplitAssumption
  <2> QED BY <1>1, <2>1, NewSplitInv
<1>2. ASSUME NEW p \in Params, SplitPanics(p[1]) \/ HiTablePanics(p[1], p[2]) PROVE SplitInv'
  BY <1>2, SplitPanicsInv
<1>3. ASSUME NEW P \in Queries, SplitDiscreteLog(P) PROVE SplitInv'
  BY <1>3, CallerAssumption, SplitDiscreteLogInv
<1>4. ASSUME SplitRun PROVE SplitInv'
  BY <1>4, HiBuildInv, AskHiInv, HiSearchStepInv, HiFoundInv, HiMissedInv, SplitNotFoundInv
     DEF SplitRun
<1>5. CASE UNCHANGED splitAll
  BY <1>5, SplitStutterInv
<1> QED BY <1>1, <1>2, <1>3, <1>4, <1>5 DEF SplitNext

\* The invariants of the two nested loops hold for every group order, all
\* parameters and every sequence of queries.
THEOREM SplitInvariant == SplitSpec => []SplitInv
BY SplitInitInv, SplitStepInv, PTL DEF SplitSpec

\* Type correctness of the split solver, with splitBits within its limit.
THEOREM SplitTypes == SplitSpec => []SplitTypeOK
<1>1. SplitInv => SplitTypeOK
  BY DEF SplitInv
<1> QED BY <1>1, SplitInvariant, PTL

\* The outer loop never skips an amount, and the inner solver always works on
\* the residual of the current low part.
THEOREM SplitSkipsNothing == SplitSpec => []SplitProgress
<1>1. SplitInv => SplitProgress
  BY DEF SplitInv
<1> QED BY <1>1, SplitInvariant, PTL

\* Whatever the parameters, what the split solver returns is modulo 2^64 an
\* amount of its range that is a logarithm of its argument.
THEOREM SplitAnswersModWidth == SplitSpec => []SplitAnswerModWidth
<1>1. SplitInv => SplitAnswerModWidth
  BY DEF SplitInv
<1> QED BY <1>1, SplitInvariant, PTL

\* hi*2^splitBits + lo does not wrap when the advertised range fits uint64.
LEMMA SplitExact == SplitInv => SplitAnswerExact
<1> SUFFICES ASSUME SplitInv, spc = "ready", sret.ok, SplitRange <= 2^Width
             PROVE  sret.val < SplitRange /\ ScalarMul(sret.val, G) = target
  BY DEF SplitAnswerExact
<1>1. PICK h \in 0..(n * n - 1), l \in 0..(loCount-1) :
         ScalarMul(h * loCount + l, G) = target /\ sret.val = U64(h * loCount + l)
  BY DEF SplitInv, SplitAnswerModWidth
<1>2. loCount \in Nat \ {0} /\ n * n \in Nat
  BY LoCountType, NType DEF SplitInv, SplitTypeOK
<1>3. h * loCount + l \in 0..(loCount * (n * n) - 1)
  BY <1>2, PartsOf
<1>4. h * loCount + l \in Nat /\ h * loCount + l < SplitRange /\ SplitRange \in Nat
  BY <1>2, <1>3 DEF SplitRange
<1>5. U64(h * loCount + l) = h * loCount + l
  <2>1. 2^Width \in Nat
    BY PowAssumption
  <2>2. h * loCount + l < 2^Width
    BY <1>4, <2>1
  <2> QED BY <1>4, <2>2, U64Small
<1> QED BY <1>1, <1>4, <1>5

\* With parameters whose range fits uint64 the returned amount is exact.
THEOREM SplitAnswersExact == SplitSpec => []SplitAnswerExact
BY SplitExact, SplitInvariant, PTL

-----------------------------------------------------------------------------
(* Refinement of the Decryptor contract *)

\* Every pair that the constructors accept advertises a range that fits uint64.
RangesFit ==
    \A p \in Params :
        p[1] <= MaxSplitBits /\ p[2] <= MaxHalfBits => 2^p[1] * (2^p[2] * 2^p[2]) <= 2^Width

Fits == spc \in {"build", "ready", "loop", "hi"} => SplitRange <= 2^Width

LEMMA FitsStep ==
    ASSUME RangesFit, SplitInv, Fits, [SplitNext]_splitAll
    PROVE  Fits'
<1>1. ASSUME NEW p \in Params, NewSplitDecryptionTable(p[1], p[2]) PROVE Fits'
  <2>1. splitBits' = p[1] /\ halfBits' = p[2] /\ p[1] <= MaxSplitBits /\ p[2] <= MaxHalfBits
    BY <1>1 DEF NewSplitDecryptionTable, NewDecryptionTableWithBase
  <2>2. 2^p[1] * (2^p[2] * 2^p[2]) <= 2^Width
    BY <2>1 DEF RangesFit
  <2> QED BY <2>1, <2>2 DEF Fits, SplitRange, loCount, n
<1>2. spc' = "panicked" => Fits'
  BY DEF Fits
<1>3. ASSUME UNCHANGED <<splitBits, halfBits>>, spc # "none" \/ spc' = "none" PROVE Fits'
  <2>1. SplitRange' = SplitRange
    BY <1>3 DEF SplitRange, loCount, n
  <2>2. spc' \in {"build", "ready", "loop", "hi"} => spc \in {"build", "ready", "loop", "hi"}
    BY <1>3 DEF SplitInv, SplitTypeOK, SplitNext, NewSplitDecryptionTable, SplitPanics, HiTablePanics,
           SplitDiscreteLog, SplitRun, HiBabyStep, HiTableFinished, AskHi, HiSearchStep, HiFound,
           HiMissed, SplitNotFound, splitVars, splitAll
  <2> QED BY <2>1, <2>2 DEF Fits
<1>4. \/ \E p \in Params : NewSplitDecryptionTable(p[1], p[2])
      \/ spc' = "panicked"
      \/ UNCHANGED <<splitBits, halfBits>> /\ (spc # "none" \/ spc' = "none")
  <2>1. ASSUME SplitRun PROVE UNCHANGED <<splitBits, halfBits>> /\ spc # "none"
    BY <2>1 DEF SplitRun, HiBabyStep, HiTableFinished, AskHi, HiSearchStep, HiFound, HiMissed,
                SplitNotFound, splitVars, tableVars, BabyStep, FinishTable, DiscreteLog,
                SearchStep, FoundLog, GiantStep, LogNotFound, buildVars
  <2>2. ASSUME NEW P \in Queries, SplitDiscreteLog(P)
        PROVE  UNCHANGED <<splitBits, halfBits>> /\ spc # "none"
    BY <2>2 DEF SplitDiscreteLog, tableVars
  <2>3. UNCHANGED splitAll => UNCHANGED <<splitBits, halfBits>> /\ (spc # "none" \/ spc' = "none")
    BY DEF splitAll, splitVars, tableVars
  <2>4. ASSUME NEW p \in Params, SplitPanics(p[1]) \/ HiTablePanics(p[1], p[2])
        PROVE  spc' = "panicked"
    BY <2>4 DEF SplitPanics, HiTablePanics
  <2> QED BY <2>1, <2>2, <2>3, <2>4 DEF SplitNext
<1> QED BY <1>1, <1>2, <1>3, <1>4

\* The set of answers of the contract, in the solver's own terms.
LEMMA SplitAnswersChar ==
    ASSUME NEW N \in Nat, NEW b, NEW P
    PROVE  /\ \A v \in 0..(N-1) :
                 ScalarMul(v, b) = P => Ok(v) \in SplitContract!Answers(b, N, P)
           /\ (\A v \in 0..(N-1) : ScalarMul(v, b) # P)
                 => Err \in SplitContract!Answers(b, N, P)
<1> DEFINE logs == {v \in 0..(N-1) : ScalarMul(v, b) = P}
<1>1. SplitContract!Answers(b, N, P) = IF logs = {} THEN {Err} ELSE {Ok(v) : v \in logs}
  BY DEF SplitContract!Answers, SplitContract!NoAnswer, SplitContract!Solved, Err, Ok,
         ScalarMul, SplitContract!ScalarMul
<1>2. ASSUME NEW v \in 0..(N-1), ScalarMul(v, b) = P
      PROVE  Ok(v) \in SplitContract!Answers(b, N, P)
  <2>1. v \in logs
    BY <1>2
  <2> QED BY <1>1, <2>1
<1>3. ASSUME \A v \in 0..(N-1) : ScalarMul(v, b) # P
      PROVE  Err \in SplitContract!Answers(b, N, P)
  <2>1. logs = {}
    BY <1>3
  <2> QED BY <1>1, <2>1
<1> QED BY <1>2, <1>3

\* The loop over the low parts ends only when the whole range holds no
\* logarithm.
LEMMA SplitErrorMeansNone ==
    SplitInv /\ SplitNotFound => \A v \in 0..(SplitRange - 1) : ScalarMul(v, G) # target
<1> SUFFICES ASSUME SplitInv, SplitNotFound, NEW v \in 0..(SplitRange - 1)
             PROVE  ScalarMul(v, G) # target
  OBVIOUS
<1>1. loCount \in Nat \ {0} /\ n * n \in Nat
  BY LoCountType, NType DEF SplitInv, SplitTypeOK
<1>2. PICK h \in 0..(n * n - 1), l \in 0..(loCount-1) : v = h * loCount + l
  BY <1>1, PartsOf DEF SplitRange
<1>3. ScalarMul(h * loCount + l, G) # target
  BY DEF SplitInv, SplitProgress, SplitNotFound
<1> QED BY <1>2, <1>3

LEMMA SplitContractStep ==
    SplitInv /\ SplitInv' /\ Fits /\ [SplitNext]_splitAll
        => [SplitContract!DLNext]_(SplitContract!dlVars)
<1> SUFFICES ASSUME SplitInv, SplitInv', Fits, [SplitNext]_splitAll
             PROVE  [SplitContract!DLNext]_(SplitContract!dlVars)
  OBVIOUS
<1> USE DEF SplitContract!dlVars
<1>0. SplitRange \in Nat /\ SplitRange' \in Nat
  <2>1. loCount \in Nat \ {0} /\ n * n \in Nat
    BY LoCountType, NType DEF SplitInv, SplitTypeOK
  <2>2. loCount' \in Nat \ {0} /\ (n * n)' \in Nat
    <3>1. SplitTypeOK' => loCount' \in Nat \ {0}
      BY SplitAssumption DEF SplitTypeOK, loCount
    <3>2. TableTypeOK' => (n * n)' \in Nat
      <4>1. TableTypeOK' => n' \in Nat
        BY PowAssumption DEF TableTypeOK, n
      <4>2. \A x \in Nat : x * x \in Nat
        OBVIOUS
      <4> QED BY <4>1, <4>2
    <3> QED BY <3>1, <3>2 DEF SplitInv, SplitTypeOK
  <2>3. \A x \in Nat \ {0}, y \in Nat : x * y \in Nat
    OBVIOUS
  <2> QED BY <2>1, <2>2, <2>3 DEF SplitRange
<1>1. ASSUME NEW p \in Params, NewSplitDecryptionTable(p[1], p[2])
      PROVE  UNCHANGED SplitContract!dlVars
  BY <1>1 DEF NewSplitDecryptionTable
<1>2. ASSUME NEW p \in Params, SplitPanics(p[1]) \/ HiTablePanics(p[1], p[2])
      PROVE  SplitContract!DLNext
  BY <1>2 DEF SplitPanics, HiTablePanics, SplitContract!DLNext, SplitContract!Panic
<1>3. CASE HiBabyStep
  BY <1>3 DEF HiBabyStep, splitVars
<1>4. CASE HiTableFinished
  BY <1>0, <1>4, GIsPoint DEF HiTableFinished, SplitContract!DLNext, SplitContract!Construct,
     Point, SplitContract!Point
<1>5. ASSUME NEW P \in Queries, SplitDiscreteLog(P) PROVE SplitContract!DLNext
  <2>1. P \in Point /\ SplitRange' = SplitRange
    BY <1>5, CallerAssumption DEF SplitDiscreteLog, tableVars, SplitRange, loCount, n
  <2>2. SplitContract!Ask(P)
    BY <1>5, <2>1 DEF SplitDiscreteLog, SplitContract!Ask, SplitContract!NoAnswer, Err
  <2> QED BY <2>1, <2>2 DEF SplitContract!DLNext, Point, SplitContract!Point
<1>6. CASE AskHi
  <2>1. SplitRange' = SplitRange
    BY <1>6 DEF AskHi, DiscreteLog, buildVars, SplitRange, loCount, n
  <2> QED BY <1>6, <2>1 DEF AskHi
<1>7. CASE HiSearchStep
  <2>1. SplitRange' = SplitRange /\ UNCHANGED splitVars
    BY <1>7 DEF HiSearchStep, SearchStep, FoundLog, GiantStep, LogNotFound, buildVars,
                splitVars, SplitRange, loCount, n
  <2> QED BY <2>1 DEF splitVars
<1>8. CASE HiFound
  <2>1. /\ SplitRange' = SplitRange /\ target' = target /\ spc = "hi" /\ spc' = "ready"
        /\ sret' = Ok(sret'.val) /\ sret'.ok
    BY <1>8 DEF HiFound, tableVars, SplitRange, loCount, n, Ok
  <2>2. SplitRange' <= (2^Width)
    BY <2>1 DEF Fits
  <2>3. SplitAnswerExact'
    <3>1. SplitInv' => SplitAnswerExact'
      BY SplitExact, PTL
    <3> QED BY <3>1
  <2>4. sret'.val < SplitRange /\ ScalarMul(sret'.val, G) = target /\ sret'.val \in Nat
    BY <2>1, <2>2, <2>3 DEF SplitAnswerExact, SplitInv, SplitTypeOK
  <2>5. sret' \in SplitContract!Answers(G, SplitRange, target)
    <3>1. sret'.val \in 0..(SplitRange - 1)
      BY <1>0, <2>4
    <3> QED BY <1>0, <2>1, <2>4, <3>1, SplitAnswersChar
  <2>6. SplitContract!Reply
    BY <2>1, <2>5 DEF SplitContract!Reply
  <2> QED BY <2>6 DEF SplitContract!DLNext
<1>9. CASE HiMissed
  <2>1. SplitRange' = SplitRange
    BY <1>9 DEF HiMissed, tableVars, SplitRange, loCount, n
  <2> QED BY <1>9, <2>1 DEF HiMissed
<1>10. CASE SplitNotFound
  <2>1. /\ SplitRange' = SplitRange /\ target' = target /\ spc = "loop" /\ spc' = "ready"
        /\ sret' = Err
    BY <1>10 DEF SplitNotFound, tableVars, SplitRange, loCount, n
  <2>2. sret' \in SplitContract!Answers(G, SplitRange, target)
    BY <1>0, <1>10, <2>1, SplitErrorMeansNone, SplitAnswersChar
  <2>3. SplitContract!Reply
    BY <2>1, <2>2 DEF SplitContract!Reply
  <2> QED BY <2>3 DEF SplitContract!DLNext
<1>11. CASE UNCHANGED splitAll
  <2>1. SplitRange' = SplitRange /\ UNCHANGED splitVars
    BY <1>11 DEF splitAll, splitVars, tableVars, SplitRange, loCount, n
  <2> QED BY <2>1 DEF splitVars
<1> QED BY <1>1, <1>2, <1>3, <1>4, <1>5, <1>6, <1>7, <1>8, <1>9, <1>10, <1>11
        DEF SplitNext, SplitRun

\* If every accepted pair of parameters has a range that fits uint64, the split
\* solver implements the Decryptor contract over its advertised range.  (The
\* code also accepts pairs that do not fit, for which this fails.)
THEOREM SplitSolverImplementsContract ==
    ASSUME RangesFit
    PROVE  SplitSpec => SplitImplementsContract
<1>1. SplitInit => SplitContract!DLInit /\ Fits
  BY DEF SplitInit, Fits, SplitContract!DLInit, Err, Identity, SplitContract!NoAnswer,
         SplitContract!Identity
<1>2. SplitInv /\ Fits /\ [SplitNext]_splitAll => Fits'
  BY FitsStep
<1>3. SplitInv /\ SplitInv' /\ Fits /\ [SplitNext]_splitAll
        => [SplitContract!DLNext]_(SplitContract!dlVars)
  BY SplitContractStep
<1> QED BY <1>1, <1>2, <1>3, SplitInvariant, PTL
        DEF SplitSpec, SplitImplementsContract, SplitContract!DLSpec

-----------------------------------------------------------------------------
(* The work of a call *)

\* One low part costs n + 3.
LEMMA WorkPerLow ==
    ASSUME NEW L \in Nat, NEW l \in Nat, l < L, NEW K \in Nat
    PROVE  /\ (L - l) * K = (L - (l + 1)) * K + K
           /\ (L - (l + 1)) * K \in Nat
<1> DEFINE m == L - (l + 1)
<1>1. m \in Nat /\ L - l = m + 1
  OBVIOUS
<1> HIDE DEF m
<1>2. (m + 1) * K = m * K + K /\ m * K \in Nat
  BY <1>1
<1> QED BY <1>1, <1>2 DEF m

\* SplitWork in each control state.
LEMMA WorkCases ==
    /\ spc = "build" => SplitWork = (n - i) + 1
    /\ spc = "loop" => SplitWork = (loCount - lo) * (n + 3) + 1
    /\ spc = "hi" /\ pc = "search" =>
          SplitWork = (loCount - (lo + 1)) * (n + 3) + (n - j) + 3
    /\ spc = "hi" /\ pc = "ready" => SplitWork = (loCount - (lo + 1)) * (n + 3) + 2
    /\ spc = "ready" => SplitWork = 0
BY DEF SplitWork

LEMMA WorkCasesNext ==
    /\ (spc = "build")' => SplitWork' = (n' - i') + 1
    /\ (spc = "loop")' => SplitWork' = (loCount' - lo') * (n' + 3) + 1
    /\ (spc = "hi" /\ pc = "search")' =>
          SplitWork' = (loCount' - (lo' + 1)) * (n' + 3) + (n' - j') + 3
    /\ (spc = "hi" /\ pc = "ready")' => SplitWork' = (loCount' - (lo' + 1)) * (n' + 3) + 2
    /\ (spc = "ready")' => SplitWork' = 0
BY DEF SplitWork

\* Each step of a call uses up some of its work.
LEMMA SplitWorkStep ==
    ASSUME SplitInv, SplitRun PROVE SplitWork' \in 0..(SplitWork - 1)
<1>1. /\ n \in Nat \ {0} /\ loCount \in Nat \ {0} /\ n + 3 \in Nat
      /\ i \in Nat /\ j \in Nat /\ lo \in Nat
  BY NType, LoCountType DEF SplitInv, SplitTypeOK, TableTypeOK
<1> DEFINE K == n + 3
           W == (loCount - (lo + 1)) * K
<1>2. lo < loCount => W \in Nat /\ (loCount - lo) * K = W + K
  BY <1>1, WorkPerLow
<1>3. CASE HiBabyStep
  <2>1. /\ spc = "build" /\ spc' = "build" /\ i < n /\ i' = i + 1 /\ n' = n
    BY <1>3 DEF HiBabyStep, BabyStep, splitVars, n
  <2>2. SplitWork = (n - i) + 1 /\ SplitWork' = (n - (i + 1)) + 1
    BY <2>1, WorkCases, WorkCasesNext
  <2> QED BY <1>1, <2>1, <2>2
<1>4. CASE HiTableFinished
  <2>1. spc = "build" /\ spc' = "ready" /\ i = n
    BY <1>4 DEF HiTableFinished, FinishTable
  <2>2. SplitWork = (n - i) + 1 /\ SplitWork' = 0
    BY <2>1, WorkCases, WorkCasesNext
  <2> QED BY <1>1, <2>1, <2>2
<1>5. CASE AskHi
  <2>1. /\ spc = "loop" /\ lo < loCount /\ spc' = "hi" /\ pc' = "search" /\ j' = 0
        /\ lo' = lo /\ n' = n /\ loCount' = loCount
    BY <1>5 DEF AskHi, DiscreteLog, buildVars, n, loCount
  <2>2. SplitWork = (loCount - lo) * K + 1 /\ SplitWork' = W + (n - 0) + 3
    BY <2>1, WorkCases, WorkCasesNext
  <2>3. W \in Nat /\ (loCount - lo) * K = W + K
    BY <1>2, <2>1
  <2>4. K = n + 3
    OBVIOUS
  <2>5. SplitWork = W + (n + 3) + 1
    BY <2>2, <2>3, <2>4
  <2> HIDE DEF W, K
  <2> QED BY <1>1, <2>2, <2>3, <2>5
<1>6. CASE HiSearchStep
  <2>1. /\ spc = "hi" /\ pc = "search" /\ spc' = "hi" /\ lo' = lo /\ n' = n
        /\ loCount' = loCount
    BY <1>6 DEF HiSearchStep, SearchStep, FoundLog, GiantStep, LogNotFound, buildVars,
                splitVars, n, loCount
  <2>2. lo < loCount /\ j \in 0..n
    BY <2>1 DEF SplitInv, TableInv, SplitProgress, SearchProgress
  <2>3. (pc' = "search" /\ j < n /\ j' = j + 1) \/ pc' = "ready"
    BY <1>6 DEF HiSearchStep, SearchStep, FoundLog, GiantStep, LogNotFound
  <2>4. SplitWork = W + (n - j) + 3
    BY <2>1, WorkCases
  <2>5. CASE pc' = "search" /\ j < n /\ j' = j + 1
    <3>1. SplitWork' = W + (n - (j + 1)) + 3
      BY <2>1, <2>5, WorkCasesNext
    <3>2. W \in Nat
      BY <1>2, <2>2
    <3> HIDE DEF W
    <3> QED BY <1>1, <2>4, <2>5, <3>1, <3>2
  <2>6. CASE pc' = "ready"
    <3>1. SplitWork' = W + 2
      BY <2>1, <2>6, WorkCasesNext
    <3>2. W \in Nat
      BY <1>2, <2>2
    <3> HIDE DEF W
    <3> QED BY <1>1, <2>2, <2>4, <3>1, <3>2
  <2> QED BY <2>3, <2>5, <2>6
<1>7. CASE HiFound
  <2>1. spc = "hi" /\ pc = "ready" /\ spc' = "ready"
    BY <1>7 DEF HiFound
  <2>2. W \in Nat
    BY <1>2, <2>1 DEF SplitInv, SplitProgress
  <2>3. SplitWork = W + 2 /\ SplitWork' = 0
    BY <2>1, WorkCases, WorkCasesNext
  <2> HIDE DEF W
  <2> QED BY <2>2, <2>3
<1>8. CASE HiMissed
  <2>1. /\ spc = "hi" /\ pc = "ready" /\ spc' = "loop" /\ lo' = lo + 1 /\ n' = n
        /\ loCount' = loCount
    BY <1>8 DEF HiMissed, tableVars, n, loCount
  <2>2. W \in Nat
    BY <1>2, <2>1 DEF SplitInv, SplitProgress
  <2>3. SplitWork = W + 2 /\ SplitWork' = W + 1
    BY <2>1, WorkCases, WorkCasesNext
  <2> HIDE DEF W
  <2> QED BY <2>2, <2>3
<1>9. CASE SplitNotFound
  <2>1. spc = "loop" /\ lo = loCount /\ spc' = "ready"
    BY <1>9 DEF SplitNotFound
  <2>2. SplitWork = (loCount - lo) * K + 1 /\ SplitWork' = 0
    BY <2>1, WorkCases, WorkCasesNext
  <2>3. (loCount - lo) * K = 0
    BY <1>1, <2>1
  <2> QED BY <2>2, <2>3
<1> QED BY <1>3, <1>4, <1>5, <1>6, <1>7, <1>8, <1>9 DEF SplitRun

\* Every step of NewSplitDecryptionTable and of SplitDecryptionTable.DiscreteLog
\* uses up work, so every call is over after as many steps as its work at the
\* start: the worst case that split_decryption.go documents, for all parameters.
THEOREM SplitCallsAreBounded == SplitSpec => SplitStepsBounded
<1>1. SplitInv /\ [SplitNext]_splitAll => [SplitRun => SplitWork' \in 0..(SplitWork - 1)]_splitAll
  BY SplitWorkStep
<1> QED BY <1>1, SplitInvariant, PTL DEF SplitSpec, SplitStepsBounded

\* A step of the running call is possible, by the conditions of the code: a baby
\* step or the end of the constructor, a call of the inner solver or the end of the
\* loop, a step of the inner search, its return.
SplitCanRun ==
    \/ spc = "build" /\ pc = "baby" /\ i <= n
    \/ spc = "loop" /\ lo < loCount /\ pc = "ready"
    \/ spc = "loop" /\ lo = loCount
    \/ spc = "hi" /\ pc = "search" /\ j <= n
    \/ spc = "hi" /\ pc = "ready"

\* A call that has not returned always has a next step: the inner solver is
\* idle when it is asked, and no loop variable runs past its bound.
THEOREM SplitCallsNeverStuck ==
    SplitSpec => [](spc \in {"build", "loop", "hi"} => SplitCanRun)
<1>1. SplitInv => (spc \in {"build", "loop", "hi"} => SplitCanRun)
  <2> SUFFICES ASSUME SplitInv, spc \in {"build", "loop", "hi"} PROVE SplitCanRun
    OBVIOUS
  <2>1. /\ n \in Nat \ {0} /\ loCount \in Nat \ {0}
        /\ i \in Nat /\ j \in Nat /\ lo \in Nat
    BY NType, LoCountType DEF SplitInv, SplitTypeOK, TableTypeOK
  <2>2. CASE spc = "build"
    <3>1. pc = "baby" /\ i \in 1..n
      BY <2>2 DEF SplitInv, Nested, TableInv, BabySteps
    <3> QED BY <2>1, <2>2, <3>1 DEF SplitCanRun
  <2>3. CASE spc = "loop"
    <3>1. pc = "ready" /\ lo \in 0..loCount
      BY <2>3 DEF SplitInv, Nested, SplitProgress
    <3> QED BY <2>1, <2>3, <3>1 DEF SplitCanRun
  <2>4. CASE spc = "hi"
    <3>1. pc = "ready" \/ (pc = "search" /\ j \in 0..n)
      BY <2>4 DEF SplitInv, Nested, TableInv, SearchProgress
    <3> QED BY <2>1, <2>4, <3>1 DEF SplitCanRun
  <2> QED BY <2>2, <2>3, <2>4
<1> QED BY <1>1, SplitInvariant, PTL
=============================================================================
