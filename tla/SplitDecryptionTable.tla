------------------------ MODULE SplitDecryptionTable ------------------------
(***************************************************************************)
(* split_decryption.go: amounts are split as hi * 2^splitBits + lo; every  *)
(* lo is tried in turn and hi is looked up by the BSGS solver over the     *)
(* base nG = 2^splitBits * G.  The hi solver is the DecryptionTable        *)
(* component itself: its actions are the steps of the calls made here.     *)
(* The code has MaxSplitBits = 32.                                         *)
(***************************************************************************)
EXTENDS DecryptionTable

CONSTANTS
    MaxSplitBits,  \* largest splitBits the constructor accepts
    Params         \* the pairs <<splitBits, hiHalfBits>> callers try

ASSUME SplitAssumption ==
    /\ MaxSplitBits \in Nat
    /\ Params \subseteq Nat \X Nat
    /\ \A s \in 0..MaxSplitBits : 2^s \in Nat \ {0}

VARIABLES
    spc,        \* "none" | "build" | "ready" | "loop" | "hi" | "panicked"
    splitBits,  \* sdt.splitBits
    nG,         \* sdt.nG
    target,     \* the argument mG of SplitDecryptionTable.DiscreteLog
    lo,         \* the candidate low part
    residual,   \* residualJac = mG - lo*G
    sret        \* what the last split DiscreteLog returned

splitVars == <<spc, splitBits, nG, target, lo, residual, sret>>
splitAll  == <<tableVars, splitVars>>

loCount == 2^splitBits                   \* uint64(1) << sdt.splitBits

SplitInit ==
    /\ TableInit
    /\ spc = "none"
    /\ splitBits = 0
    /\ nG = Identity
    /\ target = Identity
    /\ lo = 0
    /\ residual = Identity
    /\ sret = Err

-----------------------------------------------------------------------------
(* NewSplitDecryptionTable *)

\* Mutant: no limit on splitBits.
NewSplit_NoLimit(s, h) ==
    /\ spc = "none"
    /\ NewDecryptionTableWithBase(h, ScalarMul(2^s, G))
    /\ spc' = "build"
    /\ splitBits' = s
    /\ nG' = ScalarMul(2^s, G)
    /\ UNCHANGED <<target, lo, residual, sret>>

NewSplitDecryptionTable(s, h) ==
    /\ spc = "none"
    /\ s <= MaxSplitBits
    /\ NewDecryptionTableWithBase(h, ScalarMul(2^s, G))
    /\ spc' = "build"
    /\ splitBits' = s
    /\ nG' = ScalarMul(2^s, G)
    /\ UNCHANGED <<target, lo, residual, sret>>

\* panic: splitBits too large, checked before hiHalfBits is looked at
SplitPanics(s) ==
    /\ spc = "none"
    /\ s > MaxSplitBits
    /\ spc' = "panicked"
    /\ UNCHANGED <<tableVars, splitBits, nG, target, lo, residual, sret>>

\* panic of the hi table's constructor: hiHalfBits > MaxHalfBits
HiTablePanics(s, h) ==
    /\ spc = "none"
    /\ s <= MaxSplitBits
    /\ NewTablePanics(h)
    /\ spc' = "panicked"
    /\ UNCHANGED <<splitBits, nG, target, lo, residual, sret>>

HiBabyStep ==
    /\ spc = "build"
    /\ BabyStep
    /\ UNCHANGED splitVars

\* The hi constructor returns, and with it NewSplitDecryptionTable.
HiTableFinished ==
    /\ spc = "build"
    /\ FinishTable
    /\ spc' = "ready"
    /\ UNCHANGED <<splitBits, nG, target, lo, residual, sret>>

-----------------------------------------------------------------------------
(* SplitDecryptionTable.DiscreteLog *)

SplitDiscreteLog(P) ==
    /\ spc = "ready"
    /\ spc' = "loop"
    /\ target' = P
    /\ residual' = P
    /\ lo' = 0
    /\ sret' = Err
    /\ UNCHANGED <<tableVars, splitBits, nG>>

\* sdt.hiTable.DiscreteLog(&residual) is called ...
AskHi ==
    /\ spc = "loop"
    /\ lo < loCount
    /\ DiscreteLog(residual)
    /\ spc' = "hi"
    /\ UNCHANGED <<splitBits, nG, target, lo, residual, sret>>

\* ... runs ...
HiSearchStep ==
    /\ spc = "hi"
    /\ SearchStep
    /\ UNCHANGED splitVars

\* Mutant: the low part is dropped.
HiFound_NoLow ==
    /\ spc = "hi"
    /\ pc = "ready"
    /\ ret.ok
    /\ spc' = "ready"
    /\ sret' = Ok(U64(ret.val * loCount))
    /\ UNCHANGED <<tableVars, splitBits, nG, target, lo, residual>>

\* Mutant: the hi table's n in place of 2^splitBits.
HiFound_WrongFactor ==
    /\ spc = "hi"
    /\ pc = "ready"
    /\ ret.ok
    /\ spc' = "ready"
    /\ sret' = Ok(U64(ret.val * n + lo))
    /\ UNCHANGED <<tableVars, splitBits, nG, target, lo, residual>>

\* ... and returns a value: return hi*n + lo in uint64 arithmetic
HiFound ==
    /\ spc = "hi"
    /\ pc = "ready"
    /\ ret.ok
    /\ spc' = "ready"
    /\ sret' = Ok(U64(ret.val * loCount + lo))
    /\ UNCHANGED <<tableVars, splitBits, nG, target, lo, residual>>

\* Mutant: nG is subtracted from the residual.
HiMissed_WrongStep ==
    /\ spc = "hi"
    /\ pc = "ready"
    /\ ~ret.ok
    /\ spc' = "loop"
    /\ residual' = PAdd(residual, PNeg(nG))
    /\ lo' = lo + 1
    /\ UNCHANGED <<tableVars, splitBits, nG, target, sret>>

\* ... or an error: residual -= G, next lo
HiMissed ==
    /\ spc = "hi"
    /\ pc = "ready"
    /\ ~ret.ok
    /\ spc' = "loop"
    /\ residual' = PAdd(residual, PNeg(G))
    /\ lo' = lo + 1
    /\ UNCHANGED <<tableVars, splitBits, nG, target, sret>>

\* Mutant: the loop gives up one lo early.
SplitNotFound_Early ==
    /\ spc = "loop"
    /\ lo >= loCount - 1
    /\ spc' = "ready"
    /\ sret' = Err
    /\ UNCHANGED <<tableVars, splitBits, nG, target, lo, residual>>

\* Mutant: the loop does not leave at lo = 2^splitBits.
SplitNotFound_Late ==
    /\ spc = "loop"
    /\ lo > loCount
    /\ spc' = "ready"
    /\ sret' = Err
    /\ UNCHANGED <<tableVars, splitBits, nG, target, lo, residual>>

\* "split discrete log not found: value out of range"
SplitNotFound ==
    /\ spc = "loop"
    /\ lo = loCount
    /\ spc' = "ready"
    /\ sret' = Err
    /\ UNCHANGED <<tableVars, splitBits, nG, target, lo, residual>>

SplitRun == \/ HiBabyStep \/ HiTableFinished \/ AskHi
            \/ HiSearchStep \/ HiFound \/ HiMissed \/ SplitNotFound

SplitNext ==
    \/ \E p \in Params : NewSplitDecryptionTable(p[1], p[2])
    \/ \E p \in Params : SplitPanics(p[1])
    \/ \E p \in Params : HiTablePanics(p[1], p[2])
    \/ \E P \in Queries : SplitDiscreteLog(P)
    \/ SplitRun

\* The loops are sequential code: a call that has begun keeps running.
SplitSpec == SplitInit /\ [][SplitNext]_splitAll /\ WF_splitAll(SplitRun)

-----------------------------------------------------------------------------
(* Properties *)

\* The amounts the solver advertises: [0, 2^splitBits * 2^(2*hiHalfBits)).
SplitRange == loCount * (n * n)

SplitTypeOK ==
    /\ TableTypeOK
    /\ spc \in {"none", "build", "ready", "loop", "hi", "panicked"}
    /\ splitBits \in 0..MaxSplitBits
    /\ nG \in Point /\ target \in Point /\ residual \in Point
    /\ lo \in Nat
    /\ sret \in [ok : BOOLEAN, val : Nat]

\* The two nested loops agree on where they are: residual is target - lo*G,
\* the hi solver is searching for exactly that residual over the base
\* 2^splitBits*G, and no amount with a low part already tried is a logarithm.
SplitProgress ==
    spc \in {"loop", "hi"} =>
        /\ lo \in 0..loCount
        /\ residual = PSub(target, ScalarMul(lo, G))
        /\ base = ScalarMul(loCount, G) /\ nG = base
        /\ \A h \in 0..(n * n - 1), l \in 0..(lo-1) :
              ScalarMul(h * loCount + l, G) # target
        /\ spc = "hi" => mG = residual /\ lo < loCount

\* A returned amount is, modulo 2^64, an amount of the advertised range that
\* is a logarithm of the argument.
SplitAnswerModWidth ==
    spc = "ready" /\ sret.ok =>
        \E h \in 0..(n * n - 1), l \in 0..(loCount-1) :
            /\ ScalarMul(h * loCount + l, G) = target
            /\ sret.val = U64(h * loCount + l)

\* With parameters whose range fits uint64 the returned amount is exact.
SplitAnswerExact ==
    spc = "ready" /\ sret.ok /\ SplitRange <= 2^Width =>
        sret.val < SplitRange /\ ScalarMul(sret.val, G) = target

\* The claim of the type's documentation for every accepted parameter pair:
\* "Coverage: amounts up to 2^splitBits * 2^(2*hiHalfBits)" and
\* "DiscreteLog recovers m from m*G": a returned amount is a logarithm.
SplitRecoversAmount ==
    spc = "ready" /\ sret.ok => ScalarMul(sret.val, G) = target

\* Every call of the split solver returns.
SplitTerminates == (spc = "loop") ~> (spc = "ready")

\* An upper bound on the steps a running constructor or search has left: up to
\* n + 2 of them for each low part still to be tried.
SplitWork ==
    CASE spc = "build" -> (n - i) + 1
      [] spc = "loop" -> (loCount - lo) * (n + 3) + 1
      [] spc = "hi" /\ pc = "search" -> (loCount - (lo + 1)) * (n + 3) + (n - j) + 3
      [] spc = "hi" /\ pc # "search" -> (loCount - (lo + 1)) * (n + 3) + 2
      [] OTHER -> 0

\* The documented worst case, "O(2^splitBits * 2^hiHalfBits) iterations": every
\* step of a call uses up work, so that a search returns within
\* 2^splitBits * (2^hiHalfBits + 3) + 1 steps, whatever the inner searches answer,
\* and the constructor within 2^hiHalfBits.
SplitStepsBounded == [][SplitRun => SplitWork' \in 0..(SplitWork - 1)]_splitAll

SplitContract == INSTANCE DiscreteLog WITH
    solver  <- CASE spc \in {"none", "build"} -> "none"
                 [] spc = "ready"  -> "ready"
                 [] spc \in {"loop", "hi"} -> "busy"
                 [] OTHER -> "panicked",
    dlBase  <- IF spc \in {"ready", "loop", "hi"} THEN G ELSE Identity,
    dlRange <- IF spc \in {"ready", "loop", "hi"} THEN SplitRange ELSE 0,
    query   <- target,
    answer  <- sret

\* With parameters whose range fits uint64 the split solver implements the
\* Decryptor contract over its advertised range: exact answers, and an error
\* only when no amount of the range is a logarithm.
SplitImplementsContract == SplitContract!DLSpec
=============================================================================
