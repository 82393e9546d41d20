----------------------- MODULE MCSplitDecryptionTable -----------------------
(* Small instances of SplitDecryptionTable.  The scaled widths keep the     *)
(* order of the real ones: 2*MaxHalfBits < Width < MaxSplitBits +           *)
(* 2*MaxHalfBits (60 < 64 < 92 in the code), and q exceeds every range.     *)
EXTENDS SplitDecryptionTable

MCQueries == Point
\* Every accepted pair, and one value past each limit.
AllParams == (0..(MaxSplitBits + 1)) \X (0..(MaxHalfBits + 1))
\* The pairs whose range fits uint64, and the rejected ones.
FittingParams == {p \in AllParams : p[1] + 2 * p[2] <= Width
                                    \/ p[1] > MaxSplitBits \/ p[2] > MaxHalfBits}
=============================================================================
