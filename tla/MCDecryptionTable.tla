------------------------- MODULE MCDecryptionTable -------------------------
(* Small instance of DecryptionTable: every point of a group of 37 elements *)
(* is asked for; halfBits runs one past MaxHalfBits.                        *)
EXTENDS DecryptionTable

MCQueries == Point
MCBases == {Identity, G, 5, PNeg(G)}
=============================================================================
