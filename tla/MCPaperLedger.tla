--------------------------- MODULE MCPaperLedger ---------------------------
(* PaperLedger on small instances.                                        *)
EXTENDS PaperLedger, TLC

CONSTANTS w1, w2, a1, a2, o1, o2, o3

MCDeposits == {7}
MCMargins == {2, 4}
MCRawFees == {1, 4}
MCRawGross == {-9, 0, 3}

Symmetric == Permutations(Workers) \cup Permutations(Accounts) \cup Permutations(Orders)
=============================================================================
