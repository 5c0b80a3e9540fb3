--------------------------- MODULE MCAndroidWallet ---------------------------
(* Values for model-checking AndroidWallet.                                *)
EXTENDS AndroidWallet, TLC

CONSTANTS p1, p2, p3, f1, f2, f3

MCPhrases3 == {p1, p2, p3}
MCPhrases2 == {p1, p2}
MCFrames2 == {f1, f2}
MCFrames3 == {f1, f2, f3}
\* No definition tells phrases or frames apart.
MCSymmetry == Permutations(MCPhrases3) \cup Permutations(MCFrames2)
==============================================================================
