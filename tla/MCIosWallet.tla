----------------------------- MODULE MCIosWallet -----------------------------
(* Values for model-checking IosWallet.                                    *)
EXTENDS IosWallet

CONSTANTS p1, p2, p3, p4, f1, f2, f3

MCPhrases3 == {p1, p2, p3}
MCPhrases4 == {p1, p2, p3, p4}
MCPhrases2 == {p1, p2}
MCTexts == Text
MCFrames2 == {f1, f2}
MCFrames3 == {f1, f2, f3}
==============================================================================
