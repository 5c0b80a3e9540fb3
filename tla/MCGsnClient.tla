----------------------------- MODULE MCGsnClient -----------------------------
(* Values for model-checking GsnClient.                                    *)
EXTENDS GsnClient, TLC

CONSTANTS a1, a2, w1, w2, c1, c2, t1

MCAccounts1 == {a1}
MCAccounts2 == {a1, a2}
MCWorkers == {w1, w2}
MCWorkerAt == <<w1, w2>>
MCRelays1 == {c1}
MCRelays2 == {c1, c2}
MCAppTxs == {t1}
MCSymmetry == Permutations({a1, a2}) \cup Permutations({c1, c2})
==============================================================================
