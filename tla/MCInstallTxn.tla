----------------------------- MODULE MCInstallTxn -----------------------------
(* Instances of InstallTxn for TLC.                                          *)
EXTENDS InstallTxn, TLC

CONSTANTS t1, t2, t3

TwoTxns == {t1, t2}
ThreeTxns == {t1, t2, t3}
Alike == Permutations(Txns)
===============================================================================
