---------------------------- MODULE MCPluginLeases ----------------------------
(* Instances of PluginLeases for TLC.                                        *)
EXTENDS PluginLeases

CONSTANTS helper, mvu, t1, c1

TwoPlugins == {helper, mvu}
MvuNeedsHelper == [p \in TwoPlugins |-> IF p = mvu THEN {helper} ELSE {}]
JustMvu == {mvu}
OneTurn == {t1}
OneCall == {c1}
===============================================================================
