----------------------------- MODULE MCPluginRows -----------------------------
(* Instances of PluginRows for TLC.                                          *)
EXTENDS PluginRows

CONSTANTS g1, g2

TwoGens == {g1, g2}
OneClient == {g1}
===============================================================================
