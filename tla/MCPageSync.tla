------------------------------ MODULE MCPageSync ------------------------------
(* Instances of PageSync for TLC.                                            *)
EXTENDS PageSync

CONSTANT o1

OneOpen == {o1}
===============================================================================
