------------------------------ MODULE MCSwipeFile ------------------------------
(* Instances of SwipeFile for TLC.                                           *)
EXTENDS SwipeFile

UpToThree == 0 .. 3
===============================================================================
