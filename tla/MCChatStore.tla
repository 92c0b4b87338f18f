----------------------------- MODULE MCChatStore ------------------------------
(* Instances of ChatStore for TLC.                                           *)
EXTENDS ChatStore, TLC

CONSTANTS r1, r2, r3, r4

FourRequests == {r1, r2, r3, r4}
Interchangeable == Permutations(Requests)
===============================================================================
