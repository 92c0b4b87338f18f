------------------------------ MODULE MCChatTurn ------------------------------
(* Instances of ChatTurn for TLC.                                            *)
EXTENDS ChatTurn

CONSTANTS r1, r2, r3

TwoRequests == {r1, r2}
ThreeRequests == {r1, r2, r3}

\* A turn against another turn, an edit or a side call, and a compaction
\* against both: a begin is refused only where three requests meet.
Mixed == [r \in Requests |->
  CASE r = r1 -> {"impersonate", "side"} \cup EditKinds
    [] r = r2 -> {"send", "regenerate", "continue"}
    [] r = r3 -> {"compact"}]

SendAndRewrite == [r \in Requests |-> {"send", "rewrite"}]
===============================================================================
