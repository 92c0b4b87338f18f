------------------------------ MODULE MCHostLock ------------------------------
(* Instances of HostLock for TLC.                                            *)
EXTENDS HostLock

CONSTANTS h1, h2, h3, h4

\* The fourth host is given the first one's process id.
FourHosts == {h1, h2, h3, h4}
Numbers == 1 .. 3
Recycled == [h \in Hosts |-> CASE h \in {h1, h4} -> 1 [] h = h2 -> 2 [] OTHER -> 3]
SecondUser == {h2}
===============================================================================
