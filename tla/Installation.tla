----------------------------- MODULE Installation -----------------------------
(***************************************************************************)
(* What the callers of the installer are promised about one extension, as  *)
(* if an install were one step: at most one of them has it installed, and  *)
(* each is answered at most once, with the truth where the answer says     *)
(* one.  "failed" does not: what fails after the lock is reported, and the *)
(* extension is installed all the same.  An install that a crash ended is  *)
(* not answered.  What is installed stays, except that a start's scan may  *)
(* lose it; while it scans, nobody installs and nobody is answered.        *)
(***************************************************************************)
CONSTANTS Txns, None

VARIABLES
  installed, \* the transaction whose tree is installed, or None
  answer,    \* what each caller was told, "pending" until it is
  scanning   \* a start is scanning

vars == <<installed, answer, scanning>>

Init == installed = None /\ answer = [t \in Txns |-> "pending"] /\ scanning = FALSE

Install(t) ==
  /\ ~scanning
  /\ installed = None /\ answer[t] = "pending"
  /\ installed' = t
  /\ UNCHANGED <<answer, scanning>>

Tell(t, what) ==
  /\ ~scanning
  /\ answer[t] = "pending"
  /\ what = "installed" => installed = t
  /\ what \in {"refused", "discarded"} => installed # t
  /\ answer' = [answer EXCEPT ![t] = what]
  /\ UNCHANGED <<installed, scanning>>

\* A scan begins, or ends.
Scan ==
  /\ scanning' = ~scanning
  /\ UNCHANGED <<installed, answer>>

\* A scan that could not read the lock has removed the tree; it may end with it.
Lose ==
  /\ scanning /\ scanning' \in BOOLEAN
  /\ installed' = None
  /\ UNCHANGED answer

Next ==
  \/ \E t \in Txns :
       Install(t) \/ \E what \in {"installed", "refused", "failed", "discarded"} : Tell(t, what)
  \/ Scan \/ Lose

Spec == Init /\ [][Next]_vars
===============================================================================
