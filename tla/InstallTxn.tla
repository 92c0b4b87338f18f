------------------------------ MODULE InstallTxn ------------------------------
(***************************************************************************)
(* Install transactions of one extension: Installer.stage, promote and     *)
(* discard, the claim that serialises promotions, and the recovery scan    *)
(* over what a crash leaves.  State on disk is the staging directories     *)
(* (each with its txn.json), the claim file and the installed directory;   *)
(* a transaction's `pc` is the handle the process holds and dies with it.  *)
(***************************************************************************)
EXTENDS Naturals, FiniteSets

CONSTANTS
  Txns,       \* the install transactions of the extension, each run once
  Recovers,   \* may a start run the recovery scan?  The service's never does
  MaxFaults,  \* bound: file-system calls that fail
  MaxCrashes, \* bound: how often the process dies
  None        \* no transaction

ASSUME InstallTxnAssumption ==
  /\ None \notin Txns
  /\ Recovers \in BOOLEAN
  /\ MaxFaults \in Nat /\ MaxCrashes \in Nat

VARIABLES
  record,  \* per transaction: the phase in its txn.json, "orphan" without one,
           \* "none" without a staging directory
  target,  \* whose tree is at installed/<id>, or None
  locked,  \* lock.json is in that tree
  claim,   \* who created the claim file, or None
  written, \* the claim file names its owner
  pc,      \* where each transaction is
  owner,   \* the owner a transaction read off the claim file
  outcome, \* what its caller was told
  host,    \* "up", "down", or the scan's next pass
  swept,   \* nothing has crashed since a scan of which no call failed
  faults, crashes

disk == <<record, target, locked, claim, written>>
vars == <<disk, pc, owner, outcome, host, swept, faults, crashes>>

BeforePromotion == {"downloading", "staged", "validated", "hashed"}
Phases == BeforePromotion \cup {"promoting", "installed", "failed"}
Terminal == {"installed", "failed"}
Passes == {"staging", "targets", "claims"}

Working ==
  {"begun", "staging", "handed", "claiming", "judging", "judged", "stealing", "reopening",
   "opened", "claimed", "promoting", "renamed", "locked", "undoing", "installed",
   "releasing", "removing", "released", "abandoning", "clearing"}

TypeOK ==
  /\ record \in [Txns -> Phases \cup {"none", "orphan"}]
  /\ target \in Txns \cup {None}
  /\ locked \in BOOLEAN /\ (locked => target # None)
  /\ claim \in Txns \cup {None}
  /\ written \in BOOLEAN /\ (written => claim # None)
  /\ pc \in [Txns -> Working \cup {"idle", "done", "dead"}]
  /\ owner \in [Txns -> Txns \cup {None}]
  /\ outcome \in [Txns -> {"pending", "installed", "refused", "failed", "discarded"}]
  /\ host \in {"up", "down"} \cup Passes
  /\ swept \in BOOLEAN
  /\ faults \in 0 .. MaxFaults /\ crashes \in 0 .. MaxCrashes

Init ==
  /\ record = [t \in Txns |-> "none"]
  /\ target = None /\ locked = FALSE
  /\ claim = None /\ written = FALSE
  /\ pc = [t \in Txns |-> "idle"]
  /\ owner = [t \in Txns |-> None]
  /\ outcome = [t \in Txns |-> "pending"]
  /\ host = "up" /\ swept = TRUE
  /\ faults = 0 /\ crashes = 0
-------------------------------------------------------------------------------
(* What a step of a transaction does.                                        *)

Goto(t, place) == pc' = [pc EXCEPT ![t] = place]
Tell(t, what) == outcome' = [outcome EXCEPT ![t] = what]
Keep == UNCHANGED <<owner, host, swept, crashes>>
NoFault == UNCHANGED faults

\* A call to the file system throws.
Fault == faults < MaxFaults /\ faults' = faults + 1

\* TransactionStore.transition: the record is replaced in one rename.
Transition(t, phase) == record' = [record EXCEPT ![t] = phase]

\* The claim file is gone, or is t's, so far without its owner's name.
NoClaim == claim' = None /\ written' = FALSE
ClaimBy(t) == claim' = t /\ written' = FALSE

UnchangedClaim == UNCHANGED <<claim, written>>
UnchangedTarget == UNCHANGED <<target, locked>>

\* A throw goes through abandon; inside promotion, through its finally first.
Throw(t, place) == Fault /\ Tell(t, "failed") /\ Goto(t, place) /\ UNCHANGED disk
-------------------------------------------------------------------------------
(* stage: begin, the phases up to `hashed`, and discard.                     *)

\* installAs looks for an installed lock before it stages; preview does not.
Begin(t) ==
  /\ host = "up" /\ pc[t] = "idle"
  /\ Transition(t, "orphan")
  /\ Goto(t, "begun")
  /\ UnchangedClaim /\ UnchangedTarget /\ UNCHANGED outcome /\ NoFault /\ Keep

RefuseInstalled(t) ==
  /\ host = "up" /\ pc[t] = "idle" /\ locked
  /\ Tell(t, "refused") /\ Goto(t, "done")
  /\ UNCHANGED disk /\ NoFault /\ Keep

\* begin is outside stage's try: its directory stays if the record fails.
WriteRecord(t) ==
  /\ pc[t] = "begun"
  /\ \/ /\ Transition(t, "downloading") /\ Goto(t, "staging")
        /\ UnchangedClaim /\ UnchangedTarget /\ UNCHANGED outcome /\ NoFault
     \/ Throw(t, "done")
  /\ Keep

Following ==
  [downloading |-> "staged", staged |-> "validated", validated |-> "hashed"]

\* Fetched, unpacked and validated, hashed; the artifact may be refused.
Stage(t) ==
  /\ pc[t] = "staging"
  /\ \/ /\ Transition(t, Following[record[t]])
        /\ Goto(t, IF record'[t] = "hashed" THEN "handed" ELSE "staging")
        /\ UnchangedClaim /\ UnchangedTarget /\ UNCHANGED outcome /\ NoFault
     \/ /\ Tell(t, "refused") /\ Goto(t, "abandoning")
        /\ UNCHANGED disk /\ NoFault
     \/ Throw(t, "abandoning")
  /\ Keep

Discard(t) ==
  /\ pc[t] = "handed"
  /\ Tell(t, "discarded") /\ Goto(t, "abandoning")
  /\ UNCHANGED disk /\ NoFault /\ Keep
-------------------------------------------------------------------------------
(* promote: the claim.                                                       *)

\* The lock is looked for, and the record learns the extension's name.
Promote(t) ==
  /\ pc[t] = "handed"
  /\ \/ /\ IF locked THEN Tell(t, "refused") /\ Goto(t, "abandoning")
           ELSE UNCHANGED outcome /\ Goto(t, "claiming")
        /\ UNCHANGED disk /\ NoFault
     \/ Throw(t, "abandoning")
  /\ Keep

\* open(claim, 'wx'), which any error sends on to look at the claim.
OpenClaim(t) ==
  /\ pc[t] = "claiming"
  /\ \/ /\ claim = None
        /\ ClaimBy(t) /\ Goto(t, "opened") /\ NoFault
     \/ UnchangedClaim /\ Goto(t, "judging") /\ (IF claim = None THEN Fault ELSE NoFault)
  /\ UNCHANGED <<record, outcome>> /\ UnchangedTarget /\ Keep

\* A claim that is gone, not written yet or not readable names nobody.
ReadClaim(t) ==
  /\ pc[t] = "judging"
  /\ \/ /\ written
        /\ owner' = [owner EXCEPT ![t] = claim] /\ Goto(t, "judged") /\ NoFault
     \/ UNCHANGED owner /\ Goto(t, "stealing") /\ (IF written THEN Fault ELSE NoFault)
  /\ UNCHANGED <<disk, outcome, host, swept, crashes>>

\* Faulty variant: an owner counts as alive whatever its phase.
AnyOwnerAlive(t) == record[t] # "none"

\* claimOwnerAlive: its staging holds a record that has not ended, and it can
\* be read.
OwnerAlive(t) == record[t] \in Phases \ Terminal

Judge(t) ==
  /\ pc[t] = "judged"
  /\ \/ /\ OwnerAlive(owner[t])
        /\ Tell(t, "refused") /\ Goto(t, "abandoning") /\ NoFault
     \/ /\ UNCHANGED outcome /\ Goto(t, "stealing")
        /\ IF OwnerAlive(owner[t]) THEN Fault ELSE NoFault
  /\ UNCHANGED disk /\ Keep

Steal(t) ==
  /\ pc[t] = "stealing"
  /\ \/ /\ NoClaim /\ Goto(t, "reopening")
        /\ UNCHANGED <<record, outcome>> /\ UnchangedTarget /\ NoFault
     \/ Throw(t, "abandoning")
  /\ Keep

Reopen(t) ==
  /\ pc[t] = "reopening"
  /\ \/ /\ claim = None
        /\ ClaimBy(t) /\ UNCHANGED <<record, outcome>> /\ UnchangedTarget /\ Goto(t, "opened")
        /\ NoFault
     \/ claim # None /\ Tell(t, "failed") /\ Goto(t, "abandoning") /\ UNCHANGED disk /\ NoFault
     \/ claim = None /\ Throw(t, "abandoning")
  /\ Keep

\* The name goes through the handle: into the file at the path only while that
\* is still the file t made.  A failed write leaves the nameless file behind.
WriteClaim(t) ==
  /\ pc[t] = "opened"
  /\ \/ /\ written' = (written \/ claim = t) /\ Goto(t, "claimed")
        /\ UNCHANGED <<record, claim, outcome>> /\ UnchangedTarget /\ NoFault
     \/ Throw(t, "abandoning")
  /\ Keep
-------------------------------------------------------------------------------
(* promote: the rename, the lock, and what undoes them.                      *)

BeginPromotion(t) ==
  /\ pc[t] = "claimed"
  /\ \/ /\ Transition(t, "promoting") /\ Goto(t, "promoting")
        /\ UnchangedClaim /\ UnchangedTarget /\ UNCHANGED outcome /\ NoFault
     \/ Throw(t, "releasing")
  /\ Keep

\* Faulty variant: the rename replaces the directory it finds.
RenameOver(t) ==
  /\ pc[t] = "promoting"
  /\ target' = t /\ locked' = FALSE /\ Goto(t, "renamed")
  /\ UNCHANGED <<record, outcome>> /\ UnchangedClaim /\ NoFault /\ Keep

\* A directory cannot be renamed onto one that is not empty.
Rename(t) ==
  /\ pc[t] = "promoting"
  /\ \/ /\ target = None
        /\ target' = t /\ Goto(t, "renamed")
        /\ UNCHANGED <<record, locked, outcome>> /\ UnchangedClaim /\ NoFault
     \/ /\ target # None
        /\ Tell(t, "failed") /\ Goto(t, "releasing")
        /\ UNCHANGED disk /\ NoFault
     \/ Throw(t, "releasing")
  /\ Keep

\* Faulty variant: a lock that cannot be written is overlooked.
LockUnchecked(t) ==
  /\ pc[t] = "renamed"
  /\ (locked' = TRUE /\ NoFault) \/ (UNCHANGED locked /\ Fault)
  /\ Goto(t, "locked")
  /\ UNCHANGED <<record, target, outcome>> /\ UnchangedClaim /\ Keep

WriteLock(t) ==
  /\ pc[t] = "renamed"
  /\ \/ /\ locked' = TRUE /\ Goto(t, "locked")
        /\ UNCHANGED <<record, target, outcome>> /\ UnchangedClaim /\ NoFault
     \/ Throw(t, "undoing")
  /\ Keep

\* Faulty variant: a failed promotion leaves its tree in place.
UndoNothing(t) ==
  /\ pc[t] = "undoing"
  /\ Goto(t, "releasing")
  /\ UNCHANGED <<disk, outcome>> /\ NoFault /\ Keep

\* recordFailure: the lockless tree goes back, or is removed, and a note is
\* written.  Failing at both, or at the note, skips the release.
Undo(t) ==
  /\ pc[t] = "undoing"
  /\ \/ target' = None /\ Goto(t, "releasing") /\ NoFault
     \/ target' = None /\ Goto(t, "abandoning") /\ Fault
     \/ /\ UNCHANGED target /\ Goto(t, "abandoning")
        /\ faults + 2 <= MaxFaults /\ faults' = faults + 2
  /\ UNCHANGED <<record, locked, outcome>> /\ UnchangedClaim /\ Keep

RecordInstalled(t) ==
  /\ pc[t] = "locked"
  /\ \/ /\ Transition(t, "installed") /\ Goto(t, "installed")
        /\ UnchangedClaim /\ UnchangedTarget /\ UNCHANGED outcome /\ NoFault
     \/ Throw(t, "releasing")
  /\ Keep

\* Staging is removed, whole or as far as it goes.
RemoveStaging(t) ==
  \/ Transition(t, "none") /\ NoFault
  \/ record' \in {[record EXCEPT ![t] = "orphan"], record} /\ Fault

Finish(t) ==
  /\ pc[t] = "installed"
  /\ RemoveStaging(t)
  /\ Tell(t, IF record'[t] = "none" THEN "installed" ELSE "failed")
  /\ Goto(t, "releasing")
  /\ UnchangedClaim /\ UnchangedTarget /\ Keep

\* releaseClaim: read, and removed only when it is this transaction's.
ReadOwnClaim(t) ==
  /\ pc[t] = "releasing"
  /\ \/ Goto(t, IF claim = t /\ written THEN "removing" ELSE "released") /\ NoFault
     \/ claim = t /\ written /\ Goto(t, "released") /\ Fault
  /\ UNCHANGED <<disk, outcome>> /\ Keep

RemoveClaim(t) ==
  /\ pc[t] = "removing"
  /\ \/ /\ NoClaim /\ Goto(t, "released")
        /\ UNCHANGED <<record, outcome>> /\ UnchangedTarget /\ NoFault
     \/ Throw(t, "abandoning")
  /\ Keep

Return(t) ==
  /\ pc[t] = "released"
  /\ Goto(t, IF outcome[t] = "installed" THEN "done" ELSE "abandoning")
  /\ UNCHANGED <<disk, outcome>> /\ NoFault /\ Keep
-------------------------------------------------------------------------------
(* abandon: mark failed unless it has ended, then remove staging; neither    *)
(* failure is reported.                                                      *)

MarkFailed(t) ==
  /\ pc[t] = "abandoning"
  /\ \/ /\ record' = [record EXCEPT ![t] = IF OwnerAlive(t) THEN "failed" ELSE @]
        /\ NoFault
     \/ OwnerAlive(t) /\ UNCHANGED record /\ Fault
  /\ Goto(t, "clearing")
  /\ UNCHANGED outcome /\ UnchangedClaim /\ UnchangedTarget /\ Keep

Clear(t) ==
  /\ pc[t] = "clearing"
  /\ RemoveStaging(t)
  /\ Goto(t, "done")
  /\ UNCHANGED outcome /\ UnchangedClaim /\ UnchangedTarget /\ Keep
-------------------------------------------------------------------------------
(* A crash, the next start, and recoverInstallations.                        *)

Crash ==
  /\ host # "down" /\ crashes < MaxCrashes
  /\ host' = "down" /\ crashes' = crashes + 1
  /\ pc' = [t \in Txns |-> IF pc[t] \in Working THEN "dead" ELSE pc[t]]
  /\ swept' = FALSE
  /\ UNCHANGED <<disk, owner, outcome, faults>>

\* A start that scans has seen everything once no call of the scan failed.
Start ==
  /\ host = "down"
  /\ \/ host' = "up" /\ UNCHANGED swept
     \/ Recovers /\ host' = "staging" /\ swept' = TRUE
  /\ UNCHANGED <<disk, pc, owner, outcome, faults, crashes>>

Scan == UNCHANGED <<pc, owner, outcome, crashes>>

\* So many calls of the scan fail.
Misses(n) ==
  /\ faults + n <= MaxFaults
  /\ faults' = faults + n /\ swept' = (swept /\ n = 0)

\* A target is removed, its lock with it; or as far as it goes.
RemoveTarget == target' = None /\ locked' = FALSE
SpoilTarget == UNCHANGED target /\ locked' \in {locked, FALSE}

\* Faulty variant: a promotion that did not end takes its target along.
RollBack(t) ==
  /\ host = "staging" /\ record[t] # "none"
  /\ Transition(t, "none")
  /\ IF record[t] = "promoting" THEN RemoveTarget ELSE UnchangedTarget
  /\ Misses(0) /\ UNCHANGED host /\ UnchangedClaim /\ Scan

\* Does the target go along?  When t was promoting into it and it has no lock.
\* A failed read decides blindly: a lock that cannot be read counts as none,
\* and a record that cannot be read names no target.
TakesTarget(t, missed) ==
  IF missed = 0 THEN {record[t] = "promoting" /\ ~locked} ELSE {FALSE, record[t] = "promoting"}

\* recoverStaging: every directory goes.
RecoverStaging(t) ==
  /\ host = "staging" /\ record[t] # "none"
  /\ Transition(t, "none")
  /\ \E missed \in {0, 1} : \E takes \in TakesTarget(t, missed) :
       Misses(missed) /\ IF takes THEN RemoveTarget ELSE UnchangedTarget
  /\ UNCHANGED host /\ UnchangedClaim /\ Scan

\* A removal that fails, of the target or of the staging directory after it,
\* throws out of the whole scan.
RecoverStagingFails(t) ==
  /\ host = "staging" /\ record[t] # "none"
  /\ \E missed \in {0, 1} : \E takes \in TakesTarget(t, missed) :
       /\ Misses(missed + 1)
       /\ \/ /\ record' \in {[record EXCEPT ![t] = "orphan"], record}
             /\ IF takes THEN RemoveTarget ELSE UnchangedTarget
          \/ takes /\ SpoilTarget /\ UNCHANGED record
  /\ host' = "up" /\ UnchangedClaim /\ Scan

\* A directory that cannot be listed skips the pass.
StagingRecovered ==
  /\ host = "staging" /\ host' = "targets"
  /\ \/ Misses(1)
     \/ Misses(0) /\ \A t \in Txns : record[t] = "none"
  /\ UNCHANGED disk /\ Scan

\* A target without a lock was never installed; one whose lock cannot be read
\* counts as such.
RecoverTargets ==
  /\ host = "targets" /\ host' = "claims"
  /\ \/ Misses(0) /\ IF locked THEN UnchangedTarget ELSE RemoveTarget
     \/ Misses(1) /\ (UnchangedTarget \/ RemoveTarget)
  /\ UNCHANGED record /\ UnchangedClaim /\ Scan

RecoverTargetsFails ==
  /\ host = "targets" /\ host' = "up"
  /\ Misses(IF locked THEN 2 ELSE 1) /\ SpoilTarget
  /\ UNCHANGED record /\ UnchangedClaim /\ Scan

\* A claim that names nobody, or nobody alive, is removed; what cannot be read
\* is neither, and a removal that fails leaves it.
RecoverClaims ==
  /\ host = "claims" /\ host' = "up"
  /\ \/ /\ Misses(0)
        /\ IF claim # None /\ ~(written /\ OwnerAlive(claim)) THEN NoClaim ELSE UnchangedClaim
     \/ Misses(1) /\ (NoClaim \/ UnchangedClaim)
  /\ UNCHANGED record /\ UnchangedTarget /\ Scan
-------------------------------------------------------------------------------
Acquire(t) ==
  OpenClaim(t) \/ ReadClaim(t) \/ Judge(t) \/ Steal(t) \/ Reopen(t) \/ WriteClaim(t)

Install(t) ==
  \/ BeginPromotion(t) \/ Rename(t) \/ WriteLock(t) \/ Undo(t) \/ RecordInstalled(t)
  \/ Finish(t) \/ ReadOwnClaim(t) \/ RemoveClaim(t) \/ Return(t)

\* What the process does by itself once it was asked.
Work(t) ==
  WriteRecord(t) \/ Stage(t) \/ Acquire(t) \/ Install(t) \/ MarkFailed(t) \/ Clear(t)

Ask(t) == Begin(t) \/ RefuseInstalled(t) \/ Discard(t) \/ Promote(t)

Recover ==
  \/ \E t \in Txns : RecoverStaging(t) \/ RecoverStagingFails(t)
  \/ StagingRecovered \/ RecoverTargets \/ RecoverTargetsFails \/ RecoverClaims

Next == (\E t \in Txns : Ask(t) \/ Work(t)) \/ Crash \/ Start \/ Recover

Spec == Init /\ [][Next]_vars
-------------------------------------------------------------------------------
(* What an install promises.                                                 *)

\* The claim can be taken by two transactions at once (a claim that is not
\* written yet reads as stale), and still each writes its lock into, or takes
\* back, its own tree only: the rename decides who installs.
PromotesOwnTree ==
  \A t \in Txns : pc[t] \in {"renamed", "undoing"} => target = t /\ ~locked

\* A completed install is undone by one thing only: a scan with a call that
\* fails, for it takes a lock it cannot read for none.  No later or concurrent
\* transaction, no failure after the lock, no crash, and no scan that can read
\* what it finds undoes it.
InstalledStays ==
  [][locked => (locked' /\ target' = target)
               \/ (host \in {"staging", "targets"} /\ faults' > faults)]_vars

\* Until the process dies, and again after a scan of which no call failed, an
\* install is refused as busy only while the one it names is going on: a single
\* failed call leaves no record that passes for a live install.
BusyIsLive ==
  \A t \in Txns :
    pc[t] = "judged" /\ OwnerAlive(owner[t]) /\ swept /\ faults < 2 => pc[owner[t]] \in Working

\* What staging.ts says of the claim: one whose owner is gone is stale, and is
\* taken.  (Not so of an owner that died with its record: nothing scans.)
OnlyTheLiveAreBusy ==
  \A t \in Txns :
    pc[t] = "judged" /\ OwnerAlive(owner[t]) /\ faults = 0 => pc[owner[t]] \in Working

Quiet == host = "up" /\ \A t \in Txns : pc[t] \notin Working

\* Nothing wedges the extension: with no install going on and one failed call
\* behind, the target is whole or free and the claim can be taken.  So it is
\* until the process dies, and again after a scan of which no call failed.
NotWedged ==
  Quiet /\ swept /\ faults < 2 =>
    /\ target # None => locked
    /\ claim # None => ~(written /\ OwnerAlive(claim))

\* What the callers see of it: the tree that has its lock, what a caller is
\* answered once its own transaction has been cleared up, and a start's scan.
Installed == IF locked THEN target ELSE None
Answers == [t \in Txns |-> IF pc[t] = "done" THEN outcome[t] ELSE "pending"]
Scanning == host \in {"staging", "targets"}

Promised ==
  INSTANCE Installation WITH installed <- Installed, answer <- Answers, scanning <- Scanning

\* With its claims, records, failures, crashes and scans, a transaction installs
\* as if in one step, and its caller is told the truth about it.
InstallsAtomically == Promised!Spec
===============================================================================
