--------------------------- MODULE InstallTxnProofs ---------------------------
(***************************************************************************)
(* What an install promises, for any number of transactions, failed calls  *)
(* and crashes, and that its callers see it done in one step.  The claim   *)
(* is not used: the rename alone decides.                                  *)
(***************************************************************************)
EXTENDS InstallTxn, TLAPS

\* The phases that `stage` moves on, a record that is not there yet, and one
\* that is gone once its caller was told of the install.
InStage ==
  \A t \in Txns :
    /\ pc[t] = "begun" => record[t] = "orphan"
    /\ pc[t] = "staging" => record[t] \in DOMAIN Following
    /\ outcome[t] = "installed" =>
         /\ record[t] = "none"
         /\ pc[t] \in {"releasing", "removing", "released", "done", "dead"}

\* A process that is not up, or still scanning, works on nothing.
Dead == host # "up" => \A t \in Txns : pc[t] \notin Working

\* A judged claim named somebody.
Named == \A t \in Txns : pc[t] = "judged" => owner[t] \in Txns

\* A record passes for a live install only while its install goes on, while the
\* scan has not come to it, with what a crash left not swept, or after two
\* failed calls.
LiveIsLive ==
  \A t \in Txns :
    OwnerAlive(t) =>
      \/ pc[t] \in Working /\ (pc[t] = "clearing" => faults > 0)
      \/ host = "staging"
      \/ ~swept
      \/ faults > 1

\* A tree without its lock belongs to the promotion that is at work on it.
TakenBack ==
  target # None /\ ~locked =>
    \/ pc[target] \in {"renamed", "undoing"}
    \/ host \in {"staging", "targets"}
    \/ ~swept
    \/ faults > 1

Core == TypeOK /\ InStage /\ Dead /\ Named /\ PromotesOwnTree

\* What a crash leaves is not swept.
Unswept == host = "down" => ~swept

\* Until the process dies, and again once it is swept.
Healed == LiveIsLive /\ TakenBack /\ Unswept

USE InstallTxnAssumption DEF InstallTxnAssumption

LEMMA InitCore == Init => Core /\ Healed
<1> SUFFICES ASSUME Init PROVE Core /\ Healed
  OBVIOUS
<1>1. TypeOK
  <2>1. locked \in BOOLEAN /\ (locked => target # None) /\ written \in BOOLEAN /\ (written => claim # None)
    BY DEF Init
  <2>2. faults \in 0 .. MaxFaults /\ crashes \in 0 .. MaxCrashes
    BY DEF Init
  <2>3. pc \in [Txns -> Working \cup {"idle", "done", "dead"}]
    BY DEF Init
  <2> QED
    BY <2>1, <2>2, <2>3 DEF Init, TypeOK
<1>2. InStage /\ Dead /\ Named /\ PromotesOwnTree
  BY DEF Init, InStage, Dead, Named, PromotesOwnTree
<1>3. LiveIsLive /\ TakenBack /\ Unswept
  BY DEF Init, LiveIsLive, TakenBack, Unswept, OwnerAlive, Phases, Terminal, BeforePromotion
<1> QED
  BY <1>1, <1>2, <1>3 DEF Core, Healed

\* The steps of a transaction, by the part of the record they may touch.
Step(t) == Ask(t) \/ Work(t)

LEMMA StagingCore ==
  ASSUME Core, NEW t \in Txns, Ask(t) \/ WriteRecord(t) \/ Stage(t) \/ MarkFailed(t) \/ Clear(t)
  PROVE  Core' /\ (Healed => Healed') /\ (locked => locked' /\ target' = target)
<1> USE DEF Core, Healed, TypeOK, InStage, Dead, Named, PromotesOwnTree, LiveIsLive, TakenBack, Unswept,
            OwnerAlive, Phases, Terminal, BeforePromotion, Working, Passes, Following,
            Goto, Tell, Keep, NoFault, Fault, Transition, UnchangedClaim, UnchangedTarget,
            Throw, disk
<1>1. CASE Begin(t)
  BY <1>1 DEF Begin
<1>2. CASE RefuseInstalled(t)
  BY <1>2 DEF RefuseInstalled
<1>3. CASE Discard(t)
  BY <1>3 DEF Discard
<1>4. CASE Promote(t)
  BY <1>4 DEF Promote
<1>5. CASE WriteRecord(t)
  <2>1. TypeOK'
    BY <1>5 DEF WriteRecord
  <2>2. (InStage /\ Dead /\ Named /\ PromotesOwnTree)'
    BY <1>5 DEF WriteRecord
  <2>3. LiveIsLive => LiveIsLive'
    <3>1. ASSUME LiveIsLive, NEW u \in Txns, OwnerAlive(u)'
          PROVE  \/ pc'[u] \in Working /\ (pc'[u] = "clearing" => faults' > 0)
                 \/ host' = "staging"
                 \/ ~swept'
                 \/ faults' > 1
      <4>1. CASE u = t
        BY <1>5, <3>1, <4>1 DEF WriteRecord
      <4>2. CASE u # t
        BY <1>5, <3>1, <4>2 DEF WriteRecord
      <4> QED
        BY <4>1, <4>2
    <3> QED
      BY <3>1
  <2>4. TakenBack => TakenBack'
    BY <1>5 DEF WriteRecord
  <2>6. Unswept => Unswept'
    BY <1>5 DEF WriteRecord
  <2>5. locked => locked' /\ target' = target
    BY <1>5 DEF WriteRecord
  <2> QED
    BY <2>1, <2>2, <2>3, <2>4, <2>5, <2>6
<1>6. CASE Stage(t)
  BY <1>6 DEF Stage
<1>7. CASE MarkFailed(t)
  BY <1>7 DEF MarkFailed
<1>8. CASE Clear(t)
  BY <1>8 DEF Clear, RemoveStaging
<1> QED
  BY <1>1, <1>2, <1>3, <1>4, <1>5, <1>6, <1>7, <1>8 DEF Ask

LEMMA AcquireCore ==
  ASSUME Core, NEW t \in Txns, Acquire(t)
  PROVE  Core' /\ (Healed => Healed') /\ (locked => locked' /\ target' = target)
<1> USE DEF Core, Healed, TypeOK, InStage, Dead, Named, PromotesOwnTree, LiveIsLive, TakenBack, Unswept,
            OwnerAlive, Phases, Terminal, BeforePromotion, Working, Passes,
            Goto, Tell, Keep, NoFault, Fault, NoClaim, ClaimBy, UnchangedClaim, UnchangedTarget,
            Throw, disk
<1>1. CASE OpenClaim(t)
  <2>1. CASE ClaimBy(t) /\ Goto(t, "opened") /\ NoFault
    BY <1>1, <2>1 DEF OpenClaim
  <2>2. CASE UnchangedClaim /\ Goto(t, "judging")
    <3>1. CASE Fault
      BY <1>1, <2>2, <3>1 DEF OpenClaim
    <3>2. CASE NoFault
      BY <1>1, <2>2, <3>2 DEF OpenClaim
    <3> QED
      BY <1>1, <2>2, <3>1, <3>2 DEF OpenClaim
  <2> QED
    BY <1>1, <2>1, <2>2 DEF OpenClaim
<1>2. CASE ReadClaim(t)
  BY <1>2 DEF ReadClaim
<1>3. CASE Judge(t)
  BY <1>3 DEF Judge
<1>4. CASE Steal(t)
  <2>1. CASE Throw(t, "abandoning")
    BY <1>4, <2>1 DEF Steal
  <2>2. CASE NoClaim /\ Goto(t, "reopening") /\ NoFault
    <3>1. UNCHANGED <<record, target, locked, outcome, owner, host, swept, faults, crashes>>
      BY <1>4, <2>2 DEF Steal
    <3>2. claim' = None /\ written' = FALSE /\ pc' = [pc EXCEPT ![t] = "reopening"]
      BY <2>2
    <3>3. TypeOK'
      BY <3>1, <3>2
    <3> QED
      BY <1>4, <3>1, <3>2, <3>3 DEF Steal
  <2> QED
    BY <1>4, <2>1, <2>2 DEF Steal
<1>5. CASE Reopen(t)
  <2>1. TypeOK'
    <3>1. CASE Throw(t, "abandoning")
      BY <1>5, <3>1 DEF Reopen
    <3>2. CASE ClaimBy(t) /\ Goto(t, "opened") /\ NoFault
      <4>1. UNCHANGED <<record, target, locked, outcome, owner, host, swept, faults, crashes>>
        BY <1>5, <3>2 DEF Reopen
      <4>2. claim' = t /\ written' = FALSE /\ pc' = [pc EXCEPT ![t] = "opened"]
        BY <3>2
      <4> QED
        BY <4>1, <4>2
    <3>3. CASE claim # None /\ Tell(t, "failed") /\ Goto(t, "abandoning") /\ NoFault
      BY <1>5, <3>3 DEF Reopen
    <3> QED
      BY <1>5, <3>1, <3>2, <3>3 DEF Reopen
  <2>2. (InStage /\ Dead /\ Named /\ PromotesOwnTree)'
    BY <1>5 DEF Reopen
  <2>3. LiveIsLive => LiveIsLive'
    BY <1>5 DEF Reopen
  <2>4. TakenBack => TakenBack'
    BY <1>5 DEF Reopen
  <2>6. Unswept => Unswept'
    BY <1>5 DEF Reopen
  <2>5. locked => locked' /\ target' = target
    BY <1>5 DEF Reopen
  <2> QED
    BY <2>1, <2>2, <2>3, <2>4, <2>5, <2>6
<1>6. CASE WriteClaim(t)
  <2>1. TypeOK'
    <3>1. CASE Throw(t, "abandoning")
      BY <1>6, <3>1 DEF WriteClaim
    <3>2. CASE ~Throw(t, "abandoning")
      <4>1. target' = target /\ locked' = locked /\ claim' = claim /\ written' \in BOOLEAN /\ (written' => claim # None)
        BY <1>6, <3>2 DEF WriteClaim
      <4>2. UNCHANGED <<owner, host, swept, faults, crashes, outcome, record>> /\ pc' \in [Txns -> Working \cup {"idle", "done", "dead"}]
        BY <1>6, <3>2 DEF WriteClaim
      <4> QED
        BY <4>1, <4>2
    <3> QED
      BY <3>1, <3>2
  <2>2. (InStage /\ Dead /\ Named /\ PromotesOwnTree)'
    BY <1>6 DEF WriteClaim
  <2>3. LiveIsLive => LiveIsLive'
    BY <1>6 DEF WriteClaim
  <2>4. TakenBack => TakenBack'
    BY <1>6 DEF WriteClaim
  <2>6. Unswept => Unswept'
    BY <1>6 DEF WriteClaim
  <2>5. locked => locked' /\ target' = target
    BY <1>6 DEF WriteClaim
  <2> QED
    BY <2>1, <2>2, <2>3, <2>4, <2>5, <2>6
<1> QED
  BY <1>1, <1>2, <1>3, <1>4, <1>5, <1>6 DEF Acquire

LEMMA InstallCore ==
  ASSUME Core, NEW t \in Txns, Install(t)
  PROVE  Core' /\ (Healed => Healed') /\ (locked => locked' /\ target' = target)
<1> USE DEF Core, Healed, TypeOK, InStage, Dead, Named, PromotesOwnTree, LiveIsLive, TakenBack, Unswept,
            OwnerAlive, Phases, Terminal, BeforePromotion, Working, Passes,
            Goto, Tell, Keep, NoFault, Fault, Transition, NoClaim, UnchangedClaim, UnchangedTarget,
            Throw, disk
<1>1. CASE BeginPromotion(t)
  BY <1>1 DEF BeginPromotion
<1>2. CASE Rename(t)
  BY <1>2 DEF Rename
<1>3. CASE WriteLock(t)
  <2>1. TypeOK'
    <3>1. CASE Throw(t, "undoing")
      BY <1>3, <3>1 DEF WriteLock
    <3>2. CASE ~Throw(t, "undoing")
      <4>1. target' = t /\ locked' = TRUE /\ claim' = claim /\ written' = written
        BY <1>3, <3>2 DEF WriteLock
      <4>2. UNCHANGED <<owner, host, swept, faults, crashes, outcome, record>> /\ pc' \in [Txns -> Working \cup {"idle", "done", "dead"}]
        BY <1>3, <3>2 DEF WriteLock
      <4> QED
        BY <4>1, <4>2
    <3> QED
      BY <3>1, <3>2
  <2>2. (InStage /\ Dead /\ Named /\ PromotesOwnTree)'
    BY <1>3 DEF WriteLock
  <2>3. LiveIsLive => LiveIsLive'
    BY <1>3 DEF WriteLock
  <2>4. TakenBack => TakenBack'
    BY <1>3 DEF WriteLock
  <2>6. Unswept => Unswept'
    BY <1>3 DEF WriteLock
  <2>5. locked => locked' /\ target' = target
    BY <1>3 DEF WriteLock
  <2> QED
    BY <2>1, <2>2, <2>3, <2>4, <2>5, <2>6
<1>4. CASE Undo(t)
  BY <1>4 DEF Undo
<1>5. CASE RecordInstalled(t)
  BY <1>5 DEF RecordInstalled
<1>6. CASE Finish(t)
  BY <1>6 DEF Finish, RemoveStaging
<1>7. CASE ReadOwnClaim(t)
  BY <1>7 DEF ReadOwnClaim
<1>8. CASE RemoveClaim(t)
  <2>1. TypeOK'
    <3>1. CASE Throw(t, "abandoning")
      BY <1>8, <3>1 DEF RemoveClaim
    <3>2. CASE ~Throw(t, "abandoning")
      <4>1. target' = target /\ locked' = locked /\ claim' = None /\ written' = FALSE
        BY <1>8, <3>2 DEF RemoveClaim
      <4>2. UNCHANGED <<owner, host, swept, faults, crashes, outcome, record>> /\ pc' \in [Txns -> Working \cup {"idle", "done", "dead"}]
        BY <1>8, <3>2 DEF RemoveClaim
      <4> QED
        BY <4>1, <4>2
    <3> QED
      BY <3>1, <3>2
  <2>2. (InStage /\ Dead /\ Named /\ PromotesOwnTree)'
    BY <1>8 DEF RemoveClaim
  <2>3. LiveIsLive => LiveIsLive'
    BY <1>8 DEF RemoveClaim
  <2>4. TakenBack => TakenBack'
    BY <1>8 DEF RemoveClaim
  <2>6. Unswept => Unswept'
    BY <1>8 DEF RemoveClaim
  <2>5. locked => locked' /\ target' = target
    BY <1>8 DEF RemoveClaim
  <2> QED
    BY <2>1, <2>2, <2>3, <2>4, <2>5, <2>6
<1>9. CASE Return(t)
  <2>1. TypeOK'
    BY <1>9 DEF Return
  <2>2. (InStage /\ Dead /\ Named /\ PromotesOwnTree)'
    BY <1>9 DEF Return
  <2>3. LiveIsLive => LiveIsLive'
    <3>1. ASSUME LiveIsLive, NEW u \in Txns, OwnerAlive(u)'
          PROVE  \/ pc'[u] \in Working /\ (pc'[u] = "clearing" => faults' > 0)
                 \/ host' = "staging"
                 \/ ~swept'
                 \/ faults' > 1
      <4>1. CASE u = t
        BY <1>9, <3>1, <4>1 DEF Return
      <4>2. CASE u # t
        BY <1>9, <3>1, <4>2 DEF Return
      <4> QED
        BY <4>1, <4>2
    <3> QED
      BY <3>1
  <2>4. TakenBack => TakenBack'
    BY <1>9 DEF Return
  <2>6. Unswept => Unswept'
    BY <1>9 DEF Return
  <2>5. locked => locked' /\ target' = target
    BY <1>9 DEF Return
  <2> QED
    BY <2>1, <2>2, <2>3, <2>4, <2>5, <2>6
<1> QED
  BY <1>1, <1>2, <1>3, <1>4, <1>5, <1>6, <1>7, <1>8, <1>9 DEF Install

\* Only a scan with a call that fails undoes an install.
Stays ==
  locked => (locked' /\ target' = target)
            \/ (host \in {"staging", "targets"} /\ faults' > faults)

\* What failing calls of the scan do to the counters.
LEMMA MissesCount ==
  ASSUME TypeOK, NEW n \in {0, 1, 2}, Misses(n)
  PROVE  /\ faults' \in 0 .. MaxFaults /\ swept' \in BOOLEAN
         /\ n = 0 => faults' = faults /\ swept' = swept
         /\ n > 0 => faults' > faults /\ swept' = FALSE
<1>1. faults' = faults + n /\ faults + n <= MaxFaults /\ faults \in Nat
  BY DEF Misses, TypeOK
<1>2. CASE n = 0
  BY <1>1, <1>2 DEF Misses, TypeOK
<1>3. CASE n > 0
  <2>1. swept' = FALSE
    <3>1. n # 0
      BY <1>3
    <3> QED
      BY <3>1, ZenonT(30) DEF Misses
  <2>2. faults' \in 0 .. MaxFaults /\ faults' > faults
    BY <1>1, <1>3
  <2>3. n # 0
    BY <1>3
  <2> QED
    BY <2>1, <2>2, <2>3
<1>4. n = 0 \/ n > 0
  OBVIOUS
<1> QED
  BY <1>2, <1>3, <1>4

\* What a pass of the scan keeps, step by step: it is enough to know how the
\* target, the records and the counters moved.
LEMMA PassCore ==
  ASSUME Core, host \in Passes, host' \in Passes \cup {"up"},
         UNCHANGED <<pc, owner, outcome, crashes>>,
         record' \in [Txns -> Phases \cup {"none", "orphan"}],
         \A u \in Txns : record'[u] \in {record[u], "none"} \/ (record'[u] = "orphan" /\ record[u] # "none"),
         UNCHANGED <<target, locked>> \/ (target' = None /\ locked' = FALSE)
           \/ (target' = target /\ locked' = FALSE),
         claim' \in Txns \cup {None}, written' \in BOOLEAN, written' => claim' # None,
         faults' \in 0 .. MaxFaults, swept' \in BOOLEAN
  PROVE  Core'
<1> USE DEF Core
<1>1. \A u \in Txns : pc[u] \notin Working
  BY DEF Dead, Passes
<1>2. TypeOK'
  <2>1. pc' = pc /\ owner' = owner /\ outcome' = outcome /\ crashes' = crashes
    OBVIOUS
  <2>2. target' \in Txns \cup {None} /\ locked' \in BOOLEAN /\ (locked' => target' # None)
    <3>1. target \in Txns \cup {None} /\ locked \in BOOLEAN /\ (locked => target # None)
      BY DEF TypeOK
    <3>2. CASE target' = target /\ locked' = locked
      BY <3>1, <3>2
    <3>3. CASE target' \in {None, target} /\ locked' = FALSE
      BY <3>1, <3>3
    <3> QED
      BY <3>2, <3>3
  <2>3. host' \in {"up", "down"} \cup Passes
    OBVIOUS
  <2> QED
    BY <2>1, <2>2, <2>3 DEF TypeOK
<1>3. (Dead /\ Named /\ PromotesOwnTree)'
  BY <1>1 DEF Dead, Named, PromotesOwnTree, Working
<1>4. InStage'
  BY <1>1 DEF InStage, Working
<1> QED
  BY <1>2, <1>3, <1>4

\* Once a call of the scan has failed, nothing is promised until the next.
LEMMA Unhealed ==
  ASSUME Core, host \in Passes, host' \in Passes \cup {"up"}, swept' = FALSE
  PROVE  Healed'
  BY DEF Healed, LiveIsLive, TakenBack, Unswept, OwnerAlive

LEMMA HostCore ==
  ASSUME Core, Crash \/ Start \/ Recover
  PROVE  Core' /\ (Healed => Healed') /\ Stays
<1> USE DEF Core
<1>1. CASE Crash
  <2>1. UNCHANGED disk /\ UNCHANGED <<owner, outcome, faults>> /\ host' = "down"
        /\ swept' = FALSE /\ crashes' = crashes + 1 /\ crashes < MaxCrashes
        /\ pc' = [t \in Txns |-> IF pc[t] \in Working THEN "dead" ELSE pc[t]]
    BY <1>1 DEF Crash
  <2>2. pc' \in [Txns -> Working \cup {"idle", "done", "dead"}]
        /\ \A t \in Txns : pc'[t] = pc[t] \/ (pc[t] \in Working /\ pc'[t] = "dead")
    <3>1. pc \in [Txns -> Working \cup {"idle", "done", "dead"}]
      BY DEF TypeOK
    <3> HIDE DEF Core
    <3> QED
      BY <2>1, <3>1
  <2>3. \A t \in Txns : pc'[t] \notin Working
    BY <2>1 DEF Working
  <2>4. swept' \in BOOLEAN /\ crashes' \in 0 .. MaxCrashes
    <3>1. crashes \in 0 .. MaxCrashes
      BY DEF TypeOK
    <3> HIDE DEF Core
    <3>2. crashes' \in 0 .. MaxCrashes
      BY <2>1, <3>1
    <3> QED
      BY <2>1, <3>2
  <2>5. TypeOK'
    BY <2>1, <2>2, <2>4 DEF TypeOK, disk
  <2>6. InStage'
    BY <2>1, <2>2, <2>3 DEF InStage, disk, Working
  <2>7. (Dead /\ Named /\ PromotesOwnTree)'
    BY <2>1, <2>3 DEF Dead, Named, PromotesOwnTree, disk, Working
  <2>8. Healed'
    BY <2>1 DEF Healed, LiveIsLive, TakenBack, Unswept, OwnerAlive
  <2>9. Stays
    BY <2>1 DEF Stays, disk
  <2> QED
    BY <2>5, <2>6, <2>7, <2>8, <2>9
<1>2. CASE Start
  <2>1. TypeOK'
    BY <1>2 DEF Start, TypeOK, disk, Passes
  <2>2. (InStage /\ Dead /\ Named /\ PromotesOwnTree)'
    BY <1>2 DEF Start, InStage, Dead, Named, PromotesOwnTree, disk
  <2>3. Healed => Healed'
    BY <1>2 DEF Start, Healed, LiveIsLive, TakenBack, Unswept, OwnerAlive, disk
  <2>4. Stays
    BY <1>2 DEF Start, Stays, disk
  <2> QED
    BY <2>1, <2>2, <2>3, <2>4
<1>3. ASSUME NEW t \in Txns, RecoverStaging(t)
      PROVE  Core' /\ (Healed => Healed') /\ Stays
  <2>1. PICK missed \in {0, 1} : \E takes \in TakesTarget(t, missed) :
          Misses(missed) /\ IF takes THEN RemoveTarget ELSE UnchangedTarget
    BY <1>3 DEF RecoverStaging
  <2>2. /\ UNCHANGED <<target, locked>> \/ (target' = None /\ locked' = FALSE)
        /\ missed = 0 /\ locked => UNCHANGED <<target, locked>>
    BY <2>1 DEF TakesTarget, RemoveTarget, UnchangedTarget
  <2>3. Misses(missed)
    BY <2>1
  <2>4. /\ faults' \in 0 .. MaxFaults /\ swept' \in BOOLEAN
        /\ missed = 0 => faults' = faults /\ swept' = swept
        /\ missed > 0 => faults' > faults /\ swept' = FALSE
    BY <2>3, MissesCount
  <2>5. /\ record[t] # "none" /\ record' = [record EXCEPT ![t] = "none"]
        /\ host = "staging" /\ host' = "staging"
        /\ UNCHANGED <<claim, written>> /\ UNCHANGED <<pc, owner, outcome, crashes>>
    BY <1>3 DEF RecoverStaging, Transition, UnchangedClaim, Scan
  <2>6. record' \in [Txns -> Phases \cup {"none", "orphan"}]
        /\ \A u \in Txns : record'[u] \in {record[u], "none"}
    BY <2>5 DEF TypeOK
  <2>7. claim' \in Txns \cup {None} /\ written' \in BOOLEAN /\ (written' => claim' # None)
    BY <2>5 DEF TypeOK
  <2>8. Core'
    BY <2>2, <2>4, <2>5, <2>6, <2>7, PassCore DEF Passes
  <2>9. Stays
    <3>1. CASE missed = 0
      BY <2>2, <3>1 DEF Stays
    <3>2. CASE missed > 0
      BY <2>4, <2>5, <3>2 DEF Stays
    <3> QED
      BY <3>1, <3>2
  <2>10. Healed'
    BY <2>5 DEF Healed, LiveIsLive, TakenBack, Unswept
  <2> QED
    BY <2>8, <2>9, <2>10
<1>4. ASSUME NEW t \in Txns, RecoverStagingFails(t)
      PROVE  Core' /\ (Healed => Healed') /\ Stays
  <2> DEFINE Leaves(takes) ==
        \/ /\ record' \in {[record EXCEPT ![t] = "orphan"], record}
           /\ IF takes THEN RemoveTarget ELSE UnchangedTarget
        \/ takes /\ SpoilTarget /\ UNCHANGED record
  <2>1. PICK missed \in {0, 1} : \E takes \in TakesTarget(t, missed) :
          Misses(missed + 1) /\ Leaves(takes)
    BY <1>4 DEF RecoverStagingFails
  <2>2. /\ record' \in {[record EXCEPT ![t] = "orphan"], record}
        /\ UNCHANGED <<target, locked>> \/ (target' = None /\ locked' = FALSE)
             \/ (target' = target /\ locked' = FALSE)
    BY <2>1 DEF RemoveTarget, UnchangedTarget, SpoilTarget
  <2>3. Misses(missed + 1) /\ missed + 1 \in {0, 1, 2} /\ missed + 1 > 0
    BY <2>1
  <2>4. faults' \in 0 .. MaxFaults /\ faults' > faults /\ swept' = FALSE
    BY <2>3, MissesCount
  <2>5. /\ record[t] # "none" /\ host = "staging" /\ host' = "up"
        /\ UNCHANGED <<claim, written>> /\ UNCHANGED <<pc, owner, outcome, crashes>>
    BY <1>4 DEF RecoverStagingFails, UnchangedClaim, Scan
  <2>6. /\ record' \in [Txns -> Phases \cup {"none", "orphan"}]
        /\ \A u \in Txns : record'[u] = record[u] \/ (record'[u] = "orphan" /\ record[u] # "none")
    BY <2>2, <2>5 DEF TypeOK
  <2>7. claim' \in Txns \cup {None} /\ written' \in BOOLEAN /\ (written' => claim' # None)
    BY <2>5 DEF TypeOK
  <2>8. Core'
    BY <2>2, <2>4, <2>5, <2>6, <2>7, PassCore DEF Passes
  <2>9. Stays
    BY <2>4, <2>5 DEF Stays
  <2>10. Healed'
    BY <2>4, <2>5, Unhealed DEF Passes
  <2> QED
    BY <2>8, <2>9, <2>10
<1>5. CASE StagingRecovered
  <2>1. /\ host = "staging" /\ host' = "targets" /\ UNCHANGED disk
        /\ UNCHANGED <<pc, owner, outcome, crashes>>
    BY <1>5 DEF StagingRecovered, Scan
  <2>2. Core' /\ Stays
    <3>1. faults' \in 0 .. MaxFaults /\ swept' \in BOOLEAN
      BY <1>5, MissesCount DEF StagingRecovered
    <3>2. /\ record' \in [Txns -> Phases \cup {"none", "orphan"}]
          /\ claim' \in Txns \cup {None} /\ written' \in BOOLEAN /\ (written' => claim' # None)
      BY <2>1 DEF TypeOK, disk
    <3>3. record' = record /\ target' = target /\ locked' = locked
      BY <2>1 DEF disk
    <3> QED
      BY <2>1, <3>1, <3>2, <3>3, PassCore DEF Passes, Stays
  <2>3. Healed => Healed'
    <3>1. CASE Misses(1)
      <4>1. swept' = FALSE
        BY <3>1, MissesCount
      <4> QED
        BY <2>1, <4>1, Unhealed DEF Passes
    <3>2. CASE Misses(0) /\ \A t \in Txns : record[t] = "none"
      <4>1. LiveIsLive'
        BY <2>1, <3>2 DEF LiveIsLive, OwnerAlive, disk, Phases, Terminal, BeforePromotion
      <4> QED
        BY <2>1, <4>1 DEF Healed, TakenBack, Unswept, disk
    <3> QED
      BY <1>5, <3>1, <3>2 DEF StagingRecovered
  <2> QED
    BY <2>2, <2>3
<1>6. CASE RecoverTargets
  <2>1. /\ host = "targets" /\ host' = "claims" /\ UNCHANGED <<record, claim, written>>
        /\ UNCHANGED <<pc, owner, outcome, crashes>>
    BY <1>6 DEF RecoverTargets, Scan, UnchangedClaim
  <2>2. UNCHANGED <<target, locked>> \/ (target' = None /\ locked' = FALSE)
    BY <1>6 DEF RecoverTargets, UnchangedTarget, RemoveTarget
  <2>3. faults' \in 0 .. MaxFaults /\ swept' \in BOOLEAN
    BY <1>6, MissesCount DEF RecoverTargets
  <2>4. /\ record' \in [Txns -> Phases \cup {"none", "orphan"}]
        /\ claim' \in Txns \cup {None} /\ written' \in BOOLEAN /\ (written' => claim' # None)
    BY <2>1 DEF TypeOK
  <2>5. Core'
    BY <2>1, <2>2, <2>3, <2>4, PassCore DEF Passes
  <2>6. CASE Misses(1)
    <3>1. swept' = FALSE /\ faults' > faults
      BY <2>6, MissesCount
    <3> QED
      BY <2>1, <2>5, <3>1, Unhealed DEF Passes, Stays
  <2>7. CASE Misses(0) /\ IF locked THEN UnchangedTarget ELSE RemoveTarget
    <3>1. faults' = faults /\ swept' = swept
      BY <2>7, MissesCount
    <3>2. (locked => UNCHANGED <<target, locked>>) /\ (~locked => target' = None)
      BY <2>7 DEF UnchangedTarget, RemoveTarget
    <3>3. Stays
      BY <3>2 DEF Stays
    <3>4. Healed => Healed'
      BY <2>1, <3>1, <3>2 DEF Healed, LiveIsLive, TakenBack, Unswept, OwnerAlive
    <3> QED
      BY <2>5, <3>3, <3>4
  <2> QED
    BY <1>6, <2>6, <2>7 DEF RecoverTargets
<1>7. CASE RecoverTargetsFails
  <2>1. /\ host = "targets" /\ host' = "up" /\ UNCHANGED <<record, claim, written>>
        /\ UNCHANGED <<pc, owner, outcome, crashes>>
        /\ target' = target /\ locked' \in {locked, FALSE}
    BY <1>7 DEF RecoverTargetsFails, Scan, UnchangedClaim, SpoilTarget
  <2>2. faults' \in 0 .. MaxFaults /\ swept' = FALSE /\ faults' > faults
    <3>1. CASE locked
      BY <1>7, <3>1, MissesCount DEF RecoverTargetsFails
    <3>2. CASE ~locked
      BY <1>7, <3>2, MissesCount DEF RecoverTargetsFails
    <3> QED
      BY <3>1, <3>2
  <2>3. /\ record' \in [Txns -> Phases \cup {"none", "orphan"}]
        /\ claim' \in Txns \cup {None} /\ written' \in BOOLEAN /\ (written' => claim' # None)
    BY <2>1 DEF TypeOK
  <2> QED
    BY <2>1, <2>2, <2>3, PassCore, Unhealed DEF Passes, Stays
<1>8. CASE RecoverClaims
  <2>1. /\ host = "claims" /\ host' = "up" /\ UNCHANGED <<record, target, locked>>
        /\ UNCHANGED <<pc, owner, outcome, crashes>>
    BY <1>8 DEF RecoverClaims, Scan, UnchangedTarget
  <2>2. faults' \in 0 .. MaxFaults /\ swept' \in BOOLEAN
    BY <1>8, MissesCount DEF RecoverClaims
  <2>3. /\ record' \in [Txns -> Phases \cup {"none", "orphan"}]
        /\ claim' \in Txns \cup {None} /\ written' \in BOOLEAN /\ (written' => claim' # None)
    <3>1. NoClaim \/ UnchangedClaim
      BY <1>8 DEF RecoverClaims
    <3>2. record' = record
      BY <2>1
    <3>3. CASE NoClaim
      BY <3>2, <3>3 DEF TypeOK, NoClaim
    <3>4. CASE UnchangedClaim
      BY <3>2, <3>4 DEF TypeOK, UnchangedClaim
    <3> QED
      BY <3>1, <3>3, <3>4
  <2>4. Core' /\ Stays
    BY <2>1, <2>2, <2>3, PassCore DEF Passes, Stays
  <2>5. Healed => Healed'
    <3>1. CASE Misses(1)
      <4>1. swept' = FALSE
        BY <3>1, MissesCount
      <4> QED
        BY <2>1, <4>1, Unhealed DEF Passes
    <3>2. CASE Misses(0)
      <4>1. faults' = faults /\ swept' = swept
        BY <3>2, MissesCount
      <4> QED
        BY <2>1, <4>1 DEF Healed, LiveIsLive, TakenBack, Unswept, OwnerAlive
    <3> QED
      BY <1>8, <3>1, <3>2 DEF RecoverClaims
  <2> QED
    BY <2>4, <2>5
<1> QED
  BY <1>1, <1>2, <1>3, <1>4, <1>5, <1>6, <1>7, <1>8 DEF Recover

LEMMA NextCore ==
  ASSUME Core, [Next]_vars
  PROVE  Core' /\ (Healed => Healed') /\ Stays
<1>1. CASE Next
  BY <1>1, StagingCore, AcquireCore, InstallCore, HostCore DEF Next, Work, Stays
<1>2. CASE UNCHANGED vars
  BY <1>2 DEF vars, disk, Core, Healed, TypeOK, InStage, Dead, Named, PromotesOwnTree, LiveIsLive,
              TakenBack, Unswept, OwnerAlive, Stays
<1> QED
  BY <1>1, <1>2

LEMMA SpecCore == Spec => []Core
<1>1. Core /\ [Next]_vars => Core'
  BY NextCore
<1> QED
  BY <1>1, InitCore, PTL DEF Spec

LEMMA SpecHealed == Spec => [](Core /\ Healed)
<1>1. Core /\ Healed /\ [Next]_vars => (Core /\ Healed)'
  BY NextCore
<1> QED
  BY <1>1, InitCore, PTL DEF Spec
-------------------------------------------------------------------------------
(* The files and the handles on them keep their types: a lock is only ever   *)
(* in a tree, a name only ever in a claim.                                   *)
THEOREM TypeOKHolds == Spec => []TypeOK
<1>1. Core => TypeOK
  BY DEF Core
<1> QED
  BY <1>1, SpecCore, PTL

(* A promotion locks or takes back its own tree only, with any number of     *)
(* transactions, whoever has the claim and whether or not a start scans.     *)
THEOREM PromotesOwnTreeHolds == Spec => []PromotesOwnTree
<1>1. Core => PromotesOwnTree
  BY DEF Core
<1> QED
  BY <1>1, SpecCore, PTL

(* A completed install is undone by a scan with a failing call alone; not by *)
(* anything else, for any number of transactions, failures and crashes.      *)
THEOREM InstalledStaysHolds == Spec => InstalledStays
<1>1. Core /\ [Next]_vars
      => [locked => (locked' /\ target' = target)
                    \/ (host \in {"staging", "targets"} /\ faults' > faults)]_vars
  BY NextCore DEF Stays
<1> QED
  BY <1>1, SpecCore, PTL DEF Spec, InstalledStays

(* A refusal as busy names a live install until the process dies, and again  *)
(* after a whole scan; whether a start scans is not assumed.                 *)
THEOREM BusyIsLiveHolds == Spec => []BusyIsLive
<1>1. Core /\ Healed => BusyIsLive
  BY DEF Core, Healed, TypeOK, Named, Dead, LiveIsLive, BusyIsLive, OwnerAlive, Working
<1> QED
  BY <1>1, SpecHealed, PTL

(* Nothing wedges the extension until the process dies, and after a whole    *)
(* scan nothing does again.                                                  *)
THEOREM NotWedgedHolds == Spec => []NotWedged
<1>1. Core /\ Healed => NotWedged
  BY DEF Core, Healed, TypeOK, LiveIsLive, TakenBack, NotWedged, Quiet, OwnerAlive, Working
<1> QED
  BY <1>1, SpecHealed, PTL
-------------------------------------------------------------------------------
(***************************************************************************)
(* The refinement: a promotion installs in the step that writes its lock,  *)
(* and what its caller is told then is the truth about that lock.          *)
(***************************************************************************)
Unpromoted ==
  {"idle", "begun", "staging", "handed", "claiming", "judging", "judged", "stealing",
   "reopening", "opened", "claimed", "promoting"}

\* A transaction at work has installed from its lock on; one that was refused or
\* discarded, or has not come to its rename, has not.
Honest ==
  \A t \in Txns :
    /\ pc[t] \in Unpromoted => Installed # t
    /\ pc[t] \in {"locked", "installed"} => Installed = t
    /\ outcome[t] = "installed" /\ pc[t] \in Working => Installed = t
    /\ outcome[t] \in {"refused", "discarded"} =>
         pc[t] \in {"abandoning", "clearing", "done", "dead"} /\ Installed # t

\* What a transaction's own step leaves of the others, and of the lock.
LEMMA OwnStep ==
  ASSUME Core, NEW t \in Txns, Ask(t) \/ Work(t)
  PROVE  /\ \A u \in Txns \ {t} : pc'[u] = pc[u] /\ outcome'[u] = outcome[u]
         /\ \/ Installed' = Installed
            \/ WriteLock(t) /\ Installed = None /\ Installed' = t /\ pc'[t] = "locked"
<1> USE DEF Core, TypeOK, PromotesOwnTree, Installed, Goto, Tell, Throw, UnchangedTarget, disk
<1>1. CASE Ask(t)
  BY <1>1 DEF Ask, Begin, RefuseInstalled, Discard, Promote
<1>2. CASE WriteRecord(t) \/ Stage(t) \/ MarkFailed(t) \/ Clear(t)
  BY <1>2 DEF WriteRecord, Stage, MarkFailed, Clear
<1>3. CASE Acquire(t)
  BY <1>3 DEF Acquire, OpenClaim, ReadClaim, Judge, Steal, Reopen, WriteClaim
<1>4. CASE Install(t)
  <2>1. CASE WriteLock(t)
    BY <2>1 DEF WriteLock
  <2>2. CASE Rename(t)
    BY <2>2 DEF Rename
  <2>3. CASE Undo(t)
    BY <2>3 DEF Undo
  <2>4. CASE ~(WriteLock(t) \/ Rename(t) \/ Undo(t))
    BY <1>4, <2>4 DEF Install, BeginPromotion, RecordInstalled, Finish, ReadOwnClaim,
       RemoveClaim, Return
  <2> QED
    BY <2>1, <2>2, <2>3, <2>4
<1> QED
  BY <1>1, <1>2, <1>3, <1>4 DEF Work

\* What it makes of itself.
LEMMA OwnHonest ==
  ASSUME Core, Honest, NEW t \in Txns, Ask(t) \/ Work(t)
  PROVE  /\ pc'[t] \in Unpromoted => Installed' # t
         /\ pc'[t] \in {"locked", "installed"} => Installed' = t
         /\ outcome'[t] = "installed" /\ pc'[t] \in Working \cup {"done"} => Installed' = t
         /\ outcome'[t] \in {"refused", "discarded"} =>
              pc'[t] \in {"abandoning", "clearing", "done", "dead"} /\ Installed' # t
<1> USE DEF Core, TypeOK, InStage, PromotesOwnTree, Honest, Unpromoted, Goto, Tell, Throw
<1>1. CASE WriteLock(t)
  BY <1>1 DEF WriteLock, Installed, disk
<1>2. CASE ~WriteLock(t)
  <2>1. Installed' = Installed
    BY <1>2, OwnStep
  <2>2. CASE Ask(t)
    BY <2>1, <2>2 DEF Ask, Begin, RefuseInstalled, Discard, Promote
  <2>3. CASE WriteRecord(t) \/ Stage(t) \/ MarkFailed(t) \/ Clear(t)
    BY <2>1, <2>3 DEF WriteRecord, Stage, MarkFailed, Clear
  <2>4. CASE Acquire(t)
    BY <2>1, <2>4 DEF Acquire, OpenClaim, ReadClaim, Judge, Steal, Reopen, WriteClaim
  <2>5. CASE Install(t)
    BY <1>2, <2>1, <2>5 DEF Install, BeginPromotion, Rename, Undo, RecordInstalled, Finish,
       ReadOwnClaim, RemoveClaim, Return
  <2> QED
    BY <2>2, <2>3, <2>4, <2>5 DEF Work
<1> QED
  BY <1>1, <1>2

LEMMA HostHonest ==
  ASSUME Core, Crash \/ Start \/ Recover
  PROVE  /\ outcome' = outcome /\ Installed' \in {Installed, None}
         /\ Installed' # Installed => Scanning
         /\ \A t \in Txns : pc'[t] = pc[t] \/ (pc[t] \in Working /\ pc'[t] = "dead")
         /\ \A t \in Txns : pc'[t] \notin Working
<1>1. CASE Crash
  BY <1>1 DEF Crash, disk, Installed, Core, TypeOK, Working
<1>2. CASE Start
  BY <1>2 DEF Start, disk, Installed, Core, Dead
<1>3. CASE Recover
  <2>1. UNCHANGED <<outcome, pc>> /\ host # "up"
    BY <1>3 DEF Recover, RecoverStaging, RecoverStagingFails, StagingRecovered, RecoverTargets,
       RecoverTargetsFails, RecoverClaims, Scan
  <2>2. Installed' \in {Installed, None} /\ (Installed' # Installed => Scanning)
    <3>1. UNCHANGED <<target, locked>>
          \/ (host \in {"staging", "targets"} /\ locked' \in {locked, FALSE}
              /\ (locked' = FALSE \/ target' = target))
      BY <1>3 DEF Recover, RecoverStaging, RecoverStagingFails, StagingRecovered, RecoverTargets,
         RecoverTargetsFails, RecoverClaims, UnchangedTarget, RemoveTarget, SpoilTarget, disk
    <3> QED
      <4>1. locked \in BOOLEAN
        BY DEF Core, TypeOK
      <4>2. CASE UNCHANGED <<target, locked>>
        BY <4>2 DEF Installed
      <4>3. CASE locked' = FALSE /\ host \in {"staging", "targets"}
        BY <4>3 DEF Installed, Scanning
      <4> QED
        BY <3>1, <4>1, <4>2, <4>3
  <2> QED
    BY <2>1, <2>2 DEF Core, Dead
<1> QED
  BY <1>1, <1>2, <1>3

LEMMA HonestAlways == Spec => []Honest
<1>1. Init => Honest
  BY DEF Init, Honest, Installed
<1>2. Core /\ Honest /\ [Next]_vars => Honest'
  <2> SUFFICES ASSUME Core, Honest, [Next]_vars PROVE Honest'
    OBVIOUS
  <2>1. ASSUME NEW t \in Txns, Ask(t) \/ Work(t) PROVE Honest'
    <3>1. ASSUME NEW u \in Txns \ {t}
          PROVE  /\ pc'[u] \in Unpromoted => Installed' # u
                 /\ pc'[u] \in {"locked", "installed"} => Installed' = u
                 /\ outcome'[u] = "installed" /\ pc'[u] \in Working => Installed' = u
                 /\ outcome'[u] \in {"refused", "discarded"} =>
                      pc'[u] \in {"abandoning", "clearing", "done", "dead"} /\ Installed' # u
      BY <2>1, OwnStep DEF Honest
    <3> QED
      BY <2>1, <3>1, OwnHonest DEF Honest
  <2>2. CASE Crash \/ Start \/ Recover
    BY <2>2, HostHonest DEF Honest, Unpromoted, Working
  <2>3. CASE UNCHANGED vars
    BY <2>3 DEF vars, disk, Honest, Installed
  <2> QED
    BY <2>1, <2>2, <2>3 DEF Next
<1> QED
  BY <1>1, <1>2, SpecCore, PTL DEF Spec

\* A transaction's own steps are the promise's, or its caller sees nothing.
LEMMA StepPromised ==
  ASSUME Core, Core', Honest, Honest', NEW t \in Txns, Ask(t) \/ Work(t)
  PROVE  Promised!Next \/ UNCHANGED Promised!vars
<1> USE DEF Core, TypeOK
<1>0. ~Scanning /\ ~Scanning'
  <2>1. host = "up"
    BY DEF Dead, Working, Ask, Begin, RefuseInstalled, Discard, Promote, Work, WriteRecord, Stage,
       MarkFailed, Clear, Acquire, OpenClaim, ReadClaim, Judge, Steal, Reopen, WriteClaim,
       Install, BeginPromotion, Rename, WriteLock, Undo, RecordInstalled, Finish,
       ReadOwnClaim, RemoveClaim, Return
  <2>2. host' = host
    BY DEF Keep, Ask, Begin, RefuseInstalled, Discard, Promote, Work, WriteRecord, Stage,
       MarkFailed, Clear, Acquire, OpenClaim, ReadClaim, Judge, Steal, Reopen, WriteClaim,
       Install, BeginPromotion, Rename, WriteLock, Undo, RecordInstalled, Finish,
       ReadOwnClaim, RemoveClaim, Return
  <2> QED
    BY <2>1, <2>2 DEF Scanning
<1>1. pc[t] # "done" /\ \A u \in Txns \ {t} : Answers'[u] = Answers[u]
  <2>1. pc[t] # "done"
    BY DEF Ask, Begin, RefuseInstalled, Discard, Promote, Work, WriteRecord, Stage,
       MarkFailed, Clear, Acquire, OpenClaim, ReadClaim, Judge, Steal, Reopen, WriteClaim,
       Install, BeginPromotion, Rename, WriteLock, Undo, RecordInstalled, Finish,
       ReadOwnClaim, RemoveClaim, Return
  <2> QED
    BY <2>1, OwnStep DEF Answers
<1>2. Answers[t] = "pending"
  BY <1>1 DEF Answers
<1>3. CASE WriteLock(t) /\ Installed' # Installed
  <2>1. Installed = None /\ Installed' = t /\ pc'[t] = "locked"
    BY <1>3, OwnStep
  <2>2. Answers' = Answers
    BY <1>1, <1>2, <2>1 DEF Answers
  <2> QED
    BY <1>0, <1>2, <2>1, <2>2 DEF Promised!Next, Promised!Install, Scanning
<1>4. CASE Installed' = Installed
  <2>1. CASE Answers'[t] = "pending"
    BY <1>0, <1>1, <1>2, <1>4, <2>1 DEF Answers, Promised!vars, Scanning
  <2>2. CASE Answers'[t] # "pending"
    <3>1. pc'[t] = "done" /\ Answers'[t] = outcome'[t]
      BY <2>2 DEF Answers
    <3>2. outcome'[t] \in {"installed", "refused", "failed", "discarded"}
      BY <2>2, <3>1
    <3>3. Answers' = [Answers EXCEPT ![t] = outcome'[t]]
      BY <1>1, <3>1 DEF Answers
    <3>4. Promised!Tell(t, outcome'[t])
      <4>1. outcome'[t] = "installed" => Installed = t
        BY <1>4, <3>1, OwnHonest
      <4>2. outcome'[t] \in {"refused", "discarded"} => Installed # t
        BY <1>4 DEF Honest
      <4> QED
        BY <1>0, <1>2, <1>4, <3>3, <4>1, <4>2 DEF Promised!Tell, Scanning
    <3> QED
      BY <3>2, <3>4 DEF Promised!Next
  <2> QED
    BY <2>1, <2>2
<1> QED
  BY <1>3, <1>4, OwnStep

\* Whatever the transactions, failures, crashes and scans, the callers see one
\* install, in one step, and are told the truth.
THEOREM InstallsAtomicallyHolds == Spec => InstallsAtomically
<1>1. Init => Promised!Init
  BY DEF Init, Promised!Init, Installed, Answers, Scanning
<1>2. Core /\ Core' /\ Honest /\ Honest' /\ [Next]_vars => [Promised!Next]_(Promised!vars)
  <2> SUFFICES ASSUME Core, Core', Honest, Honest', [Next]_vars
               PROVE  Promised!Next \/ UNCHANGED Promised!vars
    OBVIOUS
  <2>1. CASE \E t \in Txns : Ask(t) \/ Work(t)
    BY <2>1, StepPromised
  <2>2. CASE Crash \/ Start \/ Recover
    <3>1. Answers' = Answers
      BY <2>2, HostHonest DEF Answers, Working
    <3>2. CASE Installed' = Installed
      BY <3>1, <3>2 DEF Promised!vars, Promised!Next, Promised!Scan, Scanning
    <3>3. CASE Installed' # Installed
      BY <2>2, <3>1, <3>3, HostHonest DEF Promised!Next, Promised!Lose, Scanning
    <3> QED
      BY <3>2, <3>3
  <2>3. CASE UNCHANGED vars
    BY <2>3 DEF vars, disk, Promised!vars, Installed, Answers, Scanning
  <2> QED
    BY <2>1, <2>2, <2>3 DEF Next
<1> QED
  BY <1>1, <1>2, SpecCore, HonestAlways, PTL DEF Spec, InstallsAtomically, Promised!Spec
===============================================================================
