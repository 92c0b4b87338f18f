---------------------------- MODULE HostLockProofs ----------------------------
(***************************************************************************)
(* A data directory has one host, for any number of hosts, crashes and     *)
(* recycled process ids, as long as no two acquire the lock at once.       *)
(***************************************************************************)
EXTENDS HostLock, TLAPS

\* Only one host is between its start and its answer.
OneAcquirer ==
  \A g, h \in Hosts : pc[g] \in Acquiring /\ pc[h] \in Acquiring => g = h

\* The file a host is writing its record to is the one at the path.
WritesInPlace ==
  \A h \in Hosts : pc[h] = "writing" => file = h /\ ~written

\* A lock is judged stale only while nobody serves.
StaleIsStale ==
  \A g, h \in Hosts : pc[g] = "stealing" => pc[h] \notin Serving

Recorded ==
  \A h \in Hosts : pc[h] \in Serving => file = h /\ written

Orderly == OneAcquirer /\ WritesInPlace /\ StaleIsStale /\ Recorded

\* A host serves only once its record is in.
RecordIsIn == \A h \in Hosts : pc[h] \in Serving /\ file = h => written

IInv == TypeOK /\ RecordIsIn /\ (~overlap => Orderly)

\* What a host may do next.
Step(h) == Start(h) \/ Acquire(h) \/ StartRelease(h) \/ ReadOwn(h) \/ RemoveOwn(h) \/ Crash(h)

USE HostLockAssumption

LEMMA InitInv == Init => IInv
  BY DEF Init, IInv, TypeOK, RecordIsIn, Orderly, OneAcquirer, WritesInPlace, StaleIsStale,
         Recorded, Places, Running, Acquiring, Serving

LEMMA StepTyped ==
  ASSUME TypeOK, RecordIsIn, NEW h \in Hosts, Step(h)
  PROVE  TypeOK' /\ RecordIsIn'
<1> USE DEF TypeOK, RecordIsIn, Places, Running, Acquiring, Serving, Goto, Live
<1>1. CASE Start(h)
  BY <1>1 DEF Start
<1>2. CASE Create(h)
  <2>1. CASE file = NoFile
    <3>1. file' = h /\ pc' = [pc EXCEPT ![h] = "writing"] /\ written' = FALSE
          /\ others' = others /\ overlap' = overlap
      BY <1>2, <2>1 DEF Create
    <3> QED
      BY <3>1
  <2>2. CASE file # NoFile
    BY <1>2, <2>2 DEF Create
  <2> QED
    BY <2>1, <2>2
<1>3. CASE WriteRecord(h)
  BY <1>3 DEF WriteRecord
<1>4. CASE Examine(h)
  BY <1>4 DEF Examine
<1>5. CASE RemoveStale(h)
  BY <1>5 DEF RemoveStale
<1>6. CASE StartRelease(h)
  BY <1>6 DEF StartRelease
<1>7. CASE ReadOwn(h)
  BY <1>7 DEF ReadOwn, Ours
<1>8. CASE RemoveOwn(h)
  BY <1>8 DEF RemoveOwn
<1>9. CASE Crash(h)
  BY <1>9 DEF Crash
<1> QED
  BY <1>1, <1>2, <1>3, <1>4, <1>5, <1>6, <1>7, <1>8, <1>9 DEF Step, Acquire

LEMMA StepOrderly ==
  ASSUME TypeOK, Orderly, ~overlap', NEW h \in Hosts, Step(h)
  PROVE  Orderly'
<1> USE DEF TypeOK, Orderly, OneAcquirer, WritesInPlace, StaleIsStale, Recorded,
            Places, Running, Acquiring, Serving, Goto, Live
<1>1. CASE Start(h)
  BY <1>1 DEF Start
<1>2. CASE Create(h)
  BY <1>2 DEF Create
<1>3. CASE WriteRecord(h)
  BY <1>3 DEF WriteRecord
<1>4. CASE Examine(h)
  <2>1. ASSUME NEW g \in Hosts, pc[g] \in Serving
        PROVE  Held
    BY <2>1 DEF Held, IsPidAlive
  <2> QED
    BY <1>4, <2>1 DEF Examine
<1>5. CASE RemoveStale(h)
  BY <1>5 DEF RemoveStale
<1>6. CASE StartRelease(h)
  BY <1>6 DEF StartRelease
<1>7. CASE ReadOwn(h)
  BY <1>7 DEF ReadOwn, Ours
<1>8. CASE RemoveOwn(h)
  BY <1>8 DEF RemoveOwn
<1>9. CASE Crash(h)
  BY <1>9 DEF Crash
<1> QED
  BY <1>1, <1>2, <1>3, <1>4, <1>5, <1>6, <1>7, <1>8, <1>9 DEF Step, Acquire

LEMMA NextInv == IInv /\ [Next]_vars => IInv'
<1> SUFFICES ASSUME IInv, [Next]_vars PROVE IInv'
  OBVIOUS
<1>1. ASSUME NEW h \in Hosts, Step(h)
      PROVE  IInv'
  <2>1. TypeOK' /\ RecordIsIn'
    BY <1>1, StepTyped DEF IInv
  <2>2. ~overlap' => ~overlap
    BY <1>1 DEF Step, Start, Acquire, Create, WriteRecord, Examine, RemoveStale,
                StartRelease, ReadOwn, RemoveOwn, Crash
  <2>3. ~overlap' => Orderly'
    BY <1>1, <2>2, StepOrderly DEF IInv
  <2> QED
    BY <2>1, <2>3 DEF IInv
<1>2. ASSUME NEW p \in Pids, OtherStarts(p) \/ OtherEnds(p)
      PROVE  IInv'
  BY <1>2 DEF OtherStarts, OtherEnds, IInv, TypeOK, RecordIsIn, Orderly, OneAcquirer, WritesInPlace,
              StaleIsStale, Recorded
<1>3. CASE UNCHANGED vars
  BY <1>3 DEF vars, IInv, TypeOK, RecordIsIn, Orderly, OneAcquirer, WritesInPlace, StaleIsStale, Recorded
<1> QED
  BY <1>1, <1>2, <1>3 DEF Next, Step

LEMMA SpecInv == Spec => []IInv
  BY InitInv, NextInv, PTL DEF Spec
-------------------------------------------------------------------------------
(* The lock file is always one somebody made and may still answer for: a     *)
(* host that stopped or was refused leaves none behind.                      *)
THEOREM TypeOKHolds == Spec => []TypeOK
<1>1. IInv => TypeOK
  BY DEF IInv
<1> QED
  BY <1>1, SpecInv, PTL

(* While a host serves, the lock at the path is its own.                     *)
THEOREM ServingIsRecordedHolds == Spec => []ServingIsRecorded
<1>1. IInv => ServingIsRecorded
  BY DEF IInv, Orderly, Recorded, ServingIsRecorded
<1> QED
  BY <1>1, SpecInv, PTL

(* Two hosts never serve one data directory, as long as they do not acquire  *)
(* its lock at the same time.                                                *)
THEOREM OneHostAtATimeHolds == Spec => []OneHostAtATime
<1>1. IInv => OneHostAtATime
  BY DEF IInv, Orderly, Recorded, OneHostAtATime
<1> QED
  BY <1>1, SpecInv, PTL
===============================================================================
