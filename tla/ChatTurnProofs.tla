---------------------------- MODULE ChatTurnProofs ----------------------------
(***************************************************************************)
(* Theorems about ChatTurn, for any set of requests and any bound on the   *)
(* storage faults: one generation at a time, a Stop that reaches whatever  *)
(* holds the chat, a log that keeps its types and gets every reply, and,   *)
(* in the last part, the promise of ChatPromise.                           *)
(***************************************************************************)
EXTENDS ChatTurn, FiniteSetTheorems, TLAPS

Generating == {"thrown", "preparing", "streaming", "settling"}

\* The controller in the slot belongs to the request that holds the chat: the
\* claim's own before `begin`, the generation's signal after it.
SlotOwned ==
  \A r \in Requests :
    /\ pc[r] = "compacting" => slot = <<r, "claim">> /\ claimed
    /\ pc[r] \in Generating =>
         slot = ctl[r] /\ ctl[r] = <<r, "claim">> /\ ~claimed

\* The pending row belongs to a request that has begun.
PendingOwned ==
  pending # None => pc[pending.req] \in Generating

\* Once Stop was pressed on a holder, or the chat was let go, the controller
\* in the slot is aborted, and it stays the holder's until it finishes.
StopReached ==
  \A r \in Requests : Holds(r) /\ (r \in told \/ ~live) => slot \in stopped

\* A request Stop found holding the chat had arrived.
ToldArrived == \A r \in told : pc[r] # "new"

SlotHeld == SlotOwned /\ PendingOwned /\ StopReached /\ ToldArrived

\* The inductive invariant: a failed settle clears a slot it may not own.
SlotInv == SlotTypeOK /\ (faults = 0 => SlotHeld)
-------------------------------------------------------------------------------
(* Every step keeps the slot's typing.                                       *)

LEMMA SlotTypeInit == Init => SlotTypeOK
<1> SUFFICES ASSUME Init PROVE SlotTypeOK
  OBVIOUS
<1>1. faults \in 0 .. MaxFaults
  BY ChatTurnAssumption DEF Init
<1>2. /\ slot \in Controllers \cup {None} /\ claimed \in BOOLEAN
      /\ pending \in [req : Requests, text : BOOLEAN] \cup {None}
      /\ sideCalls \subseteq Controllers /\ stopped \subseteq Controllers
      /\ live \in BOOLEAN
      /\ calls \subseteq Requests \X {"summary", "turn", "side"}
      /\ told \subseteq Requests
  BY DEF Init
<1>3. /\ kind \in [Requests -> Kinds \cup {None}]
      /\ pc \in [Requests -> Places]
      /\ ctl \in [Requests -> Controllers \cup {None}]
      /\ outcome \in [Requests -> {"none", "completed", "aborted"}]
  BY DEF Init, Places
<1> QED
  BY <1>1, <1>2, <1>3 DEF SlotTypeOK

LEMMA SlotTypeStep == SlotTypeOK /\ [Next]_vars => SlotTypeOK'
<1> SUFFICES ASSUME SlotTypeOK, [Next]_vars PROVE SlotTypeOK'
  OBVIOUS
<1> USE ChatTurnAssumption DEF SlotTypeOK, Controllers, Goto, Places, Holding,
        Settling, Kinds, TurnKinds, EditKinds
<1>1. CASE Stop
  BY <1>1 DEF Stop, Abort, handler, conversation
<1>2. CASE LetGo
  BY <1>2 DEF LetGo, Abort, handler, conversation
<1>3. CASE UNCHANGED vars
  BY <1>3 DEF vars, entry, conversation, handler, observed
<1>4. ASSUME NEW r \in Requests, Arrive(r)
      PROVE  SlotTypeOK'
  <2>1. CASE StartTurn(r)
    BY <2>1 DEF StartTurn, Claim, conversation
  <2>2. CASE StartCompact(r)
    BY <2>2 DEF StartCompact, Claim, conversation
  <2>3. CASE StartSide(r)
    BY <2>3 DEF StartSide, conversation, observed
  <2>4. CASE StartEdit(r)
    BY <2>4 DEF StartEdit, entry, conversation, observed
  <2>5. CASE Refuse(r)
    BY <2>5 DEF Refuse, entry, conversation, observed
  <2> QED
    BY <1>4, <2>1, <2>2, <2>3, <2>4, <2>5 DEF Arrive
<1>5. ASSUME NEW r \in Requests, Work(r)
      PROVE  SlotTypeOK'
  <2>1. CASE CompactDone(r)
    BY <2>1 DEF CompactDone, Release, conversation, observed
  <2>2. CASE Begin(r)
    BY <2>2 DEF Begin, BeginSlot, Signal
  <2>3. CASE BeginRefused(r) \/ Announced(r) \/ SnapshotFails(r)
    BY <2>3 DEF BeginRefused, Announced, SnapshotFails, entry, conversation, observed
  <2>4. CASE SendRequest(r)
    BY <2>4 DEF SendRequest, entry, conversation
  <2>5. CASE Text(r)
    BY <2>5 DEF Text, conversation, handler, observed
  <2>6. CASE StreamCompletes(r) \/ StoppedWithText(r)
    BY <2>6 DEF StreamCompletes, StoppedWithText, entry, observed
  <2>7. CASE StreamFails(r)
    BY <2>7 DEF StreamFails, Finish, conversation, observed
  <2>8. CASE FailSaved(r) \/ Saved(r)
    BY <2>8 DEF FailSaved, Saved, entry, conversation
  <2>9. CASE Settled(r)
    BY <2>9 DEF Settled, Finish, observed
  <2>10. CASE SettleThrows(r)
    <3>1. faults' \in 0 .. MaxFaults
      BY <2>10 DEF SettleThrows
    <3>2. /\ slot' = None /\ claimed' = FALSE /\ pending' = None
          /\ pc' = [pc EXCEPT ![r] = "done"]
          /\ UNCHANGED <<sideCalls, stopped, live, kind, ctl, outcome, calls, told>>
      BY <2>10 DEF SettleThrows, Finish
    <3> QED
      BY <3>1, <3>2
  <2>11. CASE SideSends(r)
    BY <2>11 DEF SideSends, entry, conversation, handler
  <2>12. CASE SideDone(r)
    BY <2>12 DEF SideDone, conversation, observed
  <2>13. CASE Rebuild(r)
    BY <2>13 DEF Rebuild, entry, observed
  <2>14. CASE StartThrows(r)
    BY <2>14 DEF StartThrows, BeginSlot, Signal, conversation, observed
  <2> QED
    BY <1>5, <2>1, <2>2, <2>3, <2>4, <2>5, <2>6, <2>7, <2>8, <2>9, <2>10,
       <2>11, <2>12, <2>13, <2>14 DEF Work
<1> QED
  BY <1>1, <1>2, <1>3, <1>4, <1>5 DEF Next

\* The slot, the claims and the requests around them stay well typed.
THEOREM SlotTyped == Spec => []SlotTypeOK
  BY SlotTypeInit, SlotTypeStep, PTL DEF Spec
-------------------------------------------------------------------------------
(* Every step keeps the slot with its holder.                                *)

LEMMA ClaimIsAController ==
  ASSUME NEW r \in Requests
  PROVE  <<r, "claim">> \in Controllers /\ <<r, "claim">> # None
  BY ChatTurnAssumption DEF Controllers

LEMMA StopKeepsSlotHeld ==
  ASSUME SlotTypeOK, SlotHeld, Abort, UNCHANGED <<slot, claimed, pending, pc, ctl>>
  PROVE  SlotHeld'
<1> USE DEF SlotHeld, SlotTypeOK
<1>1. SlotOwned' /\ PendingOwned'
  BY DEF SlotOwned, PendingOwned
<1>2. ToldArrived'
  BY DEF ToldArrived, Abort, Holds, Holding
<1>3. StopReached'
  <2> SUFFICES ASSUME NEW r \in Requests, Holds(r) PROVE slot \in stopped'
    BY DEF StopReached, Holds
  <2>1. slot = <<r, "claim">>
    BY DEF SlotOwned, Holds, Holding, Generating
  <2> QED
    BY <2>1, ClaimIsAController DEF Abort
<1> QED
  BY <1>1, <1>2, <1>3

LEMMA ArriveKeepsSlotHeld ==
  ASSUME SlotTypeOK, SlotHeld, NEW r \in Requests, Arrive(r)
  PROVE  SlotHeld'
<1> USE ClaimIsAController DEF SlotHeld, SlotTypeOK, SlotOwned, PendingOwned,
        StopReached, ToldArrived, Holds, Holding, Generating, Goto
<1>1. CASE StartTurn(r)
  BY <1>1 DEF StartTurn, Claim, conversation
<1>2. CASE StartCompact(r)
  BY <1>2 DEF StartCompact, Claim, conversation
<1>3. CASE StartSide(r)
  BY <1>3 DEF StartSide, conversation, observed
<1>4. CASE StartEdit(r)
  BY <1>4 DEF StartEdit, entry, conversation, observed
<1>5. CASE Refuse(r)
  BY <1>5 DEF Refuse, entry, conversation, observed
<1> QED
  BY <1>1, <1>2, <1>3, <1>4, <1>5 DEF Arrive

LEMMA WorkKeepsSlotHeld ==
  ASSUME SlotTypeOK, SlotHeld, NEW r \in Requests, Work(r), ~SettleThrows(r)
  PROVE  SlotHeld'
<1> USE ClaimIsAController DEF SlotHeld, SlotTypeOK, SlotOwned, PendingOwned,
        StopReached, ToldArrived, Holds, Holding, Generating, Goto
<1>1. CASE CompactDone(r)
  BY <1>1 DEF CompactDone, Release, conversation, observed
<1>2. CASE Begin(r) \/ StartThrows(r)
  <2>1. slot' = slot /\ slot = <<r, "claim">> /\ claimed' = FALSE
    BY <1>2 DEF Begin, StartThrows, BeginSlot, Signal
  <2>2. /\ pending'.req = r /\ ctl' = [ctl EXCEPT ![r] = slot]
        /\ pc' = [pc EXCEPT ![r] = "preparing"] \/ pc' = [pc EXCEPT ![r] = "thrown"]
        /\ UNCHANGED <<stopped, live, told>>
    BY <1>2 DEF Begin, StartThrows, BeginSlot, Signal, observed
  <2>3. /\ pc'[r] \in {"preparing", "thrown"} /\ ctl'[r] = <<r, "claim">>
        /\ \A q \in Requests \ {r} : pc'[q] = pc[q] /\ ctl'[q] = ctl[q]
    BY <2>1, <2>2
  <2>4. \A q \in Requests \ {r} : pc[q] \notin Holding
    BY <2>1
  <2>5. pc[r] = "compacting"
    BY <1>2 DEF Begin, StartThrows
  <2> QED
    BY <2>1, <2>2, <2>3, <2>4, <2>5
<1>3. CASE BeginRefused(r)
  BY <1>3 DEF BeginRefused, Adopting
<1>4. CASE SendRequest(r)
  BY <1>4 DEF SendRequest, entry, conversation
<1>5. CASE Text(r)
  BY <1>5 DEF Text, conversation, handler, observed
<1>6. CASE StreamCompletes(r) \/ StoppedWithText(r)
  BY <1>6 DEF StreamCompletes, StoppedWithText, Unfinished, entry, observed
<1>7. CASE StreamFails(r)
  BY <1>7 DEF StreamFails, Unfinished, Finish, conversation, observed
<1>8. CASE FailSaved(r) \/ Saved(r)
  BY <1>8 DEF FailSaved, Saved, entry, conversation
<1>9. CASE Settled(r)
  BY <1>9 DEF Settled, Finish, observed
<1>10. CASE Announced(r) \/ SnapshotFails(r)
  BY <1>10 DEF Announced, SnapshotFails, entry, conversation, observed
<1>11. CASE SideSends(r)
  BY <1>11 DEF SideSends, entry, conversation, handler
<1>12. CASE SideDone(r)
  BY <1>12 DEF SideDone, conversation, observed
<1>13. CASE Rebuild(r)
  BY <1>13 DEF Rebuild, entry, observed
<1> QED
  BY <1>1, <1>2, <1>3, <1>4, <1>5, <1>6, <1>7, <1>8, <1>9, <1>10, <1>11,
     <1>12, <1>13 DEF Work
-------------------------------------------------------------------------------
(* The invariant, and what it gives.                                         *)

LEMMA SlotInvInit == Init => SlotInv
<1> SUFFICES ASSUME Init PROVE SlotInv
  OBVIOUS
<1>1. SlotHeld
  BY DEF Init, SlotHeld, SlotOwned, PendingOwned, StopReached, ToldArrived, Holds,
         Holding, Generating
<1> QED
  BY <1>1, SlotTypeInit DEF SlotInv

\* No step repairs a failed settle.
LEMMA FaultsCount ==
  ASSUME SlotTypeOK, [Next]_vars, faults' = 0
  PROVE  faults = 0 /\ \A r \in Requests : ~SettleThrows(r)
<1>1. ASSUME NEW r \in Requests, SettleThrows(r)
      PROVE  FALSE
  BY <1>1 DEF SettleThrows, SlotTypeOK
<1>2. ASSUME NEW r \in Requests, Arrive(r) \/ Work(r)
      PROVE  faults = 0
  <2>1. CASE Arrive(r)
    BY <2>1 DEF Arrive, StartTurn, StartCompact, StartSide, StartEdit, Refuse, observed
  <2>2. CASE Work(r)
    BY <2>2, <1>1 DEF Work, CompactDone, Begin, StartThrows, BeginRefused, SendRequest, Text,
       StreamCompletes, StoppedWithText, StreamFails, FailSaved, Settled, Saved,
       Announced, SideSends, SideDone, Rebuild, SnapshotFails, observed
  <2> QED
    BY <1>2, <2>1, <2>2
<1>3. CASE Stop \/ LetGo
  BY <1>1, <1>3 DEF Stop, LetGo
<1>4. CASE UNCHANGED vars
  BY <1>1, <1>4 DEF vars, observed
<1> QED
  BY <1>1, <1>2, <1>3, <1>4 DEF Next

LEMMA SlotInvStep == SlotInv /\ [Next]_vars => SlotInv'
<1> SUFFICES ASSUME SlotInv, [Next]_vars, faults' = 0 PROVE SlotHeld'
  BY SlotTypeStep DEF SlotInv
<1>1. SlotTypeOK /\ SlotHeld /\ \A r \in Requests : ~SettleThrows(r)
  BY FaultsCount DEF SlotInv
<1>2. CASE \E r \in Requests : Arrive(r)
  BY <1>1, <1>2, ArriveKeepsSlotHeld
<1>3. CASE \E r \in Requests : Work(r)
  BY <1>1, <1>3, WorkKeepsSlotHeld
<1>4. CASE Stop \/ LetGo
  <2>1. Abort /\ UNCHANGED <<slot, claimed, pending, pc, ctl>>
    BY <1>4 DEF Stop, LetGo, handler
  <2> QED
    BY <1>1, <2>1, StopKeepsSlotHeld
<1>5. CASE UNCHANGED vars
  BY <1>1, <1>5 DEF vars, entry, handler, observed, SlotHeld, SlotOwned,
     PendingOwned, StopReached, ToldArrived, Holds
<1> QED
  BY <1>2, <1>3, <1>4, <1>5 DEF Next

LEMMA SlotInvAlways == Spec => []SlotInv
  BY SlotInvInit, SlotInvStep, PTL DEF Spec

\* For any number of requests, at most one of them holds the chat as long as
\* no settle has failed.
THEOREM OneGenerationHolds == Spec => []OneGeneration
<1>1. SlotInv => OneGeneration
  BY DEF SlotInv, SlotHeld, SlotOwned, OneGeneration, Holds, Holding, Generating
<1> QED
  BY <1>1, SlotInvAlways, PTL

\* The pending row is the row of the request holding the chat, and its signal
\* is the controller in the slot.
THEOREM PendingIsTheHoldersHolds == Spec => []PendingIsTheHolders
<1>1. SlotInv => PendingIsTheHolders
  BY DEF SlotInv, SlotTypeOK, SlotHeld, SlotOwned, PendingOwned,
         PendingIsTheHolders, Holds, Holding, Generating
<1> QED
  BY <1>1, SlotInvAlways, PTL

\* No turn reaches the provider after a Stop that found its request holding
\* the chat, nor once the conversation was let go.
THEOREM StoppedTurnsSendNothingHolds == Spec => StoppedTurnsSendNothing
<1> DEFINE Quiet == faults = 0 =>
                      \A r \in Requests :
                        <<r, "turn">> \in calls' \ calls => r \notin told /\ live
<1>1. SlotInv /\ [Next]_vars => [Quiet]_vars
  <2> SUFFICES ASSUME SlotInv, Next, faults = 0,
                      NEW r \in Requests, <<r, "turn">> \in calls' \ calls
               PROVE  r \notin told /\ live
    OBVIOUS
  <2>1. SendRequest(r)
    <3>1. ASSUME NEW q \in Requests, Arrive(q) PROVE FALSE
      BY <3>1 DEF Arrive, StartTurn, StartCompact, StartSide, StartEdit, Refuse, observed
    <3>2. ASSUME NEW q \in Requests, Work(q) PROVE q = r /\ SendRequest(q)
      BY <3>2 DEF Work, CompactDone, Begin, StartThrows, BeginRefused, SendRequest, Text,
         StreamCompletes, StoppedWithText, StreamFails, FailSaved, Settled, Saved,
         Announced, SettleThrows, SideSends, SideDone, Rebuild, SnapshotFails, observed
    <3>3. ~(Stop \/ LetGo)
      BY DEF Stop, LetGo
    <3> QED
      BY <3>1, <3>2, <3>3 DEF Next
  <2>2. Holds(r) /\ slot = ctl[r] /\ slot \notin stopped
    BY <2>1 DEF SendRequest, SlotInv, SlotHeld, SlotOwned, Holds, Holding, Generating
  <2> QED
    BY <2>2 DEF SlotInv, SlotHeld, StopReached
<1> QED
  BY <1>1, SlotInvAlways, PTL DEF Spec, StoppedTurnsSendNothing
-------------------------------------------------------------------------------
(***************************************************************************)
(* The log's half of the type invariant.  Turns are natural numbers: a     *)
(* reply is only recorded in a turn the log has opened, and an import      *)
(* counts the turns below a line, so the log has to be known finite.       *)
(***************************************************************************)
LogTyped ==
  /\ log \subseteq Line /\ IsFiniteSet(log)
  /\ session \in Nat
  /\ turn \in [Requests -> Nat]
  /\ home \in [Requests -> [session : Nat, turn : Int]]
  /\ seen \in [Requests -> [lines : SUBSET Line, gone : SUBSET Line]]
  /\ \A r \in Requests : IsFiniteSet(seen[r].lines)

\* A driver that sends has a turn of the log to work on.
HasTurn ==
  \A r \in Requests :
    pc[r] = "streaming" \/ (pc[r] = "preparing" /\ kind[r] = "send") =>
      home[r].turn \in Nat

\* A finite nonempty set of naturals has a greatest element: otherwise the
\* number of members below one would map it into a smaller set.
LEMMA Highest ==
  ASSUME NEW S, S \subseteq Nat, S # {}, IsFiniteSet(S)
  PROVE  \E t \in S : \A s \in S : s <= t
<1> DEFINE n == Cardinality(S)
           Below(t) == {u \in S : u < t}
           rank == [t \in S |-> Cardinality(Below(t))]
<1>1. n \in Nat /\ n # 0
  BY FS_CardinalityType, FS_EmptySet
<1>2. \A t \in S : IsFiniteSet(Below(t)) /\ Cardinality(Below(t)) \in Nat
  BY FS_Subset, FS_CardinalityType
<1>3. ASSUME NEW t \in S, NEW s \in S, t < s
      PROVE  Cardinality(Below(t)) \in 0 .. n - 2
  <2>1. IsFiniteSet(S \ {t}) /\ Cardinality(S \ {t}) = n - 1
    BY FS_RemoveElement
  <2>2. Below(t) \subseteq S \ {t} /\ Below(t) # S \ {t}
    BY <1>3
  <2>3. Cardinality(Below(t)) <= n - 1 /\ Cardinality(Below(t)) # n - 1
    BY <2>1, <2>2, FS_Subset
  <2> QED
    BY <1>1, <1>2, <2>3
<1>4. ASSUME NEW s \in S, NEW t \in S, s < t
      PROVE  Cardinality(Below(s)) # Cardinality(Below(t))
  <2>5. s \in Nat /\ t \in Nat /\ \A u \in S : u \in Nat
    OBVIOUS
  <2>1. \A u \in S : u < s => u < t
    BY <1>4, <2>5
  <2>2. Below(s) \subseteq Below(t)
    BY <2>1
  <2>3. s \in Below(t)
    BY <1>4
  <2>4. s \notin Below(s)
    BY <2>5
  <2> QED
    BY <1>2, <2>2, <2>3, <2>4, FS_Subset
<1>5. IsFiniteSet(0 .. n - 2) /\ Cardinality(0 .. n - 2) < n
  <2> HIDE DEF n
  <2>1. n - 2 \in Int /\ IsFiniteSet(0 .. n - 2)
    BY <1>1, FS_Interval
  <2>2. Cardinality(0 .. n - 2) = IF 0 > n - 2 THEN 0 ELSE (n - 2) - 0 + 1
    BY ONLY <2>1, FS_Interval
  <2> QED
    BY <1>1, <2>1, <2>2
<1> SUFFICES ASSUME \A t \in S : \E s \in S : t < s PROVE FALSE
  OBVIOUS
<1>6. rank \in [S -> 0 .. n - 2]
  BY <1>3
<1>7. PICK x, y \in S : x # y /\ rank[x] = rank[y]
  <2> HIDE DEF rank, n
  <2> QED
    BY <1>5, <1>6, FS_PigeonHole DEF n
<1> QED
  BY <1>4, <1>7

LEMMA TurnsOf ==
  ASSUME NEW lines, lines \subseteq Line, IsFiniteSet(lines)
  PROVE  /\ {l.turn : l \in lines} \subseteq Nat /\ IsFiniteSet({l.turn : l \in lines})
         /\ RepliedTurns(lines) \subseteq Nat /\ IsFiniteSet(RepliedTurns(lines))
<1> DEFINE turns == {l.turn : l \in lines}
           first == [l \in lines |-> l.turn]
<1>1. turns \subseteq Nat /\ RepliedTurns(lines) \subseteq turns
  BY DEF Line, RepliedTurns
<1>2. first \in Surjection(lines, turns)
  BY DEF Surjection
<1>3. IsFiniteSet(turns)
  BY <1>2, FS_Surjection
<1> QED
  BY <1>1, <1>3, FS_Subset

\* The highest turn of a log, -1 for the empty one.
LEMMA LastTurnIs ==
  ASSUME NEW lines, lines \subseteq Line, IsFiniteSet(lines)
  PROVE  LastTurn(lines) \in Int /\ LastTurn(lines) + 1 \in Nat
<1>1. CASE lines = {}
  BY <1>1 DEF LastTurn
<1>2. CASE lines # {}
  <2> DEFINE turns == {l.turn : l \in lines}
  <2>1. turns \subseteq Nat /\ turns # {} /\ IsFiniteSet(turns)
    BY <1>2, TurnsOf
  <2>2. \E t \in turns : \A s \in turns : s <= t
    <3> HIDE DEF turns
    <3> QED
      BY <2>1, Highest
  <2>3. \E t \in turns : \A l \in lines : l.turn <= t
    BY <2>2
  <2>4. LastTurn(lines) \in turns
    BY <1>2, <2>3 DEF LastTurn
  <2>5. LastTurn(lines) \in Nat
    BY <2>1, <2>4
  <2> QED
    BY <2>5
<1> QED
  BY <1>1, <1>2

\* An import renumbers the turns and keeps every line.
LEMMA ImportIs ==
  ASSUME NEW lines, lines \subseteq Line, IsFiniteSet(lines)
  PROVE  Import(lines) \subseteq Line /\ IsFiniteSet(Import(lines))
<1> DEFINE Place(l) == Cardinality({t \in RepliedTurns(lines) : t < l.turn})
           Moved(l) == [l EXCEPT !.turn = Place(l)]
           moved == [l \in lines |-> Moved(l)]
<1>1. ASSUME NEW l \in lines
      PROVE  Moved(l) \in Line
  <2>1. Place(l) \in Nat
    BY TurnsOf, FS_Subset, FS_CardinalityType
  <2>2. l \in Line
    OBVIOUS
  <2> HIDE DEF Place
  <2> QED
    BY <2>1, <2>2 DEF Line
<1>2. Import(lines) = {Moved(l) : l \in lines}
  BY DEF Import
<1> HIDE DEF Moved
<1>3. moved \in Surjection(lines, Import(lines))
  BY <1>2 DEF Surjection
<1>4. IsFiniteSet(Import(lines))
  BY <1>3, FS_Surjection
<1> QED
  BY <1>1, <1>2, <1>4

\* One more line.
LEMMA OneMore ==
  ASSUME NEW lines, lines \subseteq Line, IsFiniteSet(lines), NEW l \in Line
  PROVE  lines \cup {l} \subseteq Line /\ IsFiniteSet(lines \cup {l})
  BY FS_AddElement

LEMMA LineOf ==
  ASSUME NEW r \in Requests, NEW t \in Nat
  PROVE  UserLine(t, r) \in Line /\ Reply(t, r) \in Line
  BY DEF UserLine, Reply, Line

LEMMA LogInit == Init => LogTyped /\ HasTurn
<1> SUFFICES ASSUME Init PROVE LogTyped /\ HasTurn
  OBVIOUS
<1>1. log = {Reply(0, None)} /\ Reply(0, None) \in Line /\ IsFiniteSet({Reply(0, None)})
  BY FS_Singleton DEF Init, Reply, Line
<1>2. \A r \in Requests : IsFiniteSet(seen[r].lines)
  BY FS_EmptySet DEF Init
<1> QED
  BY <1>1, <1>2 DEF Init, LogTyped, HasTurn

LEMMA ArriveKeepsLog ==
  ASSUME SlotTypeOK, LogTyped, HasTurn, NEW r \in Requests, Arrive(r)
  PROVE  LogTyped' /\ HasTurn'
<1> USE DEF SlotTypeOK, LogTyped, HasTurn, Goto
<1>1. CASE StartTurn(r)
  <2>1. PICK k \in TurnKinds :
          /\ Valid(k)
          /\ turn' = [turn EXCEPT ![r] = RequestTurn(k)]
          /\ kind' = [kind EXCEPT ![r] = k]
    BY <1>1 DEF StartTurn
  <2>2. RequestTurn(k) \in Nat
    BY <2>1, LastTurnIs DEF Valid, RequestTurn
  <2>3. turn' \in [Requests -> Nat]
    BY <2>1, <2>2
  <2>4. UNCHANGED <<log, session, home, seen>> /\ pc' = [pc EXCEPT ![r] = "compacting"]
    BY <1>1 DEF StartTurn, conversation
  <2> QED
    BY <2>1, <2>3, <2>4
<1>2. CASE StartEdit(r)
  <2>1. PICK k \in EditKinds, gone \in FileLines(log) \cup {{}} :
          /\ kind' = [kind EXCEPT ![r] = k]
          /\ seen' = [seen EXCEPT ![r] =
               [lines |-> IF k = "rewrite" THEN {} ELSE log, gone |-> gone]]
    BY <1>2 DEF StartEdit
  <2>2. gone \subseteq Line
    BY DEF FileLines
  <2>3. PICK lines \in SUBSET Line :
          IsFiniteSet(lines) /\ seen' = [seen EXCEPT ![r] = [lines |-> lines, gone |-> gone]]
    BY <2>1, FS_EmptySet
  <2>4. /\ seen' \in [Requests -> [lines : SUBSET Line, gone : SUBSET Line]]
        /\ \A q \in Requests : IsFiniteSet(seen'[q].lines)
    BY <2>2, <2>3
  <2>5. UNCHANGED <<log, session, turn, home>> /\ pc' = [pc EXCEPT ![r] = "snapshotting"]
    BY <1>2 DEF StartEdit, conversation
  <2> QED
    BY <2>1, <2>4, <2>5
<1>3. CASE StartCompact(r) \/ StartSide(r) \/ Refuse(r)
  BY <1>3 DEF StartCompact, StartSide, Refuse, conversation
<1> QED
  BY <1>1, <1>2, <1>3 DEF Arrive

LEMMA WorkKeepsLog ==
  ASSUME SlotTypeOK, LogTyped, HasTurn, NEW r \in Requests, Work(r)
  PROVE  LogTyped' /\ HasTurn'
<1> USE DEF SlotTypeOK, LogTyped, HasTurn, Goto
<1>1. LastTurn(log) \in Int /\ LastTurn(log) + 1 \in Nat
  BY LastTurnIs
<1>2. CASE Begin(r)
  <2>1. PICK at \in Int :
          /\ home' = [home EXCEPT ![r] = [session |-> session, turn |-> at]]
          /\ kind[r] = "send" => at \in Nat
    <3>1. CASE kind[r] \in {"send", "impersonate"}
      <4> DEFINE opened == LastTurn(log) + 1
      <4>1. home' = [home EXCEPT ![r] = [session |-> session, turn |-> opened]]
        BY <1>2, <3>1 DEF Begin
      <4>2. opened \in Nat /\ opened \in Int
        BY <1>1
      <4> HIDE DEF opened
      <4> QED
        BY <4>1, <4>2
    <3>2. CASE kind[r] \notin {"send", "impersonate"}
      BY <1>1, <1>2, <3>2 DEF Begin
    <3> QED
      BY <3>1, <3>2
  <2>2. log' \subseteq Line /\ IsFiniteSet(log')
    BY <1>1, <1>2, LineOf, OneMore DEF Begin
  <2>3. UNCHANGED <<session, kind, turn, seen>> /\ pc' = [pc EXCEPT ![r] = "preparing"]
    BY <1>2 DEF Begin
  <2> QED
    BY <2>1, <2>2, <2>3
<1>3. CASE SendRequest(r)
  BY <1>3 DEF SendRequest, conversation
<1>4. CASE StreamCompletes(r)
  <2>1. home[r].turn \in Nat
    BY <1>4 DEF StreamCompletes
  <2>2. log' \subseteq Line /\ IsFiniteSet(log')
    BY <1>1, <1>4, <2>1, LineOf, OneMore DEF StreamCompletes
  <2> QED
    BY <1>4, <2>2 DEF StreamCompletes
<1>5. CASE StoppedWithText(r)
  <2>1. log' \subseteq Line /\ IsFiniteSet(log')
    BY <1>1, <1>5, LineOf, OneMore DEF StoppedWithText
  <2> QED
    BY <1>5, <2>1 DEF StoppedWithText
<1>6. CASE Settled(r)
  <2>1. log' \subseteq Line /\ IsFiniteSet(log') /\ session' \in Nat
    BY <1>6, ImportIs DEF Settled, conversation
  <2> QED
    BY <1>6, <2>1 DEF Settled
<1>7. CASE Rebuild(r)
  <2>1. /\ seen[r].lines \ seen[r].gone \subseteq Line
        /\ IsFiniteSet(seen[r].lines \ seen[r].gone)
    BY FS_Subset
  <2>2. log' \subseteq Line /\ IsFiniteSet(log') /\ session' \in Nat
    BY <1>7, <2>1, ImportIs DEF Rebuild
  <2> QED
    BY <1>7, <2>2 DEF Rebuild
<1>8. CASE ~(\/ Begin(r) \/ SendRequest(r) \/ StreamCompletes(r)
             \/ StoppedWithText(r) \/ Settled(r) \/ Rebuild(r))
  BY <1>8 DEF Work, CompactDone, StartThrows, BeginRefused, Text, StreamFails, FailSaved, Saved,
     Announced, SettleThrows, SideSends, SideDone, SnapshotFails, conversation, handler
<1> QED
  BY <1>2, <1>3, <1>4, <1>5, <1>6, <1>7, <1>8

LEMMA LogStep ==
  ASSUME SlotTypeOK, LogTyped, HasTurn, [Next]_vars
  PROVE  LogTyped' /\ HasTurn'
<1>1. CASE Stop \/ LetGo
  BY <1>1 DEF Stop, LetGo, conversation, handler, LogTyped, HasTurn
<1>2. CASE UNCHANGED vars
  BY <1>2 DEF vars, conversation, handler, LogTyped, HasTurn
<1> QED
  BY <1>1, <1>2, ArriveKeepsLog, WorkKeepsLog DEF Next
-------------------------------------------------------------------------------
(***************************************************************************)
(* The reply is in the log the host shows.  The driver appends to the      *)
(* session it was handed, so what has to be known is that nobody replaced  *)
(* it: another turn's settle cannot run while this one holds the chat, and *)
(* an edit, which could, is excluded by the property.                      *)
(***************************************************************************)
Unedited == \A r \in Requests : pc[r] # "new" => kind[r] \notin EditKinds

\* Edits are what waits for a snapshot, and a request still at its driver
\* has the session of the entry.
SessionKept ==
  /\ \A r \in Requests : pc[r] = "snapshotting" => kind[r] \in EditKinds
  /\ faults = 0 /\ Unedited =>
       \A r \in Requests : Unfinished(r) => home[r].session = session

LogInv == SlotInv /\ LogTyped /\ HasTurn /\ SessionKept
-------------------------------------------------------------------------------
\* An edit that has arrived stays one.
LEMMA UneditedBefore ==
  ASSUME SlotTypeOK, [Next]_vars, Unedited'
  PROVE  Unedited
<1> SUFFICES ASSUME NEW q \in Requests, pc[q] # "new"
             PROVE  pc'[q] # "new" /\ kind'[q] = kind[q]
  BY DEF Unedited
<1> USE DEF SlotTypeOK, Goto
<1>1. ASSUME NEW r \in Requests, Arrive(r)
      PROVE  pc'[q] # "new" /\ kind'[q] = kind[q]
  <2>1. pc[r] = "new"
    BY <1>1 DEF Arrive, StartTurn, StartCompact, StartSide, StartEdit, Refuse
  <2>2. /\ \E k \in Kinds : kind' = [kind EXCEPT ![r] = k]
        /\ \E place \in Places \ {"new"} : pc' = [pc EXCEPT ![r] = place]
    <3>1. Offered[r] \subseteq Kinds
      BY ChatTurnAssumption
    <3> QED
      BY <1>1, <3>1 DEF Arrive, StartTurn, StartCompact, StartSide, StartEdit,
         Refuse, Kinds, TurnKinds, EditKinds, Places, Holding
  <2> QED
    BY <2>1, <2>2
<1>2. ASSUME NEW r \in Requests, Work(r)
      PROVE  pc'[q] # "new" /\ kind'[q] = kind[q]
  BY <1>2 DEF Work, CompactDone, Begin, StartThrows, BeginRefused, SendRequest, Text,
     StreamCompletes, StoppedWithText, StreamFails, FailSaved, Settled, Saved,
     Announced, SettleThrows, SideSends, SideDone, Rebuild, SnapshotFails, handler
<1>3. CASE Stop \/ LetGo
  BY <1>3 DEF Stop, LetGo, handler
<1>4. CASE UNCHANGED vars
  BY <1>4 DEF vars, handler
<1> QED
  BY <1>1, <1>2, <1>3, <1>4 DEF Next

\* Edits are the requests that wait for a snapshot.
LEMMA SnapshotsAreEdits ==
  ASSUME SlotTypeOK, [Next]_vars,
         \A r \in Requests : pc[r] = "snapshotting" => kind[r] \in EditKinds
  PROVE  \A r \in Requests : pc'[r] = "snapshotting" => kind'[r] \in EditKinds
<1> USE DEF SlotTypeOK, Goto
<1>1. ASSUME NEW r \in Requests, Arrive(r)
      PROVE  \A q \in Requests : pc'[q] = "snapshotting" => kind'[q] \in EditKinds
  <2>1. CASE StartEdit(r)
    BY <2>1 DEF StartEdit
  <2>2. CASE StartTurn(r) \/ StartCompact(r) \/ StartSide(r) \/ Refuse(r)
    BY <2>2 DEF StartTurn, StartCompact, StartSide, Refuse
  <2> QED
    BY <1>1, <2>1, <2>2 DEF Arrive
<1>2. ASSUME NEW r \in Requests, Work(r)
      PROVE  \A q \in Requests : pc'[q] = "snapshotting" => kind'[q] \in EditKinds
  BY <1>2 DEF Work, CompactDone, Begin, StartThrows, BeginRefused, SendRequest, Text,
     StreamCompletes, StoppedWithText, StreamFails, FailSaved, Settled, Saved,
     Announced, SettleThrows, SideSends, SideDone, Rebuild, SnapshotFails, handler
<1>3. CASE Stop \/ LetGo
  BY <1>3 DEF Stop, LetGo, handler
<1>4. CASE UNCHANGED vars
  BY <1>4 DEF vars, handler
<1> QED
  BY <1>1, <1>2, <1>3, <1>4 DEF Next

\* Nothing but the one turn's own start hands it a session, and nothing
\* replaces the session under it.
LEMMA SessionStays ==
  ASSUME LogInv, [Next]_vars, faults' = 0, Unedited',
         NEW q \in Requests, Unfinished(q)'
  PROVE  home'[q].session = session'
<1> USE DEF SlotTypeOK, Goto, Unfinished
<1>1. /\ faults = 0 /\ Unedited /\ SlotTypeOK /\ SlotHeld
      /\ \A r \in Requests : ~SettleThrows(r)
  BY FaultsCount, UneditedBefore DEF LogInv, SlotInv
<1>2. \A r \in Requests : Unfinished(r) => home[r].session = session
  BY <1>1 DEF LogInv, SessionKept
<1>3. ASSUME NEW r \in Requests, Arrive(r)
      PROVE  home'[q].session = session'
  BY <1>1, <1>2, <1>3 DEF Arrive, StartTurn, StartCompact, StartSide, StartEdit,
     Refuse, conversation
<1>4. ASSUME NEW r \in Requests, Work(r)
      PROVE  home'[q].session = session'
  <2>1. CASE Begin(r)
    BY <1>1, <1>2, <2>1 DEF Begin, LogInv, LogTyped
  <2>2. CASE Settled(r)
    <3>1. Unfinished(q) /\ q # r
      BY <1>1, <2>2 DEF Settled
    <3> QED
      BY <1>1, <2>2, <3>1 DEF Settled, SlotHeld, SlotOwned, Generating
  <2>3. CASE Rebuild(r)
    BY <1>1, <2>3 DEF Rebuild, LogInv, SessionKept, Unedited
  <2>4. CASE ~(Begin(r) \/ Settled(r) \/ Rebuild(r))
    BY <1>1, <1>2, <1>4, <2>4 DEF Work, CompactDone, StartThrows, BeginRefused, SendRequest, Text,
       StreamCompletes, StoppedWithText, StreamFails, FailSaved, Saved,
       Announced, SideSends, SideDone, SnapshotFails, conversation, handler
  <2> QED
    BY <2>1, <2>2, <2>3, <2>4
<1>5. CASE Stop \/ LetGo
  BY <1>2, <1>5 DEF Stop, LetGo, conversation, handler
<1>6. CASE UNCHANGED vars
  BY <1>2, <1>6 DEF vars, conversation, handler
<1> QED
  BY <1>3, <1>4, <1>5, <1>6 DEF Next

LEMMA LogInvAlways == Spec => []LogInv
<1>1. Init => LogInv
  BY SlotInvInit, LogInit DEF Init, LogInv, SessionKept, Unfinished
<1>2. LogInv /\ [Next]_vars => LogInv'
  <2> SUFFICES ASSUME LogInv, [Next]_vars PROVE SessionKept'
    BY SlotInvStep, LogStep DEF LogInv, SlotInv
  <2>1. \A r \in Requests : pc'[r] = "snapshotting" => kind'[r] \in EditKinds
    BY SnapshotsAreEdits DEF LogInv, SlotInv, SessionKept
  <2> QED
    BY <2>1, SessionStays DEF SessionKept
<1> QED
  BY <1>1, <1>2, PTL DEF Spec

\* A generation that completes is recorded in the log the entry has by then,
\* for any number of requests none of which is an edit.
THEOREM ReplyRecordedHolds == Spec => ReplyRecorded
<1> DEFINE Kept == (\A s \in Requests : kind[s] \notin EditKinds) =>
                      \A r \in Requests : Completes(r) => Recorded(r)
<1>1. LogInv /\ [Next]_vars => [Kept]_vars
  <2> SUFFICES ASSUME LogInv, Next, \A s \in Requests : kind[s] \notin EditKinds,
                      NEW r \in Requests, Completes(r)
               PROVE  Recorded(r)
    OBVIOUS
  <2>1. StreamCompletes(r)
    <3> USE DEF Completes, LogInv, SlotInv, SlotTypeOK
    <3>1. ASSUME NEW q \in Requests, Arrive(q) PROVE FALSE
      BY <3>1 DEF Arrive, StartTurn, StartCompact, StartSide, StartEdit, Refuse
    <3>2. ASSUME NEW q \in Requests, Work(q) PROVE q = r /\ StreamCompletes(q)
      BY <3>2 DEF Work, CompactDone, Begin, StartThrows, BeginRefused, SendRequest, Text,
         StreamCompletes, StoppedWithText, StreamFails, FailSaved, Settled, Saved,
         Announced, SettleThrows, SideSends, SideDone, Rebuild, SnapshotFails, handler
    <3>3. ~(Stop \/ LetGo)
      BY DEF Stop, LetGo, handler
    <3> QED
      BY <3>1, <3>2, <3>3 DEF Next
  <2>2. home[r].session = session
    BY <2>1 DEF LogInv, SessionKept, Unedited, Completes, StreamCompletes, Unfinished
  <2>3. CASE kind[r] = "impersonate"
    <3>1. UserLine(LastTurn(log) + 1, r) \in log'
      BY <2>1, <2>2, <2>3 DEF StreamCompletes
    <3> QED
      BY <2>3, <3>1 DEF Recorded, UserLine
  <2>4. CASE kind[r] # "impersonate"
    <3>1. Reply(home[r].turn, r) \in log'
      BY <2>1, <2>2, <2>4 DEF StreamCompletes
    <3> QED
      BY <2>4, <3>1 DEF Recorded, Reply
  <2> QED
    BY <2>3, <2>4
<1> QED
  BY <1>1, LogInvAlways, PTL DEF Spec, ReplyRecorded
-------------------------------------------------------------------------------
(***************************************************************************)
(* The refinement: every step of a handler is a step of the promise or     *)
(* leaves what the clients see as it is.                                   *)
(***************************************************************************)
\* What the pages were sent for a request: nothing, the start, the end, or an
\* error.
Unannounced(f) == ~f.start /\ f.end = 0 /\ f.error = 0
Running(f) == f.start /\ f.end = 0 /\ f.error = 0
Ended(f) == f.start /\ f.end = 1 /\ f.error = 0
Failed(f) == f.start /\ f.end = 0 /\ f.error = 1

FrameInv ==
  /\ frames \in [Requests -> [start : BOOLEAN, end : 0 .. 2, error : 0 .. 2]]
  /\ \A r \in Requests :
       /\ pc[r] \in {"new", "compacting", "thrown", "refused", "side", "snapshotting"} =>
            Unannounced(frames[r])
       /\ pc[r] \in {"preparing", "streaming", "settling", "saving", "failsaving"} =>
            Running(frames[r])
       /\ pc[r] = "announcing" => Ended(frames[r])
       /\ pc[r] = "done" =>
            Unannounced(frames[r]) \/ Ended(frames[r]) \/ Failed(frames[r])

\* The slot is never left with a request that does not hold the chat.
SlotTaken == faults = 0 /\ slot # None => Holds(slot[1])

PromiseInv == SlotInv /\ FrameInv /\ SlotTaken
-------------------------------------------------------------------------------
LEMMA FrameStep ==
  ASSUME SlotTypeOK, FrameInv, [Next]_vars
  PROVE  FrameInv'
<1> USE DEF SlotTypeOK, FrameInv, Unannounced, Running, Ended, Failed, Goto
<1>1. CASE Stop \/ LetGo
  BY <1>1 DEF Stop, LetGo, handler
<1>2. CASE UNCHANGED vars
  BY <1>2 DEF vars, handler, observed
<1>3. ASSUME NEW r \in Requests, Arrive(r)
      PROVE  FrameInv'
  <2>1. /\ pc[r] = "new" /\ frames' = frames
        /\ \E place \in {"compacting", "side", "snapshotting", "refused"} :
             pc' = [pc EXCEPT ![r] = place]
    BY <1>3 DEF Arrive, StartTurn, StartCompact, StartSide, StartEdit, Refuse, observed
  <2> QED
    BY <2>1
<1>4. ASSUME NEW r \in Requests, Work(r)
      PROVE  FrameInv'
  <2>1. CASE CompactDone(r) \/ SideDone(r) \/ Rebuild(r)
    <3>1. /\ frames' = frames /\ pc' = [pc EXCEPT ![r] = "done"]
          /\ pc[r] \in {"compacting", "side", "snapshotting"}
      BY <2>1 DEF CompactDone, SideDone, Rebuild, observed
    <3> QED
      BY <3>1
  <2>2. CASE Begin(r)
    <3>1. /\ pc[r] = "compacting" /\ pc' = [pc EXCEPT ![r] = "preparing"]
          /\ frames' = [frames EXCEPT ![r].start = TRUE]
      BY <2>2 DEF Begin
    <3>2. frames[r] \in [start : BOOLEAN, end : 0 .. 2, error : 0 .. 2]
      OBVIOUS
    <3>3. /\ [frames[r] EXCEPT !.start = TRUE] \in [start : BOOLEAN, end : 0 .. 2, error : 0 .. 2]
          /\ Unannounced(frames[r]) => Running([frames[r] EXCEPT !.start = TRUE])
      BY ONLY <3>2 DEF Unannounced, Running
    <3>4. \A s \in Requests : s # r => frames'[s] = frames[s] /\ pc'[s] = pc[s]
      BY <3>1
    <3>5. frames' \in [Requests -> [start : BOOLEAN, end : 0 .. 2, error : 0 .. 2]]
      BY <3>1, <3>3
    <3>6. pc'[r] = "preparing" /\ Running(frames'[r])
      BY <3>1, <3>3
    <3> QED
      BY <3>4, <3>5, <3>6
  <2>3. CASE StartThrows(r) \/ BeginRefused(r) \/ SnapshotFails(r)
    BY <2>3 DEF StartThrows, BeginRefused, SnapshotFails, observed
  <2>4. CASE SendRequest(r) \/ StreamCompletes(r) \/ StoppedWithText(r)
    BY <2>4 DEF SendRequest, StreamCompletes, StoppedWithText, Unfinished, observed
  <2>5. CASE Text(r) \/ SideSends(r)
    BY <2>5 DEF Text, SideSends, handler, observed
  <2>6. CASE StreamFails(r) \/ Settled(r)
    BY <2>6 DEF StreamFails, Settled, Unfinished, observed
  <2>7. CASE FailSaved(r)
    <3>1. /\ pc[r] = "failsaving" /\ pc' = [pc EXCEPT ![r] = "done"]
          /\ frames' = [frames EXCEPT ![r].error = @ + 1]
      BY <2>7 DEF FailSaved
    <3> QED
      BY <3>1
  <2>8. CASE Saved(r)
    <3>1. /\ pc[r] = "saving" /\ pc' = [pc EXCEPT ![r] = "announcing"]
          /\ frames' = [frames EXCEPT ![r].end = @ + 1]
      BY <2>8 DEF Saved
    <3> QED
      BY <3>1
  <2>9. CASE Announced(r)
    BY <2>9 DEF Announced, observed
  <2>10. CASE SettleThrows(r)
    <3>1. /\ pc[r] \in {"settling", "saving", "announcing"}
          /\ pc' = [pc EXCEPT ![r] = "done"]
          /\ frames' = IF pc[r] = "announcing" THEN frames
                       ELSE [frames EXCEPT ![r].error = @ + 1]
      BY <2>10 DEF SettleThrows, CatchFrames, Settling
    <3>2. CASE pc[r] = "announcing"
      BY <3>1, <3>2
    <3>3. CASE pc[r] # "announcing"
      BY <3>1, <3>3
    <3> QED
      BY <3>2, <3>3
  <2> QED
    BY <1>4, <2>1, <2>2, <2>3, <2>4, <2>5, <2>6, <2>7, <2>8, <2>9, <2>10 DEF Work
<1> QED
  BY <1>1, <1>2, <1>3, <1>4 DEF Next
-------------------------------------------------------------------------------
\* As long as no settle has failed, the one that holds the chat is the one
\* whose controller is in the slot.
LEMMA HolderOfSlot ==
  ASSUME SlotInv, SlotTaken, faults = 0
  PROVE  /\ slot # None => slot[1] \in Requests /\ slot = <<slot[1], "claim">>
         /\ \A q \in Requests : Holds(q) <=> slot # None /\ q = slot[1]
<1> USE DEF SlotInv, SlotHeld, SlotTypeOK, SlotOwned, SlotTaken, Holds, Holding, Generating
<1>1. ASSUME NEW q \in Requests, Holds(q)
      PROVE  slot # None /\ slot = <<q, "claim">>
  BY <1>1, ClaimIsAController
<1>2. slot # None => slot[1] \in Requests
  BY DEF Controllers
<1> QED
  BY <1>1, <1>2

LEMMA SlotTakenStep ==
  ASSUME PromiseInv, [Next]_vars
  PROVE  SlotTaken'
<1> SUFFICES ASSUME faults' = 0, slot' # None
             PROVE  Holds(slot[1])'
  BY DEF SlotTaken
<1>1. /\ faults = 0 /\ \A r \in Requests : ~SettleThrows(r)
      /\ SlotInv /\ SlotTypeOK /\ SlotTaken
  BY FaultsCount DEF PromiseInv, SlotInv
<1>2. /\ slot # None => slot[1] \in Requests /\ slot = <<slot[1], "claim">>
      /\ \A q \in Requests : Holds(q) <=> slot # None /\ q = slot[1]
  BY <1>1, HolderOfSlot
<1> USE DEF Holds, Holding, Goto, SlotTypeOK
<1>3. CASE Stop \/ LetGo
  BY <1>1, <1>2, <1>3 DEF Stop, LetGo, handler
<1>4. CASE UNCHANGED vars
  BY <1>1, <1>2, <1>4 DEF vars, entry, handler
<1>5. ASSUME NEW r \in Requests, Arrive(r)
      PROVE  Holds(slot[1])'
  <2>1. pc[r] = "new"
    BY <1>5 DEF Arrive, StartTurn, StartCompact, StartSide, StartEdit, Refuse
  <2>2. CASE slot' = slot
    <3>1. \E place \in Places : pc' = [pc EXCEPT ![r] = place]
      BY <1>5 DEF Arrive, StartTurn, StartCompact, StartSide, StartEdit, Refuse, Places
    <3> QED
      BY <1>1, <1>2, <2>1, <2>2, <3>1
  <2>3. CASE slot' # slot
    <3>1. slot' = <<r, "claim">> /\ pc' = [pc EXCEPT ![r] = "compacting"]
      BY <1>5, <2>3 DEF Arrive, StartTurn, StartCompact, StartSide, StartEdit,
         Refuse, Claim, entry
    <3> QED
      BY <1>1, <3>1
  <2> QED
    BY <2>2, <2>3
<1>6. ASSUME NEW r \in Requests, Work(r)
      PROVE  Holds(slot[1])'
  <2>1. CASE StreamFails(r) \/ Settled(r)
    BY <2>1 DEF StreamFails, Settled, Finish
  <2>2. CASE CompactDone(r)
    <3>1. slot' = slot /\ slot[1] # r /\ pc' = [pc EXCEPT ![r] = "done"]
      BY <1>1, <2>2 DEF CompactDone, Release, SlotInv, SlotHeld, SlotOwned
    <3> QED
      BY <1>1, <1>2, <3>1
  <2>3. CASE Begin(r) \/ StartThrows(r)
    <3>1. /\ slot' = slot
          /\ pc' = [pc EXCEPT ![r] = "preparing"] \/ pc' = [pc EXCEPT ![r] = "thrown"]
      BY <1>1, <2>3, ClaimIsAController DEF Begin, StartThrows, BeginSlot, Signal, SlotInv,
         SlotHeld, SlotOwned
    <3> QED
      BY <1>1, <1>2, <3>1
  <2>4. CASE BeginRefused(r)
    BY <1>1, <2>4 DEF BeginRefused, Adopting, SlotInv, SlotHeld, SlotOwned
  <2>5. CASE SendRequest(r) \/ StreamCompletes(r) \/ StoppedWithText(r)
    <3>1. /\ slot' = slot
          /\ pc' = [pc EXCEPT ![r] = "streaming"] \/ pc' = [pc EXCEPT ![r] = "settling"]
      BY <2>5 DEF SendRequest, StreamCompletes, StoppedWithText, entry
    <3> QED
      BY <1>1, <1>2, <3>1
  <2>6. CASE Text(r) \/ SideSends(r)
    BY <1>1, <1>2, <2>6 DEF Text, SideSends, entry, handler
  <2>7. CASE \/ FailSaved(r) \/ Saved(r) \/ Announced(r)
             \/ SideDone(r) \/ Rebuild(r) \/ SnapshotFails(r)
    <3>1. /\ slot' = slot /\ ~Holds(r)
          /\ \E place \in Places : pc' = [pc EXCEPT ![r] = place]
      BY <2>7 DEF FailSaved, Saved, Announced, SideDone, Rebuild, SnapshotFails,
         entry, Places, Settling
    <3> QED
      BY <1>1, <1>2, <3>1
  <2> QED
    BY <1>1, <1>6, <2>1, <2>2, <2>3, <2>4, <2>5, <2>6, <2>7 DEF Work
<1> QED
  BY <1>3, <1>4, <1>5, <1>6 DEF Next

LEMMA PromiseInvInit == Init => PromiseInv
<1> SUFFICES ASSUME Init PROVE PromiseInv
  OBVIOUS
<1>1. FrameInv
  BY DEF Init, FrameInv, Unannounced
<1> QED
  BY <1>1, SlotInvInit DEF PromiseInv, SlotTaken, Init

LEMMA PromiseInvStep == PromiseInv /\ [Next]_vars => PromiseInv'
  BY SlotInvStep, FrameStep, SlotTakenStep DEF PromiseInv, SlotInv

LEMMA PromiseInvAlways == Spec => []PromiseInv
  BY PromiseInvInit, PromiseInvStep, PTL DEF Spec

\* The slot, the log and what every handler remembers keep their types.
THEOREM TypeOKHolds == Spec => []TypeOK
<1>1. LogInv /\ PromiseInv => TypeOK
  BY DEF LogInv, LogTyped, PromiseInv, SlotInv, FrameInv, TypeOK, LogTypeOK
<1> QED
  BY <1>1, LogInvAlways, PromiseInvAlways, PTL

\* Every announced stream of every request ends with one terminal frame.
THEOREM OneTerminalFrameHolds == Spec => []OneTerminalFrame
<1>1. PromiseInv => OneTerminalFrame
  BY DEF PromiseInv, FrameInv, SlotInv, SlotTypeOK, Places, Holding, Settling,
     Unannounced, Running, Ended, Failed, OneTerminalFrame
<1> QED
  BY <1>1, PromiseInvAlways, PTL
-------------------------------------------------------------------------------
(* Every step, as the clients see it.                                        *)

LEMMA StreamsByPlace ==
  ASSUME FrameInv, NEW r \in Requests
  PROVE  /\ pc[r] \in {"new", "compacting"} => Streams[r] = "none"
         /\ pc[r] \in {"preparing", "streaming", "settling", "saving", "failsaving"} =>
              Streams[r] = "open"
         /\ pc[r] = "announcing" => Streams[r] = "closed"
  BY DEF FrameInv, Unannounced, Running, Ended, Streams, StreamOf

\* A step that sends frames of one request moves its stream alone.
LEMMA StreamsMove ==
  ASSUME NEW r \in Requests, \A q \in Requests \ {r} : frames'[q] = frames[q]
  PROVE  Streams' = [Streams EXCEPT ![r] = StreamOf(frames'[r])]
<1> DEFINE Old(q) == StreamOf(frames[q])
           New(q) == StreamOf(frames'[q])
<1>1. \A q \in Requests \ {r} : New(q) = Old(q)
  OBVIOUS
<1> HIDE DEF Old, New
<1>2. [q \in Requests |-> New(q)] = [[q \in Requests |-> Old(q)] EXCEPT ![r] = New(r)]
  BY <1>1
<1> QED
  BY <1>2 DEF Streams, Old, New

LEMMA StreamsStay ==
  ASSUME frames' = frames
  PROVE  Streams' = Streams
  BY DEF Streams, StreamOf

\* No step but a request's own sends its turn.
LEMMA SentStays ==
  ASSUME \A r \in Requests : <<r, "turn">> \in calls' <=> <<r, "turn">> \in calls
  PROVE  Sent' = Sent
  BY DEF Sent

LEMMA ArrivalKeepsPromise ==
  ASSUME PromiseInv, PromiseInv', NEW r \in Requests, Arrive(r)
  PROVE  Promise!Take(r) \/ UNCHANGED Promise!vars
<1> USE DEF PromiseInv, SlotInv, SlotTypeOK
<1>1. /\ pc[r] = "new" /\ frames' = frames
      /\ UNCHANGED <<live, told, faults>>
      /\ \A q \in Requests : <<q, "turn">> \in calls' <=> <<q, "turn">> \in calls
      /\ slot' = slot \/ (slot = None /\ slot' = <<r, "claim">>)
  BY DEF Arrive, StartTurn, StartCompact, StartSide, StartEdit, Refuse,
     Claim, entry, observed
<1>2. Streams' = Streams /\ Sent' = Sent /\ Streams[r] = "none"
  BY <1>1, StreamsStay, SentStays, StreamsByPlace
<1>3. CASE faults = 0 /\ slot' # slot
  <2>1. Holder = None /\ Holder' = r /\ (faults = 0)' = (faults = 0) /\ (~live)' = ~live
    BY <1>1, <1>3, ClaimIsAController DEF Holder
  <2> QED
    BY <1>1, <1>2, <1>3, <2>1 DEF Promise!Take
<1>4. CASE ~(faults = 0 /\ slot' # slot)
  <2>1. Holder' = Holder
    BY <1>1, <1>4 DEF Holder
  <2> QED
    BY <1>1, <1>2, <2>1 DEF Promise!vars
<1> QED
  BY <1>3, <1>4

\* What the clients see of a step of the host's own work.
WorkKept(r) ==
  \/ Promise!Give(r) \/ Promise!Open(r) \/ Promise!Send(r)
  \/ Promise!Close(r) \/ Promise!Fail(r) \/ UNCHANGED Promise!vars

\* The slot of a request that holds the chat is its own, and the others' not.
LEMMA HolderIs ==
  ASSUME PromiseInv, NEW r \in Requests
  PROVE  /\ faults = 0 /\ Holds(r) => Holder = r
         /\ faults = 0 /\ ~Holds(r) => Holder # r
         /\ faults > 0 => Holder = None
  BY HolderOfSlot, ChatTurnAssumption DEF PromiseInv, SlotInv, SlotTypeOK, Holder

LEMMA GiveKeepsPromise ==
  ASSUME PromiseInv, PromiseInv', NEW r \in Requests,
         CompactDone(r) \/ StreamFails(r) \/ Settled(r)
  PROVE  WorkKept(r)
<1> USE DEF PromiseInv, SlotInv, SlotTypeOK
<1>1. Holds(r) /\ UNCHANGED <<live, told, faults, calls, frames>>
  BY DEF CompactDone, StreamFails, Unfinished, Settled, observed, Holds, Holding
<1>2. Streams' = Streams /\ Sent' = Sent
  BY <1>1, StreamsStay, SentStays
<1>3. CASE faults = 0
  <2>1. slot' = None
    BY <1>3 DEF CompactDone, StreamFails, Settled, Finish, Release, SlotHeld, SlotOwned
  <2>2. Holder = r /\ Holder' = None
    BY <1>1, <1>3, <2>1, HolderIs DEF Holder
  <2> QED
    BY <1>1, <1>2, <1>3, <2>2 DEF WorkKept, Promise!Give
<1>4. CASE faults # 0
  BY <1>1, <1>2, <1>4 DEF WorkKept, Promise!vars, Holder
<1> QED
  BY <1>3, <1>4

LEMMA FramesKeepPromise ==
  ASSUME PromiseInv, PromiseInv', NEW r \in Requests,
         Begin(r) \/ FailSaved(r) \/ Saved(r)
  PROVE  WorkKept(r)
<1> USE DEF PromiseInv, SlotInv, SlotTypeOK
<1>1. /\ UNCHANGED <<live, told, faults, calls>>
      /\ \A q \in Requests \ {r} : frames'[q] = frames[q]
  BY DEF Begin, FailSaved, Saved, FrameInv, entry
<1>2. Sent' = Sent /\ Streams' = [Streams EXCEPT ![r] = StreamOf(frames'[r])]
  BY <1>1, StreamsMove, SentStays
<1>3. CASE Begin(r)
  <2>1. StreamOf(frames'[r]) = "open" /\ Streams[r] = "none"
    BY <1>3, StreamsByPlace DEF Begin, FrameInv, Unannounced, StreamOf
  <2>2. Holds(r)
    BY <1>3 DEF Begin, Holds, Holding
  <2>3. faults = 0 => slot' = slot
    BY <1>3, ClaimIsAController DEF Begin, BeginSlot, Signal, SlotHeld, SlotOwned
  <2>4. Holder' = Holder
    BY <1>1, <2>3 DEF Holder
  <2> QED
    BY <1>1, <1>2, <2>1, <2>2, <2>4, HolderIs DEF WorkKept, Promise!Open
<1>4. CASE FailSaved(r) \/ Saved(r)
  <2>1. StreamOf(frames'[r]) = "closed" /\ Streams[r] = "open"
    BY <1>4, StreamsByPlace DEF FailSaved, Saved, FrameInv, Running, StreamOf
  <2>2. ~Holds(r) /\ slot' = slot
    BY <1>4 DEF FailSaved, Saved, Holds, Holding, entry
  <2>3. Holder' = Holder
    BY <1>1, <2>2 DEF Holder
  <2> QED
    BY <1>1, <1>2, <2>1, <2>2, <2>3, HolderIs DEF WorkKept, Promise!Close
<1> QED
  BY <1>3, <1>4

\* A start that throws stays in the slot it holds, and tells nobody.
LEMMA ThrowKeepsPromise ==
  ASSUME PromiseInv, PromiseInv', NEW r \in Requests, StartThrows(r)
  PROVE  WorkKept(r)
<1> USE DEF PromiseInv, SlotInv, SlotTypeOK
<1>1. UNCHANGED <<live, told, faults, calls, frames>>
  BY DEF StartThrows, observed
<1>2. Streams' = Streams /\ Sent' = Sent
  BY <1>1, StreamsStay, SentStays
<1>3. faults = 0 => slot' = slot
  BY ClaimIsAController DEF StartThrows, BeginSlot, Signal, SlotHeld, SlotOwned
<1>4. Holder' = Holder
  BY <1>1, <1>3 DEF Holder
<1> QED
  BY <1>1, <1>2, <1>4 DEF WorkKept, Promise!vars

LEMMA SendKeepsPromise ==
  ASSUME PromiseInv, PromiseInv', NEW r \in Requests, SendRequest(r)
  PROVE  WorkKept(r)
<1> USE DEF PromiseInv, SlotInv, SlotTypeOK
<1>1. /\ pc[r] = "preparing" /\ UNCHANGED <<slot, live, told, faults, frames>>
      /\ calls' = calls \cup {<<r, "turn">>} /\ ctl[r] \notin stopped
  BY DEF SendRequest, entry
<1>2. Streams' = Streams /\ Streams[r] = "open"
  BY <1>1, StreamsStay, StreamsByPlace
<1>3. Sent' = Sent \cup {r}
  BY <1>1 DEF Sent
<1>4. Holder' = Holder
  BY <1>1 DEF Holder
<1>5. faults = 0 => Holder = r /\ r \notin told /\ live
  BY <1>1, HolderIs DEF SlotHeld, SlotOwned, StopReached, Generating, Holds, Holding
<1> QED
  BY <1>1, <1>2, <1>3, <1>4, <1>5 DEF WorkKept, Promise!Send

LEMMA FailureKeepsPromise ==
  ASSUME PromiseInv, PromiseInv', NEW r \in Requests, SettleThrows(r)
  PROVE  WorkKept(r)
<1> USE DEF PromiseInv, SlotInv, SlotTypeOK
<1>1. /\ pc[r] \in {"settling", "saving", "announcing"}
      /\ UNCHANGED <<live, told, calls>> /\ faults' > 0
      /\ frames' = CatchFrames(r)
  BY DEF SettleThrows, Settling
<1>2. \A q \in Requests \ {r} : frames'[q] = frames[q]
  BY <1>1 DEF CatchFrames, FrameInv
<1>3. Sent' = Sent /\ Streams' = [Streams EXCEPT ![r] = StreamOf(frames'[r])]
  BY <1>1, <1>2, StreamsMove, SentStays
<1>4. StreamOf(frames'[r]) = "closed"
  BY <1>1 DEF CatchFrames, FrameInv, Running, Ended, StreamOf
<1>5. Streams[r] # "none"
  BY <1>1, StreamsByPlace
<1>6. Holder' = None
  BY <1>1 DEF Holder
<1> QED
  BY <1>1, <1>3, <1>4, <1>5, <1>6 DEF WorkKept, Promise!Fail

LEMMA WorkKeepsPromise ==
  ASSUME PromiseInv, PromiseInv', NEW r \in Requests, Work(r)
  PROVE  WorkKept(r)
<1> DEFINE Shown == \/ CompactDone(r) \/ StreamFails(r) \/ Settled(r) \/ Begin(r)
                    \/ FailSaved(r) \/ Saved(r) \/ SendRequest(r) \/ SettleThrows(r)
                    \/ StartThrows(r)
<1>1. CASE Shown
  BY <1>1, GiveKeepsPromise, FramesKeepPromise, SendKeepsPromise, FailureKeepsPromise,
     ThrowKeepsPromise
<1>2. CASE ~Shown
  <2>1. /\ UNCHANGED <<slot, live, told, faults, frames>>
        /\ calls' = calls \/ calls' = calls \cup {<<r, "side">>}
    BY <1>2 DEF Work, BeginRefused, Text, StreamCompletes, StoppedWithText,
       Announced, SideSends, SideDone, Rebuild, SnapshotFails, entry, observed
  <2>2. Streams' = Streams /\ Sent' = Sent
    BY <2>1, StreamsStay, SentStays
  <2>3. Holder' = Holder
    BY <2>1 DEF Holder
  <2> QED
    BY <2>1, <2>2, <2>3 DEF WorkKept, Promise!vars
<1> QED
  BY <1>1, <1>2

LEMMA StopKeepsPromise ==
  ASSUME PromiseInv, Stop \/ LetGo
  PROVE  Promise!Stop
<1> USE DEF PromiseInv, SlotInv, SlotTypeOK
<1>1. /\ Abort /\ UNCHANGED <<slot, frames, calls, faults>>
      /\ live' \in BOOLEAN /\ ~live => ~live'
  BY DEF Stop, LetGo
<1>2. Streams' = Streams /\ Sent' = Sent /\ Holder' = Holder
  BY <1>1, StreamsStay, SentStays DEF Holder
<1>3. told' = told \cup {q \in Requests : Holds(q)}
  BY <1>1 DEF Abort
<1>4. ASSUME faults = 0
      PROVE  {q \in Requests : Holds(q)} = {Holder} \ {None}
  BY <1>4, HolderOfSlot, ChatTurnAssumption DEF Holder
<1> QED
  BY <1>1, <1>2, <1>3, <1>4 DEF Promise!Stop

\* Every behaviour of the handlers is, seen by the clients, one of the promise.
THEOREM KeepsThePromiseHolds == Spec => KeepsThePromise
<1>1. Init => Promise!Init
  BY DEF Init, Promise!Init, Holder, Sent, Streams, StreamOf
<1>2. PromiseInv /\ PromiseInv' /\ [Next]_vars => [Promise!Next]_(Promise!vars)
  <2> SUFFICES ASSUME PromiseInv, PromiseInv', [Next]_vars
               PROVE  Promise!Next \/ UNCHANGED Promise!vars
    OBVIOUS
  <2>1. CASE \E r \in Requests : Arrive(r)
    BY <2>1, ArrivalKeepsPromise DEF Promise!Next
  <2>2. CASE \E r \in Requests : Work(r)
    BY <2>2, WorkKeepsPromise DEF Promise!Next, WorkKept
  <2>3. CASE Stop \/ LetGo
    BY <2>3, StopKeepsPromise DEF Promise!Next
  <2>4. CASE UNCHANGED vars
    <3>1. UNCHANGED <<slot, live, told, calls, frames, faults>>
      BY <2>4 DEF vars, entry, observed
    <3> QED
      BY <3>1 DEF Promise!vars, Holder, Sent, Streams, StreamOf
  <2> QED
    BY <2>1, <2>2, <2>3, <2>4 DEF Next
<1> QED
  BY <1>1, <1>2, PromiseInvAlways, PTL DEF Spec, KeepsThePromise, Promise!Spec
===============================================================================
