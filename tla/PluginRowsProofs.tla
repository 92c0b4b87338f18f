---------------------------- MODULE PluginRowsProofs ----------------------------
(***************************************************************************)
(* Theorems about PluginRows, for any generations, any number of previews, *)
(* failed calls and crashes: where the trees of an update are at each of   *)
(* its steps, that a row which can be enabled has the tree it records, and *)
(* that what runs is what the row records.                                 *)
(***************************************************************************)
EXTENDS PluginRows, TLAPS

Busy == op.pc # "idle"
Returning == {"clear", "home", "unswap", "republish", "reenable"}
Usable == row \in {"disabled", "enabled"}

\* What holds whatever fails and whoever races: a dead process runs nothing, one
\* that could not read the catalog has no row, a fresh install has none to
\* replace, an update the one it was shown or none.
Life ==
  /\ ~Busy => op = NoOp
  /\ Busy => host = "up" /\ op.gen # None
  /\ un # "idle" => host = "up" /\ row # "none" /\ (Busy => races > 0)
  /\ host = "down" =>
       /\ op = NoOp /\ pending = {} /\ races = 0 /\ ~torn /\ ~unread
       /\ running = None /\ def = None /\ inner = None /\ \A g \in Gens : modules[g] = None
  /\ op.back <=> op.pc \in Returning
  /\ Busy /\ op.of = None => op.pc \in {"promote", "publish", "adopt"} /\ row = "none"
  /\ op.pc \in {"measure", "disable", "aside", "promote", "publish", "swap"} => ~op.swapped
  /\ op.of # None => op.pc # "adopt" /\ ~unread /\ (~op.swapped => stored \in {op.of, None})

\* Where the trees of a running update are, step by step, and how many calls
\* have failed when it has come as far.
Seats ==
  races = 0 /\ op.of # None =>
    /\ op.pc \in {"measure", "disable", "aside"} =>
         op.aside = None /\ ~op.promoted /\ ~op.swapped
    /\ op.pc \in {"disable", "aside"} => tree = op.face
    /\ op.pc \in {"promote", "publish", "swap", "enable", "home"} =>
         op.aside = op.face /\ op.face # None
    /\ op.pc = "promote" => tree = None /\ ~op.promoted /\ ~op.swapped
    /\ op.pc \in {"publish", "swap"} => tree = op.gen /\ op.promoted /\ ~op.swapped
    /\ op.pc = "enable" => tree = op.gen /\ op.promoted /\ op.swapped /\ op.was
    /\ op.pc = "delete" => tree = op.gen /\ op.swapped
    /\ op.pc = "clear" =>
         IF op.aside = None
         THEN tree = op.face /\ ~op.promoted /\ ~op.swapped
         ELSE /\ op.aside = op.face /\ (op.promoted => tree = op.gen)
              /\ op.swapped => op.promoted /\ op.was
    /\ op.pc \in {"home", "reenable"} => (op.swapped => op.promoted /\ op.was)
    /\ op.pc = "home" /\ op.promoted /\ faults < 2 => tree = None
    /\ op.pc \in {"unswap", "republish", "reenable"} =>
         op.aside = None /\ tree = op.face /\ op.face # None
    /\ op.pc \in {"unswap", "republish"} => op.promoted /\ op.swapped /\ op.was
    /\ ~op.known /\ op.face # None /\ op.pc # "measure" => faults >= 1
    /\ op.back /\ (op.aside # None \/ op.pc # "clear") => faults >= (IF op.known THEN 1 ELSE 2)

\* The row while an update runs: what it records, and when it can be on.
Rows ==
  races = 0 /\ op.of # None =>
    /\ stored = IF op.swapped /\ op.pc \notin {"republish", "reenable"} THEN op.gen ELSE op.of
    /\ op.pc = "measure" => ~op.was
    /\ op.pc = "disable" => row = "enabled" /\ op.was
    /\ op.pc \notin {"measure", "disable", "delete", "clear"} => row \in {"disabled", "blocked"}
    /\ op.pc = "clear" /\ op.aside # None => row \in {"disabled", "blocked"}
    /\ op.was \/ op.swapped => Usable \/ (op.pc = "reenable" /\ ~op.known)

\* What is served while it runs.
Served ==
  races = 0 /\ op.of # None =>
    /\ op.pc # "measure" /\ ~op.promoted => asset = op.served
    /\ op.pc = "reenable" /\ op.swapped /\ faults < 2 => asset = AssetOf(op.face)

\* The tree is at its place: no update is between taking it away and putting
\* one back.
Seated ==
  \/ op.pc \in {"idle", "measure", "disable", "aside", "delete", "republish", "reenable"}
  \/ op.pc = "clear" /\ op.aside = None

Backed ==
  OneFailure =>
    /\ row # "none" => def = stored \/ def = None
    /\ Usable /\ Seated =>
         \/ tree = stored /\ def = stored
         \/ tree = None /\ (torn \/ un \notin {"idle", "tree"})
    /\ op.of # None /\ op.pc \notin {"measure", "delete"} /\ Usable =>
         (op.face = op.of /\ def = stored) \/ op.face = None
    /\ op.of = None /\ op.pc \in {"publish", "adopt"} => tree = op.gen
    /\ un \in {"asset", "row"} => tree = None
    /\ un = "rest" => tree = None \/ faults >= 1
    /\ \A g \in Gens : modules[g] \in {None, g}
    /\ inner # None => modules[inner] = inner
    /\ running # None => running = stored /\ row = "enabled" /\ inner # None

-------------------------------------------------------------------------------
(* The record of the confirm that is running, field by field.                *)

\* The confirm that goes on: where, with which of its trees, and which way.
At(place, aside, promoted, swapped, back) ==
  /\ op' \in Confirms
  /\ op'.gen = op.gen /\ op'.of = op.of /\ op'.face = op.face /\ op'.was = op.was
  /\ op'.known = op.known /\ op'.served = op.served
  /\ op'.pc = place /\ op'.aside = aside /\ op'.back = back
  /\ op'.promoted = promoted /\ op'.swapped = swapped

Gone ==
  /\ op' = NoOp /\ op' \in Confirms
  /\ op'.pc = "idle" /\ op'.gen = None /\ op'.of = None
  /\ ~op'.back /\ ~op'.promoted /\ ~op'.swapped

Failing == IF op.of = None THEN Gone ELSE At("clear", op.aside, op.promoted, op.swapped, TRUE)

LEMMA OpMoves ==
  ASSUME op \in Confirms
  PROVE  /\ \A place \in Places :
              Goto(place) => At(place, op.aside, op.promoted, op.swapped, op.back)
         /\ Done => Gone
         /\ Fail => Failing
<1>1. NoOp \in Confirms
  BY DEF NoOp, Confirms, Places, Maybe
<1>2. ASSUME NEW place \in Places, Goto(place)
      PROVE  At(place, op.aside, op.promoted, op.swapped, op.back)
  BY <1>2 DEF Goto, At, Confirms
<1>3. Done => Gone
  BY <1>1 DEF Done, Gone, NoOp
<1>4. Fail => Failing
  <2>1. CASE op.of = None
    BY <1>1, <2>1 DEF Fail, Failing, Gone, NoOp
  <2>2. CASE op.of # None
    BY <2>2 DEF Fail, Failing, At, Confirms, Places
  <2> QED
    BY <2>1, <2>2
<1> QED
  BY <1>2, <1>3, <1>4

\* The moves that write more than the place.
LEMMA OpWrites ==
  ASSUME op \in Confirms, tree \in Maybe
  PROVE  /\ \A place \in Places :
              op' = [op EXCEPT !.aside = tree, !.pc = place] =>
                At(place, tree, op.promoted, op.swapped, op.back)
         /\ \A place \in Places :
              op' = [op EXCEPT !.promoted = TRUE, !.pc = place] =>
                At(place, op.aside, TRUE, op.swapped, op.back)
         /\ \A place \in Places :
              op' = [op EXCEPT !.swapped = TRUE, !.pc = place] =>
                At(place, op.aside, op.promoted, TRUE, op.back)
         /\ \A place \in Places :
              op' = [op EXCEPT !.aside = None, !.pc = place] =>
                At(place, None, op.promoted, op.swapped, op.back)
BY DEF At, Confirms, Maybe
-------------------------------------------------------------------------------
(* Types.                                                                    *)

LiveTyped ==
  /\ stored \in Maybe /\ on \in BOOLEAN /\ (on => stored # None)
  /\ row \in {"none", "disabled", "enabled", "blocked"}
  /\ unread \in BOOLEAN
  /\ def \in Maybe /\ running \in Maybe /\ inner \in Maybe
  /\ modules \in [Gens -> Maybe]
  /\ row # "none" <=> host = "up" /\ stored # None /\ ~unread

RestTyped ==
  /\ tree \in Maybe /\ asset \in Maybe
  /\ pending \subseteq Previews
  /\ un \in {"idle", "tree", "rest", "asset", "row"}
  /\ races \in 0 .. MaxRaces /\ torn \in BOOLEAN
  /\ host \in {"up", "down"}
  /\ faults \in 0 .. MaxFaults /\ crashes \in 0 .. MaxCrashes

Typed == LiveTyped /\ RestTyped /\ op \in Confirms

LEMMA TypeParts == TypeOK <=> Typed
BY DEF TypeOK, Typed, LiveTyped, RestTyped

\* A count of the failures stays in its bound.
LEMMA FaultsTyped ==
  ASSUME Typed
  PROVE  /\ Fault => faults' \in 0 .. MaxFaults /\ faults' = faults + 1
         /\ NoFault => faults' \in 0 .. MaxFaults /\ faults' = faults
         /\ faults \in Nat
BY PluginRowsAssumption DEF Typed, RestTyped, Fault, NoFault

LEMMA LoadTyped ==
  ASSUME Typed, Imported # None, Load
  PROVE  modules' \in [Gens -> Maybe] /\ inner' \in Maybe /\ Imported \in Maybe
BY DEF Typed, LiveTyped, RestTyped, Load, Imported, Maybe

\* A call that enables or disables keeps the record and the definition.
LEMMA CallsTyped ==
  ASSUME Typed, host = "up", host' = "up", stored' = stored, unread' = unread,
         EnableOK \/ EnableFails \/ DisableOK \/ DisableFails
  PROVE  LiveTyped' /\ faults' \in 0 .. MaxFaults
<1> USE FaultsTyped DEF live, code
<1>1. CASE UNCHANGED <<on, live>>
  BY <1>1 DEF EnableOK, EnableFails, DisableOK, DisableFails, Typed, LiveTyped
<1>2. CASE /\ row = "disabled" /\ Imported # None /\ Load /\ UNCHANGED def
           /\ \/ on' = TRUE /\ row' = "enabled" /\ running' = Imported /\ NoFault
              \/ on' = FALSE /\ UNCHANGED <<row, running>> /\ Fault
  BY <1>2, LoadTyped DEF Typed, LiveTyped
<1>3. CASE row = "disabled" /\ on' = FALSE /\ UNCHANGED live /\ (Fault \/ NoFault)
  BY <1>3 DEF Typed, LiveTyped
<1>4. CASE /\ row = "enabled" /\ on' = FALSE /\ row' = "disabled" /\ running' = None
           /\ UNCHANGED <<def, modules, inner>> /\ (Fault \/ NoFault)
  BY <1>4 DEF Typed, LiveTyped, Maybe
<1> QED
  BY <1>1, <1>2, <1>3, <1>4 DEF EnableOK, EnableFails, DisableOK, DisableFails

LEMMA ReplaceTyped ==
  ASSUME Typed, host = "up", host' = "up", unread' = unread,
         NEW g \in Maybe, NEW record \in Gens, NEW verdict \in {"disabled", "blocked"},
         ReplaceOK(g, record, verdict) \/ ReplaceFails
  PROVE  LiveTyped' /\ faults' \in 0 .. MaxFaults
<1> USE FaultsTyped DEF live, code
<1>1. CASE ReplaceOK(g, record, verdict)
  BY <1>1, PluginRowsAssumption DEF ReplaceOK, Typed, LiveTyped, Maybe
<1>2. CASE ReplaceFails
  BY <1>2 DEF ReplaceFails, Typed, LiveTyped
<1> QED
  BY <1>1, <1>2

\* What a publication leaves served.
LEMMA PublishTyped ==
  ASSUME Typed, NEW g \in Maybe, PublishOK(g) \/ PublishFails(g)
  PROVE  asset' \in Maybe /\ faults' \in 0 .. MaxFaults
BY FaultsTyped DEF PublishOK, PublishFails, AssetOf, Typed, RestTyped, Maybe

LEMMA RacesTyped ==
  ASSUME Typed, NEW amid \in BOOLEAN, Races(amid)
  PROVE  races' \in 0 .. MaxRaces /\ (races' = 0 => races = 0 /\ ~amid) /\ (~amid => races' = races)
BY PluginRowsAssumption DEF Races, Typed, RestTyped

\* Where a confirm is after a step.
LEMMA OpTyped ==
  ASSUME Typed, ConfirmStep
  PROVE  op' \in Confirms
<1> USE OpMoves, OpWrites DEF OpStep, At, Gone, Failing, Typed, RestTyped
<1>1. CASE Promote \/ Publish \/ Adopt
  BY <1>1 DEF Promote, Publish, Adopt, Places
<1>2. CASE Measure
  <2> PICK known \in BOOLEAN :
             op' = [op EXCEPT !.face = tree, !.known = known, !.served = asset,
                              !.was = (row = "enabled"),
                              !.pc = IF row = "enabled" THEN "disable" ELSE "aside"]
    BY <1>2 DEF Measure
  <2> DEFINE b == row = "enabled"
             where == IF row = "enabled" THEN "disable" ELSE "aside"
  <2>1. b \in BOOLEAN /\ where \in Places
    BY DEF Places
  <2>2. op' = [op EXCEPT !.face = tree, !.known = known, !.served = asset, !.was = b, !.pc = where]
    OBVIOUS
  <2> HIDE DEF b, where
  <2> QED
    BY <2>1, <2>2 DEF Confirms
<1>3. CASE DisableOld \/ StepAside \/ EnableNew \/ DeleteOld
  BY <1>3 DEF DisableOld, StepAside, EnableNew, DeleteOld, Places
<1>4. CASE Swap
  BY <1>4 DEF Swap, Places
<1>5. CASE ClearSeat \/ Unswap \/ Republish \/ Reenable
  BY <1>5 DEF ClearSeat, Unswap, Republish, Reenable, Places
<1>6. CASE ComeHome
  BY <1>6 DEF ComeHome, Places
<1> QED
  BY <1>1, <1>2, <1>3, <1>4, <1>5, <1>6 DEF ConfirmStep, Update

\* What the steps of a confirm leave at the package's places.
LEMMA ConfirmRestTyped ==
  ASSUME Typed, ConfirmStep, faults' \in 0 .. MaxFaults
  PROVE  RestTyped'
<1> USE DEF OpStep, Keep, file, Typed, RestTyped
<1>1. CASE Promote \/ StepAside \/ ClearSeat \/ ComeHome
  BY <1>1 DEF Promote, StepAside, ClearSeat, ComeHome, Confirms, Maybe
<1>2. CASE Publish \/ Republish
  BY <1>2, PublishTyped DEF Publish, Republish, Confirms
<1>3. CASE Adopt \/ Measure \/ DisableOld \/ Swap \/ EnableNew \/ DeleteOld \/ Unswap \/ Reenable
  BY <1>3 DEF Adopt, Measure, DisableOld, Swap, EnableNew, DeleteOld, Unswap, Reenable
<1> QED
  BY <1>1, <1>2, <1>3 DEF ConfirmStep, Update

\* A confirm's step leaves the process, the counts of calls and crashes and the
\* uninstall alone, and a failure only adds to what has failed.
LEMMA ConfirmFrame ==
  ASSUME Typed, Life, ConfirmStep
  PROVE  /\ host = "up" /\ UNCHANGED <<pending, un, races, torn, unread, host, crashes>>
         /\ Busy /\ op.gen \in Gens /\ op.of \in Maybe
         /\ faults \in Nat /\ faults' \in Nat /\ faults' >= faults
<1>1. Busy /\ UNCHANGED <<pending, un, races, torn, unread, host, crashes>>
  BY DEF ConfirmStep, Update, Promote, Publish, Adopt, Measure, DisableOld, StepAside, Swap,
     EnableNew, DeleteOld, ClearSeat, ComeHome, Unswap, Republish, Reenable, OpStep, Keep, Busy
<1>2. Fault \/ NoFault
  BY DEF ConfirmStep, Update, Promote, Publish, Adopt, Measure, DisableOld, StepAside, Swap,
     EnableNew, DeleteOld, ClearSeat, ComeHome, Unswap, Republish, Reenable,
     EnableOK, EnableFails, DisableOK, DisableFails, ReplaceOK, ReplaceFails,
     PublishOK, PublishFails
<1>3. faults \in Nat /\ faults' \in Nat /\ faults' >= faults
  BY <1>2, FaultsTyped DEF NoFault
<1>4. op.gen \in Gens /\ op.of \in Maybe
  BY <1>1 DEF Life, Typed, Confirms, Maybe
<1> QED
  BY <1>1, <1>3, <1>4 DEF Life

\* What they leave of the row.
LEMMA ConfirmLiveTyped ==
  ASSUME Typed, Life, ConfirmStep
  PROVE  LiveTyped' /\ faults' \in 0 .. MaxFaults
<1> USE FaultsTyped DEF OpStep, Keep
<1>1. host = "up" /\ host' = "up" /\ unread' = unread /\ op.gen \in Gens
  BY ConfirmFrame
<1>2. ASSUME UNCHANGED <<stored, on, live>>, Fault \/ NoFault
      PROVE  LiveTyped' /\ faults' \in 0 .. MaxFaults
  BY <1>1, <1>2 DEF Typed, LiveTyped, live, code
<1>3. CASE Promote \/ Publish \/ StepAside \/ ClearSeat \/ Republish \/ Measure \/ DeleteOld
  BY <1>2, <1>3, PublishTyped
  DEF Promote, Publish, PublishOK, PublishFails, StepAside, ClearSeat, Republish, Measure,
      DeleteOld, file
<1>4. CASE Adopt
  <2>1. CASE row = "none" /\ stored' = op.gen /\ on' = FALSE /\ row' = "disabled"
             /\ def' = op.gen /\ NoFault /\ ~unread
    <3>1. UNCHANGED <<running, modules, inner>> /\ op.gen # None
      BY <1>1, <1>4, PluginRowsAssumption DEF Adopt, code
    <3> QED
      BY <1>1, <2>1, <3>1 DEF Typed, LiveTyped, Maybe
  <2>2. CASE UNCHANGED <<stored, on, row, def>> /\ (Fault \/ NoFault)
    BY <1>2, <1>4, <2>2 DEF Adopt, live, code
  <2> QED
    BY <1>4, <2>1, <2>2 DEF Adopt
<1>5. CASE DisableOld \/ EnableNew
  BY <1>1, <1>5, CallsTyped DEF DisableOld, EnableNew
<1>6. CASE Swap
  BY <1>1, <1>6, ReplaceTyped DEF Swap, Maybe
<1>7. CASE ComeHome
  <2>1. CASE UNCHANGED row
    BY <1>1, <1>2, <1>7, <2>1 DEF ComeHome, live, code
  <2>2. CASE row # "none" /\ Block
    BY <1>1, <1>7, <2>2 DEF ComeHome, Block, code, Typed, LiveTyped
  <2> QED
    BY <1>7, <2>1, <2>2 DEF ComeHome
<1>8. CASE Unswap
  <2>1. op.of \in Gens /\ op.face \in Maybe
    BY <1>8 DEF Unswap, Life, Busy, Typed, Confirms, Maybe
  <2>2. CASE ReplaceOK(op.face, op.of, "disabled") \/ ReplaceFails
    BY <1>1, <2>1, <2>2, ReplaceTyped
  <2>3. CASE ReplaceOK(None, op.of, "blocked")
    BY <1>1, <2>1, <2>3, ReplaceTyped DEF Maybe
  <2> QED
    BY <1>8, <2>2, <2>3 DEF Unswap
<1>9. CASE Reenable
  <2>1. CASE UNCHANGED <<on, live>> /\ NoFault
    BY <1>2, <1>9, <2>1 DEF Reenable
  <2>2. CASE EnableOK \/ EnableFails
    BY <1>1, <1>9, <2>2, CallsTyped DEF Reenable
  <2> QED
    BY <1>9, <2>1, <2>2 DEF Reenable
<1> QED
  BY <1>3, <1>4, <1>5, <1>6, <1>7, <1>8, <1>9 DEF ConfirmStep, Update

\* The steps beside it.
LEMMA BesideTyped ==
  ASSUME Typed, Life, [Next]_vars, ~ConfirmStep
  PROVE  Typed'
<1> USE FaultsTyped DEF UnStep, Keep, file, code, Typed
<1>1. CASE \E p \in Previews : Preview(p) \/ Cancel(p)
  BY <1>1 DEF Preview, Cancel, Typed, LiveTyped, RestTyped, live, code
<1>2. CASE \E p \in Previews : Confirm(p)
  <2> PICK p \in Previews : Confirm(p)
    BY <1>2
  <2>1. op' \in Confirms
    <3> DEFINE where == IF p.of = None THEN "promote" ELSE "measure"
    <3>1. where \in Places /\ p.gen \in Maybe /\ p.of \in Maybe
      BY DEF Places, Previews, Maybe
    <3>2. NoOp \in Confirms
      BY DEF NoOp, Confirms, Places, Maybe
    <3>3. op' = op \/ op' = [NoOp EXCEPT !.pc = where, !.gen = p.gen, !.of = p.of]
      BY DEF Confirm
    <3> HIDE DEF where
    <3> QED
      BY <3>1, <3>2, <3>3 DEF Typed, Confirms
  <2>2. races' \in 0 .. MaxRaces
    BY RacesTyped DEF Confirm
  <2> QED
    BY <2>1, <2>2 DEF Confirm, Typed, LiveTyped, RestTyped, live, code
<1>3. CASE Uninstall
  <2>1. races' \in 0 .. MaxRaces
    BY <1>3, RacesTyped DEF Uninstall
  <2> QED
    BY <1>3, <2>1 DEF Uninstall, Typed, LiveTyped, RestTyped, live, code
<1>4. CASE RemoveTree("tree", "rest") \/ RemoveTree("rest", "asset")
  <2>1. races' = races /\ un' \in {"rest", "asset"}
    BY <1>4 DEF RemoveTree
  <2> QED
    BY <1>4, <2>1 DEF RemoveTree, LiveTyped, RestTyped, live, code, Maybe
<1>5. CASE RemoveAsset
  BY <1>5 DEF RemoveAsset, Typed, LiveTyped, RestTyped, live, code, Maybe
<1>6. CASE RemoveRow
  <2>1. host = "up" /\ host' = "up" /\ races' = races /\ unread' = unread
    BY <1>6 DEF RemoveRow, Life, Typed
  <2>2. CASE /\ row # "none" /\ DropRow /\ NoFault
             /\ running' = (IF row = "enabled" THEN None ELSE running)
             /\ UNCHANGED <<modules, inner, torn>>
    BY <1>6, <2>1, <2>2 DEF RemoveRow, DropRow, Typed, LiveTyped, RestTyped, Maybe
  <2>3. CASE torn' = TRUE /\ UNCHANGED stored /\ DisableFails
    <3>1. LiveTyped' /\ faults' \in 0 .. MaxFaults
      BY <2>1, <2>3, CallsTyped
    <3> QED
      BY <1>6, <2>1, <2>3, <3>1 DEF RemoveRow, RestTyped
  <2>4. CASE row \in {"disabled", "blocked"} /\ row' = "disabled" /\ Fault
             /\ torn' = TRUE /\ UNCHANGED <<stored, on, def, code>>
    BY <1>6, <2>1, <2>4 DEF RemoveRow, Typed, LiveTyped, RestTyped, live, code
  <2> QED
    BY <1>6, <2>2, <2>3, <2>4 DEF RemoveRow
<1>7. CASE UserEnables \/ UserDisables
  <2>1. LiveTyped' /\ faults' \in 0 .. MaxFaults
    BY <1>7, CallsTyped DEF UserEnables, UserDisables
  <2>2. races' \in 0 .. MaxRaces
    BY <1>7, RacesTyped DEF UserEnables, UserDisables
  <2> QED
    BY <1>7, <2>1, <2>2 DEF UserEnables, UserDisables, RestTyped
<1>8. CASE Crash
  <2>1. op' \in Confirms /\ modules' \in [Gens -> Maybe]
    BY <1>8 DEF Crash, NoOp, Confirms, Places, Maybe
  <2>2. crashes' \in 0 .. MaxCrashes /\ races' \in 0 .. MaxRaces
    BY <1>8, PluginRowsAssumption DEF Crash, RestTyped
  <2> QED
    BY <1>8, <2>1, <2>2 DEF Crash, Typed, LiveTyped, RestTyped, Maybe
<1>9. CASE Start
  <2>1. ~unread /\ UNCHANGED <<tree, stored, unread, pending, op, un, races, torn, crashes>>
    BY <1>9 DEF Start, Life
  <2>2. asset' \in Maybe /\ (Fault \/ NoFault) /\ host' = "up"
    BY <1>9 DEF Start, live, RestTyped, Maybe
  <2>3. CASE stored = None /\ UNCHANGED <<on, live>>
    BY <1>9, <2>1, <2>2, <2>3 DEF Start, LiveTyped, RestTyped, live
  <2>4. CASE stored # None /\ Block /\ UNCHANGED <<on, def, code>>
    BY <1>9, <2>1, <2>2, <2>4 DEF Block, LiveTyped, RestTyped
  <2>5. CASE /\ stored # None /\ Verified /\ def' = stored
             /\ row' \in {"disabled", "enabled"} /\ on' \in BOOLEAN
             /\ running' \in {running, tree}
             /\ \/ UNCHANGED <<modules, inner>>
                \/ modules' = [modules EXCEPT ![stored] = tree] /\ inner' = tree
    BY <2>1, <2>2, <2>5 DEF LiveTyped, RestTyped, Maybe
  <2> QED
    BY <1>9, <2>3, <2>4, <2>5 DEF Start, LiveTyped
<1>11. CASE StartUnread
  BY <1>11 DEF StartUnread, Life, LiveTyped, RestTyped, live
<1>10. CASE UNCHANGED vars
  BY <1>10 DEF vars, live, code, Typed, LiveTyped, RestTyped
<1> QED
  BY <1>1, <1>2, <1>3, <1>4, <1>5, <1>6, <1>7, <1>8, <1>9, <1>10, <1>11 DEF Next, UninstallStep
-------------------------------------------------------------------------------
(* What holds whatever fails and whoever races.                              *)

\* A confirm's step keeps the process up and leaves the uninstall to itself.
LEMMA ConfirmLife ==
  ASSUME Typed, Life, ConfirmStep
  PROVE  Life'
<1>1. /\ row # "none" => row' # "none"
      /\ host = "up" /\ UNCHANGED <<pending, un, races, torn, unread, host, crashes>>
      /\ op.pc # "idle" /\ op.gen \in Gens /\ op.gen # None
  <2>1. row # "none" => row' # "none"
    BY DEF ConfirmStep, Update, Promote, Publish, Adopt, Measure, DisableOld, StepAside, Swap,
       EnableNew, DeleteOld, ClearSeat, ComeHome, Unswap, Republish, Reenable,
       EnableOK, EnableFails, DisableOK, DisableFails, ReplaceOK, ReplaceFails, Block,
       file, live, code
  <2> QED
    BY <2>1, ConfirmFrame, PluginRowsAssumption DEF Busy
<1>2. CASE Promote
  <2>1. UNCHANGED <<stored, row>> /\ op.pc = "promote"
    BY <1>1, <1>2 DEF Promote, OpStep, live
  <2>2. \/ At("publish", op.aside, TRUE, op.swapped, op.back)
        \/ Gone
        \/ op.of # None /\ At("clear", op.aside, op.promoted, op.swapped, TRUE)
    BY <1>2, <2>1, OpMoves, OpWrites DEF Promote, OpStep, Failing, Typed, RestTyped, Places
  <2> QED
    BY <1>1, <2>1, <2>2 DEF Life, Busy, Returning, At, Gone
<1>3. CASE Publish
  <2>1. UNCHANGED <<stored, row>> /\ op.pc = "publish"
    BY <1>1, <1>3 DEF Publish, OpStep, live
  <2>2. \/ op.of = None /\ At("adopt", op.aside, op.promoted, op.swapped, op.back)
        \/ op.of # None /\ At("swap", op.aside, op.promoted, op.swapped, op.back)
        \/ Gone
        \/ op.of # None /\ At("clear", op.aside, op.promoted, op.swapped, TRUE)
    BY <1>3, <2>1, OpMoves, OpWrites DEF Publish, OpStep, Failing, Typed, Places
  <2> QED
    BY <1>1, <2>1, <2>2 DEF Life, Busy, Returning, At, Gone
<1>4. CASE Adopt
  BY <1>1, <1>4, OpMoves DEF Adopt, Life, Busy, Returning, OpStep, Gone, Typed
<1>5. CASE Measure
  BY <1>1, <1>5 DEF Measure, Confirms, file, live, Life, Busy, Returning, OpStep, Typed
<1>6. CASE DisableOld
  <2>1. UNCHANGED stored /\ op.pc = "disable" /\ op.of # None
    BY <1>1, <1>6 DEF DisableOld, Life, Busy, OpStep, live
  <2>2. \/ At("aside", op.aside, op.promoted, op.swapped, op.back)
        \/ At("clear", op.aside, op.promoted, op.swapped, TRUE)
    BY <1>6, <2>1, OpMoves, OpWrites DEF DisableOld, OpStep, Failing, Typed, Places
  <2> QED
    BY <1>1, <2>1, <2>2 DEF Life, Busy, Returning, At, Gone
<1>7. CASE StepAside
  <2>1. UNCHANGED <<stored, row>> /\ op.pc = "aside" /\ op.of # None
    BY <1>1, <1>7 DEF StepAside, Life, Busy, OpStep, live
  <2>2. \/ At("promote", tree, op.promoted, op.swapped, op.back)
        \/ At("clear", op.aside, op.promoted, op.swapped, TRUE)
    BY <1>7, <2>1, OpMoves, OpWrites DEF StepAside, RestTyped, OpStep, Failing, Typed, Places
  <2> QED
    BY <1>1, <2>1, <2>2 DEF Life, Busy, Returning, At, Gone
<1>8. CASE Swap
  <2>1. op.pc = "swap" /\ op.of # None /\ (ReplaceFails => stored' = stored)
    BY <1>1, <1>8 DEF Swap, ReplaceFails, Life, Busy, OpStep, live
  <2>2. \/ At("enable", op.aside, op.promoted, TRUE, op.back)
        \/ At("delete", op.aside, op.promoted, TRUE, op.back)
        \/ ReplaceFails /\ At("clear", op.aside, op.promoted, op.swapped, TRUE)
    <3>1. CASE op' = [op EXCEPT !.swapped = TRUE, !.pc = IF op.was THEN "enable" ELSE "delete"]
      <4>1. CASE op.was
        BY <3>1, <4>1, OpWrites DEF Typed, RestTyped, Places
      <4>2. CASE ~op.was
        BY <3>1, <4>2, OpWrites DEF Typed, RestTyped, Places
      <4> QED
        BY <4>1, <4>2
    <3>2. CASE ReplaceFails /\ Fail
      BY <2>1, <3>2, OpMoves DEF Failing, Typed
    <3> QED
      BY <1>8, <3>1, <3>2 DEF Swap
  <2> QED
    BY <1>1, <2>1, <2>2 DEF Life, Busy, Returning, At, Gone
<1>9. CASE EnableNew
  <2>1. UNCHANGED stored /\ op.pc = "enable" /\ op.of # None
    BY <1>1, <1>9 DEF EnableNew, Life, Busy, OpStep, live
  <2>2. \/ At("delete", op.aside, op.promoted, op.swapped, op.back)
        \/ At("clear", op.aside, op.promoted, op.swapped, TRUE)
    BY <1>9, <2>1, OpMoves, OpWrites DEF EnableNew, OpStep, Failing, Typed, Places
  <2> QED
    BY <1>1, <2>1, <2>2 DEF Life, Busy, Returning, At, Gone
<1>10. CASE DeleteOld \/ Reenable
  BY <1>1, <1>10, OpMoves DEF DeleteOld, Reenable, Life, Busy, Returning, OpStep, Gone, Typed
<1>11. CASE ClearSeat
  <2>1. UNCHANGED stored /\ op.pc = "clear" /\ op.of # None /\ op.back
    BY <1>1, <1>11 DEF ClearSeat, Life, Busy, Returning, OpStep, live
  <2>2. \/ Gone
        \/ At("home", op.aside, op.promoted, op.swapped, op.back)
    BY <1>11, <2>1, OpMoves, OpWrites DEF ClearSeat, OpStep, Failing, Typed, Places
  <2> QED
    BY <1>1, <2>1, <2>2 DEF Life, Busy, Returning, At, Gone
<1>12. CASE ComeHome
  <2>1. UNCHANGED stored /\ op.pc = "home" /\ op.of # None /\ op.back
    BY <1>1, <1>12 DEF ComeHome, Life, Busy, Returning, OpStep, live
  <2>2. \/ Gone
        \/ At("unswap", None, op.promoted, op.swapped, op.back)
        \/ At("reenable", None, op.promoted, op.swapped, op.back)
    <3>1. CASE op' = [op EXCEPT !.aside = None, !.pc = IF op.swapped THEN "unswap" ELSE "reenable"]
      <4>1. CASE op.swapped
        BY <3>1, <4>1, OpWrites DEF Typed, RestTyped, Places
      <4>2. CASE ~op.swapped
        BY <3>1, <4>2, OpWrites DEF Typed, RestTyped, Places
      <4> QED
        BY <4>1, <4>2
    <3> QED
      BY <1>12, <3>1, OpMoves DEF ComeHome, Typed
  <2> QED
    BY <1>1, <2>1, <2>2 DEF Life, Busy, Returning, At, Gone
<1>13. CASE Unswap
  <2>1. /\ op.pc = "unswap" /\ op.of # None /\ op.back
        /\ stored' \in {stored, op.of}
    BY <1>1, <1>13 DEF Unswap, ReplaceOK, ReplaceFails, Life, Busy, Returning, OpStep, live
  <2>2. \/ Gone
        \/ At("republish", op.aside, op.promoted, op.swapped, op.back)
        \/ At("reenable", op.aside, op.promoted, op.swapped, op.back)
    BY <1>13, <2>1, OpMoves, OpWrites DEF Unswap, OpStep, Failing, Typed, Places
  <2> QED
    BY <1>1, <2>1, <2>2 DEF Life, Busy, Returning, At, Gone
<1>14. CASE Republish
  <2>1. UNCHANGED stored /\ op.pc = "republish" /\ op.of # None /\ op.back
    BY <1>1, <1>14 DEF Republish, Life, Busy, Returning, OpStep, live
  <2>2. \/ Gone
        \/ At("reenable", op.aside, op.promoted, op.swapped, op.back)
    BY <1>14, <2>1, OpMoves, OpWrites DEF Republish, OpStep, Failing, Typed, Places
  <2> QED
    BY <1>1, <2>1, <2>2 DEF Life, Busy, Returning, At, Gone
<1> QED
  BY <1>2, <1>3, <1>4, <1>5, <1>6, <1>7, <1>8, <1>9, <1>10, <1>11, <1>12, <1>13, <1>14
  DEF ConfirmStep, Update

LEMMA BesideLife ==
  ASSUME Typed, Life, [Next]_vars, ~ConfirmStep
  PROVE  Life'
<1> USE PluginRowsAssumption DEF Life, Busy, Returning, UnStep, Keep, Typed
<1>1. CASE \E p \in Previews : Preview(p) \/ Cancel(p)
  BY <1>1 DEF Preview, Cancel, file, live, code
<1>2. CASE \E p \in Previews : Confirm(p)
  <2> PICK p \in Previews : Confirm(p)
    BY <1>2
  <2>1. host = "up" /\ host' = "up"
    BY DEF Confirm, RestTyped
  <2>2. CASE op' = op
    BY <2>1, <2>2 DEF Confirm, file, live, code
  <2>3. CASE /\ Consented(p)
             /\ op' = [NoOp EXCEPT !.pc = IF p.of = None THEN "promote" ELSE "measure",
                                   !.gen = p.gen, !.of = p.of]
    <3>1. /\ op'.pc = IF p.of = None THEN "promote" ELSE "measure"
          /\ op'.gen = p.gen /\ op'.of = p.of /\ ~op'.back /\ ~op'.swapped
      BY <2>3 DEF NoOp
    <3>2. p.gen # None
      BY DEF Previews
    <3>3. /\ op.pc = "idle" /\ UNCHANGED <<file, live, un, torn, unread>>
          /\ Recorded = p.of /\ (un # "idle" => races' > 0)
      BY <2>3 DEF Confirm, Consented, Races, RestTyped
    <3>4. p.of = None => row = "none"
      BY <3>3 DEF Recorded, LiveTyped
    <3>5. p.of # None => stored = p.of /\ ~unread
      BY <3>3 DEF Recorded, LiveTyped
    <3> QED
      BY <2>1, <3>1, <3>2, <3>3, <3>4, <3>5 DEF file, live, code
  <2> QED
    BY <2>2, <2>3 DEF Confirm
<1>3. CASE Uninstall
  <2>1. op.pc # "idle" => races' > 0
    BY <1>3 DEF Uninstall, Races, RestTyped
  <2> QED
    BY <1>3, <2>1 DEF Uninstall, Recorded, file, live, code
<1>4. CASE RemoveTree("tree", "rest") \/ RemoveTree("rest", "asset")
  BY <1>4 DEF RemoveTree, live, code
<1>5. CASE RemoveAsset
  BY <1>5 DEF RemoveAsset, live, code
<1>6. CASE RemoveRow
  BY <1>6 DEF RemoveRow, DropRow, DisableFails, live, code
<1>7. CASE UserEnables \/ UserDisables
  <2>1. /\ row # "none" => row' # "none"
        /\ row = "none" => row' = "none"
    BY <1>7 DEF UserEnables, UserDisables, EnableOK, EnableFails, DisableOK, DisableFails, live
  <2>2. races > 0 => races' > 0
    BY <1>7 DEF UserEnables, UserDisables, Races, RestTyped
  <2> QED
    BY <1>7, <2>1, <2>2 DEF UserEnables, UserDisables
<1>8. CASE Crash
  BY <1>8 DEF Crash, NoOp, file
<1>9. CASE Start \/ StartUnread
  BY <1>9 DEF Start, StartUnread, RestTyped, NoOp, file
<1>10. CASE UNCHANGED vars
  BY <1>10 DEF vars, file, live, code
<1> QED
  BY <1>1, <1>2, <1>3, <1>4, <1>5, <1>6, <1>7, <1>8, <1>9, <1>10 DEF Next, UninstallStep
-------------------------------------------------------------------------------
(* Where the trees are.                                                      *)

\* The new generation fails to start only for a failure that is counted: it has
\* its tree, and no module of another one under its URL.
LEMMA EnableNewCounts ==
  ASSUME Typed, Life, Seats, Rows, Backed, EnableNew, EnableFails, races = 0, op.of # None
  PROVE  faults' >= (IF op.known THEN 1 ELSE 2)
<1> USE FaultsTyped
<1>1. op.face # None /\ (~op.known => faults >= 1)
  BY DEF EnableNew, OpStep, Seats
<1>2. CASE Fault
  BY <1>1, <1>2
<1>3. CASE NoFault /\ OneFailure
  <2>1. row = "disabled" /\ tree = op.gen /\ op.gen # None /\ stored = op.gen
    BY <1>3 DEF EnableNew, OpStep, Life, Busy, Seats, Rows, Usable
  <2>2. def = stored
    BY <1>1, <1>3, <2>1 DEF EnableNew, OpStep, Backed, Usable
  <2>3. Imported # None
    BY <1>3, <2>1, <2>2 DEF Imported, Backed, Typed, LiveTyped, Confirms, Maybe
  <2> QED
    BY <1>3, <2>1, <2>3 DEF EnableFails, Fault, NoFault
<1>4. CASE NoFault /\ ~OneFailure
  BY <1>4 DEF OneFailure
<1> QED
  BY <1>2, <1>3, <1>4 DEF EnableFails

\* A confirm's step does not make an update of an install.
LEMMA NoNewUpdate ==
  ASSUME Typed, Life, ConfirmStep, op'.of # None
  PROVE  op.of # None /\ op.gen # None /\ ~Adopt /\ ~DeleteOld /\ ~Reenable
<1>1. op.of # None
  BY OpMoves, OpWrites
  DEF ConfirmStep, Update, Promote, Publish, Adopt, Measure, DisableOld, StepAside, Swap,
      EnableNew, DeleteOld, ClearSeat, ComeHome, Unswap, Republish, Reenable, OpStep, Life, Busy,
      At, Gone, Failing, Typed, RestTyped, Places
<1>2. ~Adopt /\ ~DeleteOld /\ ~Reenable
  BY OpMoves DEF Adopt, DeleteOld, Reenable, Gone, Typed
<1> QED
  BY <1>1, <1>2, ConfirmFrame, PluginRowsAssumption

LEMMA ConfirmSeats ==
  ASSUME Typed, Life, Seats, Rows, Backed, ConfirmStep
  PROVE  Seats'
<1> SUFFICES ASSUME races = 0, op.of # None, op'.of # None
             PROVE  Seats'
  BY ConfirmFrame, NoNewUpdate DEF Seats
<1>1. /\ races' = 0 /\ op.gen # None /\ faults \in Nat /\ faults' \in Nat /\ faults' >= faults
      /\ tree \in Maybe
  BY ConfirmFrame, PluginRowsAssumption DEF Typed, RestTyped, Maybe
<1>2. CASE Promote
  <2>1. /\ tree = None /\ op.aside = op.face /\ op.face # None
        /\ ~op.promoted /\ ~op.swapped /\ ~op.back /\ (~op.known => faults >= 1)
    BY <1>2 DEF Promote, OpStep, Seats, Life, Returning
  <2>2. \/ tree' = op.gen /\ At("publish", op.aside, TRUE, op.swapped, op.back)
        \/ At("clear", op.aside, op.promoted, op.swapped, TRUE) /\ faults' = faults + 1
    BY <1>2, <2>1, OpMoves, OpWrites, FaultsTyped DEF Promote, Failing, Typed, RestTyped, Places
  <2>3. CASE tree' = op.gen /\ At("publish", op.aside, TRUE, op.swapped, op.back)
    BY <1>1, <2>1, <2>3 DEF Seats, At, Returning
  <2>4. CASE At("clear", op.aside, op.promoted, op.swapped, TRUE) /\ faults' = faults + 1
    BY <1>1, <2>1, <2>4 DEF Seats, At, Returning
  <2> QED
    BY <2>2, <2>3, <2>4
<1>3. CASE Publish
  <2>1. /\ tree = op.gen /\ op.aside = op.face /\ op.face # None
        /\ op.promoted /\ ~op.swapped /\ ~op.back /\ (~op.known => faults >= 1) /\ tree' = tree
    BY <1>3 DEF Publish, OpStep, Seats, Life, Returning
  <2>2. \/ At("swap", op.aside, op.promoted, op.swapped, op.back)
        \/ At("clear", op.aside, op.promoted, op.swapped, TRUE) /\ faults' = faults + 1
    BY <1>1, <1>3, <2>1, OpMoves, FaultsTyped DEF Publish, PublishFails, Failing, Typed, Places
  <2>3. CASE At("swap", op.aside, op.promoted, op.swapped, op.back)
    BY <1>1, <2>1, <2>3 DEF Seats, At, Returning
  <2>4. CASE At("clear", op.aside, op.promoted, op.swapped, TRUE) /\ faults' = faults + 1
    BY <1>1, <2>1, <2>4 DEF Seats, At, Returning
  <2> QED
    BY <2>2, <2>3, <2>4
<1>5. CASE Measure
  <2>1. /\ op'.aside = None /\ ~op'.promoted /\ ~op'.swapped /\ ~op'.back
        /\ op'.face = tree /\ op'.pc \in {"disable", "aside"} /\ tree' = tree
        /\ ~op'.known /\ tree # None => faults' >= 1
    BY <1>1, <1>5, FaultsTyped DEF Measure, OpStep, Confirms, Typed, file, Seats, Life, Returning
  <2> QED
    BY <1>1, <2>1 DEF Seats
<1>6. CASE DisableOld
  <2>1. /\ op.aside = None /\ ~op.promoted /\ ~op.swapped /\ ~op.back /\ tree' = tree
        /\ tree = op.face /\ (~op.known /\ op.face # None => faults >= 1)
    BY <1>6 DEF DisableOld, OpStep, Seats, Life, Returning
  <2>2. \/ At("aside", op.aside, op.promoted, op.swapped, op.back)
        \/ At("clear", op.aside, op.promoted, op.swapped, TRUE)
    BY <1>6, OpMoves DEF DisableOld, Failing, Typed, Places
  <2> QED
    BY <1>1, <2>1, <2>2 DEF Seats, At
<1>7. CASE StepAside
  <2>1. /\ op.aside = None /\ ~op.promoted /\ ~op.swapped /\ ~op.back
        /\ tree = op.face /\ (~op.known /\ op.face # None => faults >= 1)
    BY <1>7 DEF StepAside, OpStep, Seats, Life, Returning
  <2>2. \/ tree # None /\ tree' = None /\ At("promote", tree, op.promoted, op.swapped, op.back)
        \/ tree' = tree /\ At("clear", op.aside, op.promoted, op.swapped, TRUE)
    BY <1>7, OpMoves, OpWrites DEF StepAside, Failing, Typed, RestTyped, Places
  <2> QED
    BY <1>1, <2>1, <2>2 DEF Seats, At
<1>8. CASE Swap
  <2>1. /\ tree = op.gen /\ op.aside = op.face /\ op.face # None /\ tree' = tree
        /\ op.promoted /\ ~op.swapped /\ ~op.back /\ row \in {"disabled", "blocked"}
        /\ (~op.known => faults >= 1)
    BY <1>8 DEF Swap, OpStep, Seats, Rows, Life, Returning
  <2>2. \/ At("enable", op.aside, op.promoted, TRUE, op.back) /\ op.was
        \/ At("delete", op.aside, op.promoted, TRUE, op.back)
        \/ At("clear", op.aside, op.promoted, op.swapped, TRUE) /\ faults' = faults + 1
    <3>1. CASE op' = [op EXCEPT !.swapped = TRUE, !.pc = IF op.was THEN "enable" ELSE "delete"]
      <4>1. CASE op.was
        BY <3>1, <4>1, OpWrites DEF Typed, RestTyped, Places
      <4>2. CASE ~op.was
        BY <3>1, <4>2, OpWrites DEF Typed, RestTyped, Places
      <4> QED
        BY <4>1, <4>2
    <3>2. CASE ReplaceFails /\ Fail
      BY <2>1, <3>2, OpMoves, FaultsTyped DEF ReplaceFails, Failing, Typed
    <3> QED
      BY <1>8, <3>1, <3>2 DEF Swap
  <2>3. CASE At("enable", op.aside, op.promoted, TRUE, op.back) /\ op.was
    BY <1>1, <2>1, <2>3 DEF Seats, At, Returning
  <2>4. CASE At("delete", op.aside, op.promoted, TRUE, op.back)
    BY <1>1, <2>1, <2>4 DEF Seats, At, Returning
  <2>5. CASE At("clear", op.aside, op.promoted, op.swapped, TRUE) /\ faults' = faults + 1
    BY <1>1, <2>1, <2>5 DEF Seats, At, Returning
  <2> QED
    BY <2>2, <2>3, <2>4, <2>5
<1>9. CASE EnableNew
  <2>1. /\ tree = op.gen /\ op.aside = op.face /\ op.face # None /\ tree' = tree
        /\ op.promoted /\ op.swapped /\ op.was /\ ~op.back /\ (~op.known => faults >= 1)
    BY <1>9 DEF EnableNew, OpStep, Seats, Life, Returning
  <2>2. \/ At("delete", op.aside, op.promoted, op.swapped, op.back)
        \/ /\ At("clear", op.aside, op.promoted, op.swapped, TRUE)
           /\ faults' >= (IF op.known THEN 1 ELSE 2)
    BY <1>9, OpMoves, EnableNewCounts DEF EnableNew, Failing, Typed, Places
  <2>3. CASE At("delete", op.aside, op.promoted, op.swapped, op.back)
    BY <1>1, <2>1, <2>3 DEF Seats, At, Returning
  <2>4. CASE /\ At("clear", op.aside, op.promoted, op.swapped, TRUE)
             /\ faults' >= (IF op.known THEN 1 ELSE 2)
    BY <1>1, <2>1, <2>4 DEF Seats, At, Returning
  <2> QED
    BY <2>2, <2>3, <2>4
<1>11. CASE ClearSeat
  <2>1. op.back /\ op.pc = "clear"
    BY <1>11 DEF ClearSeat, OpStep, Life, Returning
  <2>2. /\ op.aside = op.face /\ (op.promoted => tree = op.gen) /\ op.aside # None
        /\ op.swapped => op.promoted /\ op.was
        /\ faults >= (IF op.known THEN 1 ELSE 2)
        /\ At("home", op.aside, op.promoted, op.swapped, op.back)
    BY <1>11, <2>1, OpMoves DEF ClearSeat, Seats, Gone, Typed, Places
  <2>3. op.promoted /\ faults' < 2 => tree' = None
    BY <1>1, <1>11, <2>2, FaultsTyped DEF ClearSeat
  <2> QED
    BY <1>1, <2>1, <2>2, <2>3 DEF Seats, At
<1>12. CASE ComeHome
  <2>1. /\ op.back /\ op.pc = "home" /\ op.aside = op.face /\ op.face # None
        /\ op.swapped => op.promoted /\ op.was
        /\ faults >= (IF op.known THEN 1 ELSE 2)
    BY <1>12 DEF ComeHome, OpStep, Life, Returning, Seats
  <2>2. tree' = op.aside /\ (\/ op.swapped /\ At("unswap", None, op.promoted, op.swapped, op.back)
                             \/ ~op.swapped /\ At("reenable", None, op.promoted, op.swapped, op.back))
    <3>1. CASE Gone
      BY <3>1 DEF Gone
    <3>2. CASE tree' = op.aside /\ op' = [op EXCEPT !.aside = None,
                                                    !.pc = IF op.swapped THEN "unswap" ELSE "reenable"]
      <4>1. CASE op.swapped
        BY <3>2, <4>1, OpWrites DEF Typed, RestTyped, Places
      <4>2. CASE ~op.swapped
        BY <3>2, <4>2, OpWrites DEF Typed, RestTyped, Places
      <4> QED
        BY <4>1, <4>2
    <3> QED
      BY <1>12, <3>1, <3>2, OpMoves DEF ComeHome, Typed
  <2>3. CASE tree' = op.aside /\ op.swapped /\ At("unswap", None, op.promoted, op.swapped, op.back)
    BY <1>1, <2>1, <2>3 DEF Seats, At, Returning
  <2>4. CASE tree' = op.aside /\ ~op.swapped /\ At("reenable", None, op.promoted, op.swapped, op.back)
    BY <1>1, <2>1, <2>4 DEF Seats, At, Returning
  <2> QED
    BY <2>2, <2>3, <2>4
<1>13. CASE Unswap
  <2>1. /\ op.back /\ op.pc = "unswap" /\ op.aside = None /\ tree = op.face /\ op.face # None
        /\ op.promoted /\ op.swapped /\ op.was /\ tree' = tree
        /\ faults >= (IF op.known THEN 1 ELSE 2)
    BY <1>13 DEF Unswap, OpStep, Life, Returning, Seats
  <2>2. \/ At("republish", op.aside, op.promoted, op.swapped, op.back)
        \/ At("reenable", op.aside, op.promoted, op.swapped, op.back)
    BY <1>13, OpMoves DEF Unswap, Typed, Places, Gone
  <2>3. CASE At("republish", op.aside, op.promoted, op.swapped, op.back)
    BY <1>1, <2>1, <2>3 DEF Seats, At, Returning
  <2>4. CASE At("reenable", op.aside, op.promoted, op.swapped, op.back)
    BY <1>1, <2>1, <2>4 DEF Seats, At, Returning
  <2> QED
    BY <2>2, <2>3, <2>4
<1>14. CASE Republish
  <2>1. /\ op.back /\ op.pc = "republish" /\ op.aside = None /\ tree = op.face /\ op.face # None
        /\ op.promoted /\ op.swapped /\ op.was /\ tree' = tree
        /\ faults >= (IF op.known THEN 1 ELSE 2)
    BY <1>14 DEF Republish, OpStep, Life, Returning, Seats
  <2>2. At("reenable", op.aside, op.promoted, op.swapped, op.back)
    BY <1>14, OpMoves DEF Republish, Typed, Places, Gone
  <2> QED
    BY <1>1, <2>1, <2>2 DEF Seats, At
<1>15. ~Adopt /\ ~DeleteOld /\ ~Reenable
  BY NoNewUpdate
<1> QED
  BY <1>2, <1>3, <1>5, <1>6, <1>7, <1>8, <1>9, <1>11, <1>12, <1>13, <1>14, <1>15
  DEF ConfirmStep, Update

\* Whoever steps in beside an update is on record as having raced it.
LEMMA BesideConfirms ==
  ASSUME Typed, Life, [Next]_vars, ~ConfirmStep, races' = 0, op'.of # None
  PROVE  \/ UNCHANGED <<file, live, op, un, races, faults>>
         \/ /\ op'.pc = "measure" /\ stored = op'.of /\ UNCHANGED <<file, live, un, races, faults>>
            /\ op' = [NoOp EXCEPT !.pc = "measure", !.gen = op'.gen, !.of = op'.of]
<1> USE DEF Life, Busy, UnStep, Keep, NoOp
<1>1. CASE \E p \in Previews : Preview(p) \/ Cancel(p)
  BY <1>1 DEF Preview, Cancel
<1>2. CASE \E p \in Previews : Confirm(p)
  <2> PICK p \in Previews : Confirm(p)
    BY <1>2
  <2>1. races' = races /\ UNCHANGED <<file, live, un, faults>>
    BY RacesTyped DEF Confirm
  <2>2. CASE op' = op
    BY <2>1, <2>2
  <2>3. CASE /\ Consented(p)
             /\ op' = [NoOp EXCEPT !.pc = IF p.of = None THEN "promote" ELSE "measure",
                                   !.gen = p.gen, !.of = p.of]
    <3>1. p.of # None /\ op'.gen = p.gen /\ op'.of = p.of
      BY <2>3
    <3>2. stored = p.of
      BY <2>3, <3>1 DEF Consented, Recorded
    <3> QED
      BY <2>1, <2>3, <3>1, <3>2
  <2> QED
    BY <2>2, <2>3 DEF Confirm
<1>3. op' = op => op.pc # "idle"
  OBVIOUS
<1>4. CASE Uninstall \/ UserEnables \/ UserDisables
  BY <1>3, <1>4, RacesTyped DEF Uninstall, UserEnables, UserDisables
<1>5. CASE RemoveTree("tree", "rest") \/ RemoveTree("rest", "asset") \/ RemoveAsset \/ RemoveRow
  <2>1. un # "idle" /\ op' = op /\ races' = races
    BY <1>5 DEF RemoveTree, RemoveAsset, RemoveRow
  <2> QED
    BY <1>3, <2>1
<1>6. CASE Crash \/ Start \/ StartUnread
  BY <1>6 DEF Crash, Start, StartUnread
<1>7. CASE UNCHANGED vars
  BY <1>7 DEF vars
<1> QED
  BY <1>1, <1>2, <1>4, <1>5, <1>6, <1>7 DEF Next, UninstallStep

LEMMA BesideSeats ==
  ASSUME Typed, Life, Seats, [Next]_vars, ~ConfirmStep
  PROVE  Seats'
<1> SUFFICES ASSUME races' = 0, op'.of # None
             PROVE  Seats'
  BY DEF Seats
<1>1. CASE UNCHANGED <<file, live, op, un, races, faults>>
  BY <1>1 DEF Seats, file, live, code
<1>2. CASE /\ op'.pc = "measure" /\ stored = op'.of
           /\ op' = [NoOp EXCEPT !.pc = "measure", !.gen = op'.gen, !.of = op'.of]
  BY <1>2 DEF Seats, NoOp
<1> QED
  BY <1>1, <1>2, BesideConfirms
-------------------------------------------------------------------------------
(* What the row records.                                                     *)

LEMMA BesideRows ==
  ASSUME Typed, Life, Rows, [Next]_vars, ~ConfirmStep
  PROVE  Rows'
<1> SUFFICES ASSUME races' = 0, op'.of # None
             PROVE  Rows'
  BY DEF Rows
<1>1. CASE UNCHANGED <<file, live, op, un, races, faults>>
  BY <1>1 DEF Rows, Usable, file, live, code
<1>2. CASE /\ op'.pc = "measure" /\ stored = op'.of
           /\ op' = [NoOp EXCEPT !.pc = "measure", !.gen = op'.gen, !.of = op'.of]
           /\ UNCHANGED file
  BY <1>2 DEF Rows, NoOp, file
<1> QED
  BY <1>1, <1>2, BesideConfirms

LEMMA ConfirmRows ==
  ASSUME Typed, Life, Seats, Rows, Backed, ConfirmStep
  PROVE  Rows'
<1> SUFFICES ASSUME races = 0, op.of # None, op'.of # None
             PROVE  Rows'
  BY ConfirmFrame, NoNewUpdate DEF Rows
<1>1. races' = 0 /\ op.gen # None
  BY ConfirmFrame, NoNewUpdate
<1>2. CASE Promote
  <2>1. /\ op.pc = "promote" /\ ~op.swapped /\ UNCHANGED <<stored, row>> /\ stored = op.of
        /\ row \in {"disabled", "blocked"} /\ (op.was => Usable) /\ op.aside # None
    BY <1>1, <1>2 DEF Promote, Rows, OpStep, live, code, Seats, Life, Busy, Returning, Usable
  <2>2. \/ At("publish", op.aside, TRUE, op.swapped, op.back)
        \/ At("clear", op.aside, op.promoted, op.swapped, TRUE)
    BY <1>2, <2>1, OpMoves, OpWrites DEF Promote, Failing, Typed, RestTyped, Places, Gone
  <2> QED
    BY <1>1, <2>1, <2>2 DEF Rows, At, Usable
<1>3. CASE Publish
  <2>1. /\ op.pc = "publish" /\ ~op.swapped /\ UNCHANGED <<stored, row>> /\ stored = op.of
        /\ row \in {"disabled", "blocked"} /\ (op.was => Usable) /\ op.aside # None
    BY <1>1, <1>3 DEF Publish, Rows, OpStep, live, code, Seats, Life, Busy, Returning, Usable
  <2>2. \/ At("swap", op.aside, op.promoted, op.swapped, op.back)
        \/ At("clear", op.aside, op.promoted, op.swapped, TRUE)
    BY <1>3, <2>1, OpMoves, OpWrites DEF Publish, Failing, Typed, RestTyped, Places, Gone
  <2> QED
    BY <1>1, <2>1, <2>2 DEF Rows, At, Usable
<1>5. CASE Measure
  <2>1. /\ op.pc = "measure" /\ UNCHANGED <<file, live>>
        /\ op'.of = op.of /\ op'.swapped = op.swapped /\ op'.aside = op.aside
        /\ op'.was = (row = "enabled")
        /\ op'.pc = IF row = "enabled" THEN "disable" ELSE "aside"
    BY <1>5 DEF Measure, OpStep, Confirms, Typed
  <2>2. stored = op.of /\ ~op.swapped
    BY <2>1 DEF Seats, Rows, Usable
  <2>3. row \in {"disabled", "enabled", "blocked"}
    BY <2>1, <2>2 DEF Typed, LiveTyped, Life, Busy
  <2>4. UNCHANGED <<stored, row>> /\ (row = "enabled" => Usable')
    BY <2>1 DEF file, live, Usable
  <2> QED
    BY <1>1, <2>1, <2>2, <2>3, <2>4 DEF Rows, Usable
<1>6. CASE DisableOld
  <2>1. /\ op.pc = "disable" /\ ~op.swapped /\ stored' = stored /\ stored = op.of /\ op.was
        /\ op.aside = None /\ row' \in {"disabled", "enabled"} /\ (DisableOK => row' = "disabled")
    BY <1>1, <1>6 DEF DisableOld, Rows, DisableOK, DisableFails, OpStep, live, code, Seats, Life, Busy, Returning, Usable
  <2>2. \/ DisableOK /\ At("aside", op.aside, op.promoted, op.swapped, op.back)
        \/ At("clear", op.aside, op.promoted, op.swapped, TRUE)
    BY <1>6, <2>1, OpMoves, OpWrites DEF DisableOld, Failing, Typed, RestTyped, Places, Gone
  <2> QED
    BY <1>1, <2>1, <2>2 DEF Rows, At, Usable
<1>7. CASE StepAside
  <2>1. /\ op.pc = "aside" /\ ~op.swapped /\ UNCHANGED <<stored, row>> /\ stored = op.of
        /\ row \in {"disabled", "blocked"} /\ (op.was => Usable)
    BY <1>1, <1>7 DEF StepAside, Rows, OpStep, live, code, Seats, Life, Busy, Returning, Usable
  <2>2. \/ At("promote", tree, op.promoted, op.swapped, op.back)
        \/ At("clear", op.aside, op.promoted, op.swapped, TRUE)
    BY <1>7, <2>1, OpMoves, OpWrites DEF StepAside, Failing, Typed, RestTyped, Places, Gone
  <2> QED
    BY <1>1, <2>1, <2>2 DEF Rows, At, Usable
<1>8. CASE Swap
  <2>1. /\ op.pc = "swap" /\ ~op.swapped /\ stored = op.of /\ op.aside # None
        /\ row \in {"disabled", "blocked"} /\ (op.was => Usable)
        /\ \/ ReplaceFails /\ UNCHANGED <<stored, row>>
           \/ stored' = op.gen /\ row' = "disabled"
    BY <1>1, <1>8 DEF Swap, ReplaceOK, ReplaceFails, Rows, OpStep, live, Seats, Usable
  <2>2. \/ /\ stored' = op.gen /\ row' = "disabled"
           /\ \/ At("enable", op.aside, op.promoted, TRUE, op.back)
              \/ At("delete", op.aside, op.promoted, TRUE, op.back)
        \/ /\ UNCHANGED <<stored, row>> /\ At("clear", op.aside, op.promoted, op.swapped, TRUE)
    <3>1. CASE /\ ReplaceOK(op.gen, op.gen, "disabled")
               /\ op' = [op EXCEPT !.swapped = TRUE, !.pc = IF op.was THEN "enable" ELSE "delete"]
      <4>1. CASE op.was
        BY <3>1, <4>1, OpWrites DEF Typed, RestTyped, Places, ReplaceOK
      <4>2. CASE ~op.was
        BY <3>1, <4>2, OpWrites DEF Typed, RestTyped, Places, ReplaceOK
      <4> QED
        BY <4>1, <4>2
    <3>2. CASE ReplaceFails /\ Fail
      BY <2>1, <3>2, OpMoves DEF ReplaceFails, Failing, Typed, live
    <3> QED
      BY <1>8, <3>1, <3>2 DEF Swap
  <2> QED
    BY <1>1, <2>1, <2>2 DEF Rows, At, Usable
<1>9. CASE EnableNew
  <2>1. /\ op.pc = "enable" /\ op.swapped /\ stored' = stored /\ stored = op.gen /\ op.aside # None
        /\ row = "disabled" /\ row' \in {"disabled", "enabled"}
        /\ (EnableFails => row' = "disabled")
    BY <1>1, <1>9 DEF EnableNew, Rows, EnableOK, EnableFails, OpStep, live, code, Seats, Life, Busy, Returning, Usable
  <2>2. \/ At("delete", op.aside, op.promoted, op.swapped, op.back)
        \/ EnableFails /\ At("clear", op.aside, op.promoted, op.swapped, TRUE)
    BY <1>9, <2>1, OpMoves, OpWrites DEF EnableNew, Failing, Typed, RestTyped, Places, Gone
  <2> QED
    BY <1>1, <2>1, <2>2 DEF Rows, At, Usable
<1>11. CASE ClearSeat
  <2>1. /\ op.pc = "clear" /\ UNCHANGED <<stored, row>>
    BY <1>1, <1>11 DEF ClearSeat, Rows, OpStep, live, code, Seats, Life, Busy, Returning, Usable
  <2>2. \/ op.aside # None /\ At("home", op.aside, op.promoted, op.swapped, op.back)
    BY <1>11, <2>1, OpMoves, OpWrites DEF ClearSeat, Failing, Typed, RestTyped, Places, Gone
  <2> QED
    BY <1>1, <2>1, <2>2 DEF Rows, At, Usable
<1>12. CASE ComeHome
  <2>1. /\ op.pc = "home" /\ row \in {"disabled", "blocked"} /\ stored' = stored
        /\ stored = IF op.swapped THEN op.gen ELSE op.of
        /\ (op.was \/ op.swapped => Usable)
    BY <1>1, <1>12 DEF ComeHome, Rows, OpStep, Seats, Usable
  <2>2. row' = row /\ (\/ op.swapped /\ At("unswap", None, op.promoted, op.swapped, op.back)
                       \/ ~op.swapped /\ At("reenable", None, op.promoted, op.swapped, op.back))
    <3>1. CASE Gone
      BY <3>1 DEF Gone
    <3>2. CASE row' = row /\ op' = [op EXCEPT !.aside = None,
                                              !.pc = IF op.swapped THEN "unswap" ELSE "reenable"]
      <4>1. CASE op.swapped
        BY <3>2, <4>1, OpWrites DEF Typed, RestTyped, Places
      <4>2. CASE ~op.swapped
        BY <3>2, <4>2, OpWrites DEF Typed, RestTyped, Places
      <4> QED
        BY <4>1, <4>2
    <3> QED
      BY <1>12, <3>1, <3>2, OpMoves DEF ComeHome, Typed
  <2> QED
    BY <1>1, <2>1, <2>2 DEF Rows, At, Usable
<1>13. CASE Unswap
  <2>1. op.pc = "unswap" /\ op.swapped
    BY <1>13 DEF Unswap, OpStep, Seats
  <2>2. /\ stored' = op.of
        /\ \/ At("republish", op.aside, op.promoted, op.swapped, op.back) /\ row' = "disabled"
           \/ At("reenable", op.aside, op.promoted, op.swapped, op.back) /\ ~op.known /\ row' = "blocked"
    BY <1>13, OpMoves DEF Unswap, ReplaceOK, Gone, Typed, Places
  <2> QED
    BY <1>1, <2>1, <2>2 DEF Rows, At, Usable
<1>14. CASE Republish
  <2>1. /\ op.pc = "republish" /\ UNCHANGED <<stored, row>> /\ stored = op.of
        /\ row \in {"disabled", "blocked"} /\ (op.was \/ op.swapped => Usable)
    BY <1>1, <1>14 DEF Republish, Rows, OpStep, live, code, Seats, Life, Busy, Returning, Usable
  <2>2. \/ At("reenable", op.aside, op.promoted, op.swapped, op.back)
    BY <1>14, <2>1, OpMoves, OpWrites DEF Republish, Failing, Typed, RestTyped, Places, Gone
  <2> QED
    BY <1>1, <2>1, <2>2 DEF Rows, At, Usable
<1>15. ~Adopt /\ ~DeleteOld /\ ~Reenable
  BY NoNewUpdate
<1> QED
  BY <1>2, <1>3, <1>5, <1>6, <1>7, <1>8, <1>9, <1>11, <1>12, <1>13, <1>14, <1>15
  DEF ConfirmStep, Update
-------------------------------------------------------------------------------
(* What is served.                                                           *)

LEMMA BesideServed ==
  ASSUME Typed, Life, Served, [Next]_vars, ~ConfirmStep
  PROVE  Served'
<1> SUFFICES ASSUME races' = 0, op'.of # None
             PROVE  Served'
  BY DEF Served
<1>1. CASE UNCHANGED <<file, live, op, un, races, faults>>
  BY <1>1 DEF Served, file
<1>2. CASE op'.pc = "measure"
  BY <1>2 DEF Served
<1> QED
  BY <1>1, <1>2, BesideConfirms

LEMMA ConfirmServed ==
  ASSUME Typed, Life, Seats, Rows, Served, ConfirmStep
  PROVE  Served'
<1> SUFFICES ASSUME races = 0, op.of # None, op'.of # None
             PROVE  Served'
  BY ConfirmFrame, NoNewUpdate DEF Served
<1>1. /\ races' = 0 /\ faults \in Nat /\ faults' \in Nat /\ faults' >= faults
  BY ConfirmFrame
<1>2. CASE Promote
  <2>1. op.pc = "promote" /\ ~op.promoted /\ asset' = asset
    BY <1>2 DEF Promote, OpStep, Seats
  <2>2. \/ At("publish", op.aside, TRUE, op.swapped, op.back)
        \/ At("clear", op.aside, op.promoted, op.swapped, TRUE)
    BY <1>2, OpMoves, OpWrites DEF Promote, Failing, Typed, RestTyped, Places
  <2> QED
    BY <1>1, <2>1, <2>2 DEF Served, At
<1>3. CASE Publish
  <2>1. op.pc = "publish" /\ op.promoted
    BY <1>3 DEF Publish, OpStep, Seats
  <2>2. \/ At("swap", op.aside, op.promoted, op.swapped, op.back)
        \/ At("clear", op.aside, op.promoted, op.swapped, TRUE)
    BY <1>3, OpMoves DEF Publish, Failing, Typed, Places
  <2> QED
    BY <1>1, <2>1, <2>2 DEF Served, At
<1>4. CASE Measure
  <2>1. /\ op'.pc \in {"disable", "aside"} /\ op'.served = asset /\ asset' = asset
    BY <1>4 DEF Measure, OpStep, Confirms, Typed, file
  <2> QED
    BY <1>1, <2>1 DEF Served
<1>5. CASE DisableOld \/ StepAside \/ EnableNew \/ ClearSeat
  <2>1. /\ op.pc \notin {"measure", "reenable"} /\ asset' = asset
        /\ op'.pc # "reenable" /\ op'.served = op.served /\ op'.promoted = op.promoted
    BY <1>5, OpMoves, OpWrites DEF DisableOld, StepAside, EnableNew, ClearSeat, OpStep,
       Failing, At, Gone, Typed, RestTyped, Places
  <2> QED
    BY <1>1, <2>1 DEF Served
<1>6. CASE Swap
  <2>1. op.pc = "swap" /\ op.promoted
    BY <1>6 DEF Swap, OpStep, Seats
  <2>2. op'.promoted /\ op'.pc # "reenable"
    BY <1>6, <2>1, OpMoves DEF Swap, Failing, At, Gone, Typed, Confirms
  <2> QED
    BY <1>1, <2>2 DEF Served
<1>7. CASE ComeHome
  <2>1. op.pc = "home" /\ (op.swapped => op.promoted) /\ asset' = asset
    BY <1>7 DEF ComeHome, OpStep, Seats
  <2>2. /\ op'.pc = (IF op.swapped THEN "unswap" ELSE "reenable")
        /\ op'.promoted = op.promoted /\ op'.swapped = op.swapped /\ op'.served = op.served
    BY <1>7, OpMoves DEF ComeHome, Gone, Typed, Confirms
  <2> QED
    BY <1>1, <2>1, <2>2 DEF Served
<1>8. CASE Unswap
  <2>1. op.pc = "unswap" /\ op.promoted /\ op.swapped /\ (~op.known => faults >= 2)
    BY <1>8 DEF Unswap, OpStep, Seats, Life, Returning
  <2>2. \/ At("republish", op.aside, op.promoted, op.swapped, op.back)
        \/ At("reenable", op.aside, op.promoted, op.swapped, op.back) /\ ~op.known
    BY <1>8, OpMoves DEF Unswap, Gone, Typed, Places
  <2>3. CASE At("republish", op.aside, op.promoted, op.swapped, op.back)
    BY <1>1, <2>1, <2>3 DEF Served, At
  <2>4. CASE op'.pc = "reenable" /\ op'.promoted = op.promoted /\ ~op.known
    BY <1>1, <2>1, <2>4 DEF Served
  <2> QED
    BY <2>2, <2>3, <2>4 DEF At
<1>9. CASE Republish
  <2>1. /\ op.pc = "republish" /\ op.promoted /\ op.swapped /\ tree = op.face /\ faults >= 1
    BY <1>1, <1>9 DEF Republish, OpStep, Seats, Life, Returning
  <2>2. At("reenable", op.aside, op.promoted, op.swapped, op.back) /\ PublishOK(op.face)
    BY <1>9, OpMoves DEF Republish, Gone, Typed, Places
  <2>3. faults' < 2 => asset' = AssetOf(op.face)
    BY <1>1, <2>1, <2>2, FaultsTyped DEF PublishOK, AssetOf
  <2> QED
    BY <1>1, <2>1, <2>2, <2>3 DEF Served, At, AssetOf
<1>10. ~Adopt /\ ~DeleteOld /\ ~Reenable
  BY NoNewUpdate
<1> QED
  BY <1>2, <1>3, <1>4, <1>5, <1>6, <1>7, <1>8, <1>9, <1>10 DEF ConfirmStep, Update
-------------------------------------------------------------------------------
(* What one failed call leaves of it all.                                    *)

\* What of Backed only the code of the process can disturb.
Loaded ==
  /\ \A g \in Gens : modules[g] \in {None, g}
  /\ inner # None => modules[inner] = inner
  /\ running # None => running = stored /\ row = "enabled" /\ inner # None

\* An enable brings up the recorded generation and nothing else.
LEMMA EnableBacked ==
  ASSUME Typed, Loaded, EnableOK \/ EnableFails, stored' = stored,
         row # "none" => def = stored \/ def = None, Usable => tree \in {stored, None}
  PROVE  /\ Loaded' /\ def' = def /\ (Usable <=> Usable') /\ (row # "none" <=> row' # "none")
<1> USE DEF Usable, Typed, LiveTyped
<1>1. CASE UNCHANGED live
  BY <1>1 DEF live, code, Loaded
<1>2. CASE row = "disabled" /\ Imported # None /\ Load /\ UNCHANGED def
           /\ ((row' = "enabled" /\ running' = Imported) \/ UNCHANGED <<row, running>>)
  <2>1. def = stored /\ stored # None /\ def \in Gens
    BY <1>2 DEF Imported, Maybe
  <2>2. Imported = stored
    BY <1>2, <2>1 DEF Imported, Loaded
  <2>3. modules' = [modules EXCEPT ![stored] = stored] /\ inner' \in {inner, stored} /\ inner' # None
    BY <1>2, <2>1, <2>2 DEF Load
  <2>4. /\ \A g \in Gens : modules'[g] \in {None, g}
        /\ modules'[inner'] = inner'
    BY <2>1, <2>3 DEF Loaded, Maybe
  <2> QED
    BY <1>2, <2>2, <2>3, <2>4 DEF Loaded
<1> QED
  BY <1>1, <1>2 DEF EnableOK, EnableFails, live, code

LEMMA DisableBacked ==
  ASSUME Typed, Loaded, DisableOK \/ DisableFails, stored' = stored
  PROVE  /\ Loaded' /\ def' = def /\ (Usable' => Usable) /\ (row # "none" <=> row' # "none")
BY DEF Loaded, Usable, DisableOK, DisableFails, live, code

\* A step that leaves the process and the record alone keeps what is loaded.
LEMMA LoadedStays ==
  ASSUME Loaded, UNCHANGED <<stored, row, code>>
  PROVE  Loaded'
BY DEF Loaded, code

LEMMA ConfirmBacked ==
  ASSUME Typed, Life, Seats, Rows, Backed, ConfirmStep
  PROVE  Backed'
<1>1. /\ UNCHANGED <<un, torn, races>> /\ faults \in Nat /\ faults' \in Nat /\ faults' >= faults
      /\ op.gen # None /\ op.pc # "idle"
  BY ConfirmFrame, PluginRowsAssumption DEF Busy
<1> SUFFICES ASSUME OneFailure'
             PROVE  Backed'
  BY DEF Backed
<1>2. OneFailure /\ races = 0 /\ un = "idle" /\ Loaded
  BY <1>1 DEF OneFailure, Backed, Loaded, Life, Busy
<1>3. row # "none" => def = stored \/ def = None
  BY <1>2 DEF Backed
<1>4. CASE op.of = None
  <2>1. op.pc \in {"promote", "publish", "adopt"} /\ row = "none" /\ running = None
        /\ (op.pc \in {"publish", "adopt"} => tree = op.gen)
    BY <1>1, <1>2, <1>4 DEF Life, Busy, Loaded, Backed
  <2>2. CASE Promote
    <3>1. UNCHANGED <<stored, row, code>>
      BY <2>2 DEF Promote, live
    <3>2. \/ Gone
          \/ tree' = op.gen /\ op'.gen = op.gen
      BY <1>4, <2>2, OpMoves, OpWrites DEF Promote, Failing, At, Typed, RestTyped, Places
    <3> QED
      BY <1>1, <1>2, <2>1, <3>1, <3>2, LoadedStays, <1>4, <2>2, OpMoves, OpWrites
      DEF Backed, Loaded, Usable, Gone, Promote, Failing, At, Typed, RestTyped, Places
  <2>3. CASE Publish
    <3>1. UNCHANGED <<stored, row, code, tree>>
      BY <2>3 DEF Publish, live
    <3>2. Gone \/ op'.gen = op.gen
      BY <1>4, <2>3, OpMoves DEF Publish, OpStep, Failing, At, Typed, Places
    <3>3. op'.of = None
      BY <1>4, <2>3, OpMoves DEF Publish, Failing, At, Gone, Typed, Places
    <3>4. tree = op.gen
      BY <2>1, <2>3 DEF Publish, OpStep
    <3> QED
      BY <1>1, <1>2, <2>1, <3>1, <3>2, <3>3, <3>4, LoadedStays DEF Backed, Loaded, Usable, Gone
  <2>4. CASE Adopt
    <3>1. Gone /\ tree' = tree /\ tree = op.gen /\ UNCHANGED code
      BY <2>1, <2>4, OpMoves DEF Adopt, OpStep, Typed
    <3>2. Loaded'
      BY <1>2, <2>1, <3>1 DEF Loaded, code
    <3>3. \/ stored' = op.gen /\ row' = "disabled" /\ def' = op.gen
          \/ row' = "none"
      BY <2>1, <2>4 DEF Adopt
    <3> QED
      BY <1>1, <1>2, <3>1, <3>2, <3>3 DEF Backed, Loaded, Usable, Gone, Seated
  <2> QED
    BY <1>4, <2>1, <2>2, <2>3, <2>4
    DEF ConfirmStep, Update, Measure, DisableOld, StepAside, Swap, EnableNew, DeleteOld,
        ClearSeat, ComeHome, Unswap, Republish, Reenable, OpStep
<1>5. CASE op.of # None /\ (Promote \/ Publish \/ StepAside \/ ClearSeat \/ Republish)
  <2>1. UNCHANGED <<stored, row, def, code>> /\ Loaded'
    BY <1>2, <1>5, LoadedStays DEF Promote, Publish, StepAside, ClearSeat, Republish, live
  <2>2. CASE Promote \/ Publish
    <3>1. op.pc \in {"promote", "publish"} /\ op.aside = op.face /\ op.face # None
      BY <1>2, <1>5, <2>2 DEF Promote, Publish, OpStep, Seats
    <3>2. op'.of = op.of /\ op'.face = op.face /\ op'.aside = op.aside
          /\ op'.pc \in {"publish", "swap", "clear"}
      BY <1>5, <2>2, OpMoves, OpWrites DEF Promote, Publish, Failing, At, Typed, RestTyped, Places
    <3> QED
      BY <1>1, <1>2, <1>3, <1>5, <2>1, <3>1, <3>2 DEF Backed, Loaded, Usable, Seated
  <2>3. CASE StepAside
    <3>1. op.pc = "aside" /\ op.aside = None /\ tree = op.face
      BY <1>2, <1>5, <2>3 DEF StepAside, OpStep, Seats
    <3>2. \/ /\ op'.of = op.of /\ op'.face = op.face /\ op'.pc = "promote"
          \/ /\ tree' = tree /\ op'.of = op.of /\ op'.face = op.face /\ op'.pc = "clear"
             /\ op'.aside = op.aside
      BY <1>5, <2>3, OpMoves, OpWrites DEF StepAside, Failing, At, Typed, RestTyped, Places
    <3> QED
      BY <1>1, <1>2, <1>3, <1>5, <2>1, <3>1, <3>2 DEF Backed, Loaded, Usable, Seated
  <2>4. CASE ClearSeat
    <3>1. op.pc = "clear" /\ (op.aside = None => tree' = tree)
      BY <1>2, <1>5, <2>4 DEF ClearSeat, OpStep, Seats
    <3>2. \/ op.aside = None /\ Gone
          \/ op.aside # None /\ op'.of = op.of /\ op'.face = op.face /\ op'.pc = "home"
      BY <1>5, <2>4, OpMoves DEF ClearSeat, At, Typed, Places
    <3> QED
      BY <1>1, <1>2, <1>3, <1>5, <2>1, <3>1, <3>2 DEF Backed, Loaded, Usable, Seated, Gone
  <2>5. CASE Republish
    <3>1. op.pc = "republish" /\ tree' = tree
      BY <2>5 DEF Republish, OpStep
    <3>2. \/ Gone
          \/ op'.of = op.of /\ op'.face = op.face /\ op'.pc = "reenable"
      BY <2>5, OpMoves DEF Republish, At, Typed, Places
    <3> QED
      BY <1>1, <1>2, <1>3, <1>5, <2>1, <3>1, <3>2 DEF Backed, Loaded, Usable, Seated, Gone
  <2> QED
    BY <1>5, <2>2, <2>3, <2>4, <2>5
<1>6. CASE Measure
  <2>1. /\ op'.face = tree /\ op'.of = op.of /\ op'.pc \in {"disable", "aside"}
        /\ op'.aside = None /\ op.pc = "measure" /\ stored = op.of /\ op.of # None
        /\ UNCHANGED <<tree, stored, row, def, code>>
    BY <1>2, <1>6 DEF Measure, OpStep, Confirms, Typed, file, live, Seats, Rows, Life, Busy
  <2> QED
    BY <1>1, <1>2, <1>3, <2>1, LoadedStays DEF Backed, Loaded, Usable, Seated
<1>7. CASE DisableOld
  <2>1. /\ op.pc = "disable" /\ op.aside = None /\ op.of # None
        /\ op'.face = op.face /\ op'.of = op.of /\ op'.pc \in {"aside", "clear"}
        /\ op'.aside = op.aside /\ UNCHANGED <<tree, stored>>
    BY <1>2, <1>7, OpMoves DEF DisableOld, OpStep, Seats, Failing, At, Typed, Places, Life, Busy
  <2>2. Loaded' /\ def' = def /\ (Usable' => Usable) /\ (row # "none" <=> row' # "none")
    BY <1>2, <1>7, <2>1, DisableBacked DEF DisableOld
  <2> QED
    BY <1>1, <1>2, <1>3, <2>1, <2>2 DEF Backed, Loaded, Seated
<1>8. CASE Swap
  <2>1. /\ op.of # None /\ tree = op.gen /\ tree' = tree /\ op.pc = "swap" /\ stored = op.of
        /\ op.aside = op.face /\ op.face # None /\ row \in {"disabled", "blocked"}
    BY <1>2, <1>8 DEF Swap, OpStep, Seats, Rows, Life, Busy
  <2>2. code' = code /\ running = None
    BY <1>2, <1>8, <2>1 DEF Swap, ReplaceOK, ReplaceFails, Loaded, live
  <2>3. Loaded'
    BY <1>2, <2>2 DEF Loaded, code
  <2>4. CASE /\ ReplaceOK(op.gen, op.gen, "disabled")
             /\ op' = [op EXCEPT !.swapped = TRUE, !.pc = IF op.was THEN "enable" ELSE "delete"]
    <3>1. /\ stored' = op.gen /\ def' = op.gen /\ op'.of = op.of /\ op'.face = op.face
          /\ op'.pc = IF op.was THEN "enable" ELSE "delete"
      BY <2>4 DEF ReplaceOK, Typed, Confirms
    <3>2. op.was => Usable
      BY <1>2, <2>1 DEF Rows
    <3>3. op.was => op.face \in {op.of, None}
      BY <1>2, <2>1, <3>2 DEF Backed
    <3> QED
      BY <1>1, <1>2, <2>1, <2>3, <3>1, <3>3 DEF Backed, Loaded, Seated
  <2>5. CASE ReplaceFails /\ Fail
    <3>1. /\ UNCHANGED <<stored, row, def>> /\ op'.of = op.of /\ op'.face = op.face
          /\ op'.pc = "clear" /\ op'.aside = op.aside
      BY <2>1, <2>5, OpMoves DEF ReplaceFails, Failing, At, Typed, live
    <3> QED
      BY <1>1, <1>2, <1>3, <2>1, <2>3, <3>1 DEF Backed, Loaded, Usable, Seated
  <2> QED
    BY <1>8, <2>4, <2>5 DEF Swap
<1>9. CASE EnableNew
  <2>1. /\ op.pc = "enable" /\ tree = op.gen /\ tree' = tree /\ stored = op.gen /\ op.of # None
        /\ op.aside = op.face /\ op.face # None /\ stored' = stored
        /\ op'.of = op.of /\ op'.face = op.face /\ op'.pc \in {"delete", "clear"}
        /\ op'.aside = op.aside
    BY <1>2, <1>9, OpMoves DEF EnableNew, OpStep, Seats, Rows, Failing, At, Typed, Places, Life, Busy
  <2>2. Loaded' /\ def' = def /\ (Usable <=> Usable') /\ (row # "none" <=> row' # "none")
    BY <1>2, <1>3, <1>9, <2>1, EnableBacked DEF EnableNew
  <2> QED
    BY <1>1, <1>2, <1>3, <2>1, <2>2 DEF Backed, Loaded, Seated
<1>10. CASE DeleteOld
  <2>1. op.pc = "delete" /\ Gone /\ UNCHANGED <<tree, stored, row, def, code>>
    BY <1>10, OpMoves DEF DeleteOld, OpStep, Typed, file, live
  <2> QED
    BY <1>1, <1>2, <1>3, <2>1, LoadedStays DEF Backed, Loaded, Usable, Seated, Gone
<1>11. CASE ComeHome
  <2>1. /\ op.pc = "home" /\ op.of # None /\ op.aside = op.face /\ op.face # None
        /\ stored = IF op.swapped THEN op.gen ELSE op.of
        /\ UNCHANGED <<stored, def, code>>
    BY <1>2, <1>11 DEF ComeHome, OpStep, Seats, Rows, Life, Busy
  <2>2. Usable => op.face = op.of /\ def = stored
    BY <1>2, <2>1 DEF Backed
  <2>3. CASE /\ tree' = op.aside /\ UNCHANGED row
             /\ op' = [op EXCEPT !.aside = None, !.pc = IF op.swapped THEN "unswap" ELSE "reenable"]
    <3>1. /\ op'.of = op.of /\ op'.face = op.face
          /\ op'.pc = IF op.swapped THEN "unswap" ELSE "reenable"
      BY <2>3 DEF Typed, Confirms
    <3> QED
      BY <1>1, <1>2, <2>1, <2>2, <2>3, <3>1, LoadedStays DEF Backed, Loaded, Usable, Seated
  <2>4. CASE Gone /\ row' \in {"none", "blocked"}
    <3>1. running = None /\ row # "none"
      BY <1>2, <2>1 DEF Loaded, Rows
    <3> QED
      BY <1>1, <1>2, <1>3, <2>1, <2>4, <3>1 DEF Backed, Loaded, Usable, Gone, code
  <2> QED
    BY <1>11, <2>3, <2>4, OpMoves DEF ComeHome, Block, Typed
<1>12. CASE Unswap
  <2>1. /\ op.pc = "unswap" /\ op.of # None /\ tree = op.face /\ tree' = tree /\ op.face # None
        /\ row \in {"disabled", "blocked"} /\ Usable /\ op.known /\ faults >= 1
    BY <1>1, <1>2, <1>12 DEF Unswap, OpStep, Seats, Rows, Life, Busy, Returning, OneFailure
  <2>2. op.face = op.of /\ running = None
    BY <1>2, <2>1 DEF Backed, Loaded
  <2>3. /\ ReplaceOK(op.face, op.of, "disabled")
        /\ op'.of = op.of /\ op'.face = op.face /\ op'.pc = "republish"
    <3>1. ~ReplaceFails
      BY <1>1, <2>1, FaultsTyped DEF ReplaceFails, OneFailure
    <3>2. ReplaceOK(op.face, op.of, "disabled") /\ Goto("republish")
      BY <1>12, <2>1, <3>1 DEF Unswap
    <3> QED
      BY <3>2, OpMoves DEF At, Typed, Places
  <2>4. Loaded'
    BY <1>2, <2>2, <2>3 DEF ReplaceOK, Loaded, code
  <2> QED
    BY <1>1, <1>2, <2>1, <2>2, <2>3, <2>4 DEF Backed, Loaded, Usable, Seated, ReplaceOK
<1>13. CASE Reenable
  <2>1. /\ op.pc = "reenable" /\ op.of # None /\ Gone /\ UNCHANGED <<tree, stored>>
        /\ (Usable => tree = stored /\ def = stored)
    BY <1>2, <1>13, OpMoves DEF Reenable, OpStep, Typed, Life, Busy, Returning, Backed, Seated, Seats
  <2>2. Loaded' /\ def' = def /\ (Usable <=> Usable') /\ (row # "none" <=> row' # "none")
    BY <1>2, <1>3, <1>13, <2>1, EnableBacked, LoadedStays DEF Reenable, live, Usable
  <2> QED
    BY <1>1, <1>2, <2>1, <2>2 DEF Backed, Loaded, Seated, Gone
<1> QED
  BY <1>4, <1>5, <1>6, <1>7, <1>8, <1>9, <1>10, <1>11, <1>12, <1>13 DEF ConfirmStep, Update, Adopt, Life, OpStep, Busy

LEMMA BesideBacked ==
  ASSUME Typed, Life, Backed, [Next]_vars, ~ConfirmStep
  PROVE  Backed'
<1> SUFFICES ASSUME OneFailure'
             PROVE  Backed'
  BY DEF Backed
<1> USE PluginRowsAssumption DEF UnStep, Keep, Life, Busy
<1>1. CASE \E p \in Previews : Preview(p) \/ Cancel(p)
  <2>1. UNCHANGED <<file, live, op, un, torn, races, faults>>
    BY <1>1 DEF Preview, Cancel
  <2> QED
    BY <2>1, LoadedStays DEF Backed, Loaded, OneFailure, Seated, Usable, file, live
<1>2. CASE \E p \in Previews : Confirm(p)
  <2> PICK p \in Previews : Confirm(p)
    BY <1>2
  <2>1. /\ op.pc = "idle" /\ UNCHANGED <<file, live, un, torn, races, faults>>
        /\ op' = op \/ op'.pc = "measure" \/ (op'.pc = "promote" /\ op'.of = None /\ row = "none")
    <3>1. races' = races
      BY RacesTyped DEF Confirm, OneFailure
    <3>2. Consented(p) /\ p.of = None => row = "none"
      BY DEF Consented, Recorded, Typed, LiveTyped
    <3> QED
      BY <3>1, <3>2 DEF Confirm, NoOp
  <2>2. OneFailure /\ Loaded /\ Loaded'
    BY <2>1, LoadedStays DEF Backed, Loaded, OneFailure, file, live
  <2> QED
    BY <2>1, <2>2 DEF Backed, Loaded, Seated, Usable, NoOp, file, live
<1>3. CASE Uninstall
  <2>1. /\ op.pc = "idle" /\ un = "idle" /\ un' = "tree" /\ OneFailure
        /\ UNCHANGED <<file, live, op, torn>>
    BY <1>3, RacesTyped DEF Uninstall, OneFailure
  <2> QED
    BY <2>1, LoadedStays DEF Backed, Loaded, Seated, Usable, NoOp, file, live
<1>4. CASE RemoveTree("tree", "rest") \/ RemoveTree("rest", "asset") \/ RemoveAsset \/ RemoveRow
  <2>1. /\ op.pc = "idle" /\ op' = op /\ op = NoOp /\ races = 0 /\ un # "idle"
    BY <1>4 DEF RemoveTree, RemoveAsset, RemoveRow, OneFailure
  <2>2. (Fault \/ NoFault) /\ faults \in Nat /\ faults' \in Nat /\ faults' >= faults
    BY <1>4, FaultsTyped DEF RemoveTree, RemoveAsset, RemoveRow, DisableFails
  <2>3. OneFailure /\ Loaded /\ op.of = None
    BY <2>1, <2>2 DEF OneFailure, Backed, Loaded, NoOp
  <2>4. CASE RemoveTree("tree", "rest")
    <3>1. /\ un' = "rest" /\ UNCHANGED <<stored, row, def, code, torn>>
          /\ tree' = None \/ (tree' = tree /\ faults' >= 1)
      BY <2>2, <2>4, FaultsTyped DEF RemoveTree, live
    <3> QED
      BY <2>1, <2>3, <3>1, LoadedStays DEF Backed, Loaded, Seated, Usable
  <2>5. CASE RemoveTree("rest", "asset")
    <3>1. /\ un = "rest" /\ un' = "asset" /\ UNCHANGED <<stored, row, def, code, torn>>
          /\ tree' \in {None, tree} /\ (tree' = None \/ (tree' = tree /\ faults' = faults + 1))
      BY <2>5, FaultsTyped DEF RemoveTree, live
    <3>2. tree' = None
      BY <2>2, <2>3, <3>1 DEF Backed, OneFailure
    <3> QED
      BY <2>1, <2>3, <3>1, <3>2, LoadedStays DEF Backed, Loaded, Seated, Usable
  <2>6. CASE RemoveAsset
    <3>1. un = "asset" /\ un' = "row" /\ UNCHANGED <<tree, stored, row, def, code, torn>>
      BY <2>6 DEF RemoveAsset, live
    <3> QED
      BY <2>1, <2>3, <3>1, LoadedStays DEF Backed, Loaded, Seated, Usable
  <2>7. CASE RemoveRow
    <3>1. un' = "idle" /\ tree' = tree /\ tree = None
      BY <2>3, <2>7 DEF RemoveRow, Backed
    <3>2. CASE /\ row # "none" /\ DropRow /\ UNCHANGED <<modules, inner, torn>>
               /\ running' = IF row = "enabled" THEN None ELSE running
      <4>1. row' = "none" /\ running' = None
        BY <2>3, <3>2 DEF DropRow, Loaded
      <4> QED
        BY <2>1, <2>3, <3>1, <3>2, <4>1 DEF Backed, Loaded, Usable
    <3>3. CASE DisableFails /\ torn' = TRUE /\ UNCHANGED stored
      <4>1. Loaded' /\ def' = def /\ (Usable' => Usable) /\ (row # "none" <=> row' # "none")
        BY <2>3, <3>3, DisableBacked
      <4> QED
        BY <2>1, <2>3, <3>1, <3>3, <4>1 DEF Backed, Loaded
    <3>4. CASE /\ row \in {"disabled", "blocked"} /\ row' = "disabled" /\ torn' = TRUE
               /\ UNCHANGED <<stored, def, code>>
      <4>1. Loaded'
        BY <2>3, <3>4 DEF Loaded, code
      <4>2. def = stored \/ def = None
        BY <2>3, <3>4 DEF Backed
      <4> QED
        BY <2>1, <2>3, <3>1, <3>4, <4>1, <4>2 DEF Backed, Loaded
    <3> QED
      BY <2>7, <3>2, <3>3, <3>4 DEF RemoveRow
  <2> QED
    BY <1>4, <2>4, <2>5, <2>6, <2>7
<1>5. CASE UserEnables \/ UserDisables
  <2>1. op.pc = "idle" /\ op' = op /\ op = NoOp /\ races = 0 /\ UNCHANGED <<tree, stored, un, torn>>
    BY <1>5, RacesTyped DEF UserEnables, UserDisables, OneFailure
  <2>2. (Fault \/ NoFault) /\ faults \in Nat /\ faults' \in Nat /\ faults' >= faults
    BY <1>5, FaultsTyped
    DEF UserEnables, UserDisables, EnableOK, EnableFails, DisableOK, DisableFails
  <2>3. OneFailure /\ Loaded /\ op.of = None
    BY <2>1, <2>2 DEF OneFailure, Backed, Loaded, NoOp
  <2>4. Loaded' /\ def' = def /\ (Usable' => Usable) /\ (row # "none" <=> row' # "none")
    <3>1. CASE UserEnables
      BY <2>1, <2>3, <3>1, EnableBacked DEF UserEnables, Backed, Seated
    <3>2. CASE UserDisables
      BY <2>1, <2>3, <3>2, DisableBacked DEF UserDisables
    <3> QED
      BY <1>5, <3>1, <3>2
  <2> QED
    BY <2>1, <2>2, <2>3, <2>4 DEF Backed, Loaded, Seated
<1>6. CASE Crash
  BY <1>6 DEF Crash, Backed, OneFailure, Seated, NoOp, Usable
<1>7. CASE StartUnread
  <2>1. row' = "none" /\ op' = NoOp /\ un' = "idle" /\ UNCHANGED <<running, modules, inner, races>>
    BY <1>7 DEF StartUnread, live, code, Typed, LiveTyped
  <2>2. running = None /\ inner = None /\ \A g \in Gens : modules[g] = None
    BY <1>7 DEF StartUnread
  <2> QED
    BY <2>1, <2>2 DEF Backed, Usable, NoOp
<1>8. CASE Start
  <2>1. /\ op' = op /\ un' = un /\ op = NoOp /\ un = "idle" /\ row = "none" /\ def = None
        /\ running = None /\ inner = None /\ tree' = tree /\ stored' = stored
        /\ \A g \in Gens : modules[g] = None
    BY <1>8 DEF Start, Typed, LiveTyped
  <2>2. CASE stored = None /\ UNCHANGED <<on, live>>
    BY <2>1, <2>2 DEF Backed, live, code, Usable, NoOp
  <2>3. CASE Block /\ UNCHANGED <<on, def, code>>
    BY <2>1, <2>3 DEF Backed, Block, code, Usable, NoOp
  <2>4. CASE stored # None /\ Verified /\ def' = stored
    <3>1. /\ \/ UNCHANGED <<modules, inner>>
             \/ modules' = [modules EXCEPT ![stored] = tree] /\ inner' = tree
          /\ \/ running' = running
             \/ /\ running' = tree /\ row' = "enabled" /\ inner' = tree
                /\ modules' = [modules EXCEPT ![stored] = tree]
      BY <1>8, <2>1, <2>4 DEF Start, Block, live, code
    <3>2. stored \in Gens /\ tree = stored
      BY <2>4 DEF Verified, Typed, LiveTyped, Maybe
    <3>3. Loaded'
      BY <2>1, <3>1, <3>2 DEF Loaded, Typed, LiveTyped
    <3> QED
      BY <2>1, <2>4, <3>2, <3>3 DEF Backed, Loaded, NoOp
  <2> QED
    BY <1>8, <2>2, <2>3, <2>4 DEF Start
<1>9. CASE UNCHANGED vars
  BY <1>9, LoadedStays DEF vars, Backed, Loaded, OneFailure, Seated, Usable, file, live
<1> QED
  BY <1>1, <1>2, <1>3, <1>4, <1>5, <1>6, <1>7, <1>8, <1>9 DEF Next, UninstallStep
-------------------------------------------------------------------------------
\* The inductive invariant.
IInv == Typed /\ Life /\ Seats /\ Rows /\ Served /\ Backed

LEMMA InitInv == Init => IInv
<1> SUFFICES ASSUME Init
             PROVE  IInv
  OBVIOUS
<1> USE PluginRowsAssumption DEF Init, NoOp, Busy, Returning
<1>1. op \in Confirms
  BY DEF Confirms, Places, Maybe
<1>2. LiveTyped
  BY DEF LiveTyped, Maybe
<1>3. RestTyped
  <2>1. faults \in 0 .. MaxFaults /\ crashes \in 0 .. MaxCrashes /\ races \in 0 .. MaxRaces
    OBVIOUS
  <2>2. pending \subseteq Previews
    OBVIOUS
  <2> QED
    BY <2>1, <2>2 DEF RestTyped, Maybe
<1>4. Life /\ Seats /\ Rows /\ Served
  BY DEF Life, Seats, Rows, Served
<1>5. Backed
  BY DEF Backed, Usable
<1> QED
  BY <1>1, <1>2, <1>3, <1>4, <1>5 DEF IInv, Typed

LEMMA NextInv ==
  ASSUME IInv, [Next]_vars
  PROVE  IInv'
<1>1. CASE ConfirmStep
  <2>1. LiveTyped' /\ faults' \in 0 .. MaxFaults
    BY <1>1, ConfirmLiveTyped DEF IInv
  <2>2. Typed'
    BY <1>1, <2>1, ConfirmRestTyped, OpTyped DEF IInv, Typed
  <2> QED
    BY <1>1, <2>2, ConfirmLife, ConfirmSeats, ConfirmRows, ConfirmServed, ConfirmBacked DEF IInv
<1>2. CASE ~ConfirmStep
  BY <1>2, BesideTyped, BesideLife, BesideSeats, BesideRows, BesideServed, BesideBacked DEF IInv
<1> QED
  BY <1>1, <1>2

LEMMA SpecInv == Spec => []IInv
BY InitInv, NextInv, PTL DEF Spec

\* The catalog keeps its types, and a row exists exactly while a live process that
\* could read its file has one recorded.
THEOREM TypeOKHolds == Spec => []TypeOK
<1>1. IInv => TypeOK
  BY TypeParts DEF IInv
<1> QED
  BY SpecInv, <1>1, PTL

\* A row that can be enabled has the tree it records, through updates and their
\* rollbacks, uninstalls, crashes and starts, one failed call included, but for
\* the row that a failed uninstall leaves without one.
THEOREM RowIsBackedHolds == Spec => []RowIsBacked
<1>1. IInv => RowIsBacked
  BY DEF IInv, RowIsBacked, Backed, Quiet, Seated, Usable
<1> QED
  BY SpecInv, <1>1, PTL

\* What runs is the entry module of the recorded generation, only for a row that
\* is enabled, and what it imports by path is what this process loaded first.
THEOREM RunsWhatIsRecordedHolds == Spec => []RunsWhatIsRecorded
<1>1. IInv => RunsWhatIsRecorded
  BY DEF IInv, RunsWhatIsRecorded, Backed
<1> QED
  BY SpecInv, <1>1, PTL

\* A start that cannot read the catalog file costs a recorded package neither its
\* row in the file, nor its flag, nor its tree, whatever is called and whatever
\* fails until the next start.
THEOREM UnreadIsKeptHolds == Spec => UnreadIsKept
<1> DEFINE Step == unread /\ stored # None /\ tree = stored =>
                     stored' = stored /\ on' = on /\ tree' = tree
<1>1. ASSUME IInv, [Next]_vars
      PROVE  Step
  <2> SUFFICES ASSUME unread, stored # None, tree = stored
               PROVE  stored' = stored /\ on' = on /\ tree' = tree
    OBVIOUS
  <2> USE <1>1 DEF IInv, Typed, LiveTyped, Life, Busy, OpStep
  <2>1. /\ row = "none" /\ host = "up" /\ un = "idle"
        /\ op.pc \in {"idle", "promote", "publish", "adopt"}
    BY DEF RestTyped
  <2>2. CASE Promote \/ Publish \/ Adopt
    BY <2>1, <2>2 DEF Promote, Publish, Adopt
  <2>3. CASE UserEnables \/ UserDisables
    BY <2>1, <2>3 DEF UserEnables, UserDisables, EnableOK, EnableFails, DisableOK, DisableFails
  <2>4. CASE \E p \in Previews : Preview(p) \/ Cancel(p) \/ Confirm(p)
    BY <2>4 DEF Preview, Cancel, Confirm, file
  <2>5. CASE Uninstall \/ Crash \/ UNCHANGED vars
    BY <2>5 DEF Uninstall, Crash, vars, file
  <2>6. ~UninstallStep /\ ~Update /\ ~Start /\ ~StartUnread
    BY <2>1 DEF UninstallStep, RemoveTree, RemoveAsset, RemoveRow, UnStep, Start, StartUnread,
       Update, Measure, DisableOld, StepAside, Swap, EnableNew, DeleteOld, ClearSeat, ComeHome,
       Unswap, Republish, Reenable
  <2> QED
    BY <2>2, <2>3, <2>4, <2>5, <2>6 DEF Next, ConfirmStep
<1> QED
  BY SpecInv, <1>1, PTL DEF Spec, UnreadIsKept

\* Until the new generation is enabled the old tree is at its place or aside,
\* however many calls fail.
THEOREM OldTreeKeptHolds == Spec => []OldTreeKept
<1>1. IInv => OldTreeKept
  BY DEF IInv, OldTreeKept, Typed, Life, Seats, Busy, Returning, NoOp, Confirms, Places
<1> QED
  BY SpecInv, <1>1, PTL

\* A consent replaces the generation it was shown and no other, and a rollback
\* records that one again, whoever races the update and whatever fails.
THEOREM ConsentIsForThatRowHolds == Spec => ConsentIsForThatRow
<1> DEFINE Step == stored # None /\ stored' \notin {None, stored} =>
                     IF op.back THEN stored' = op.of ELSE stored = op.of /\ stored' = op.gen
<1>1. ASSUME IInv, [Next]_vars
      PROVE  Step
  <2> SUFFICES ASSUME stored # None, stored' \notin {None, stored}
               PROVE  IF op.back THEN stored' = op.of ELSE stored = op.of /\ stored' = op.gen
    OBVIOUS
  <2> USE <1>1 DEF IInv, Typed, LiveTyped, Life, Busy, Returning, OpStep
  <2>1. CASE Swap
    BY <2>1 DEF Swap, ReplaceOK, ReplaceFails
  <2>2. CASE Unswap
    BY <2>2 DEF Unswap, ReplaceOK, ReplaceFails
  <2>3. CASE Adopt
    BY <2>3 DEF Adopt, RestTyped
  <2>4. CASE RemoveRow
    BY <2>4 DEF RemoveRow, DropRow
  <2> QED
    BY <2>1, <2>2, <2>3, <2>4
    DEF Next, ConfirmStep, Update, UninstallStep, Preview, Cancel, Confirm, Promote, Publish,
        Measure, DisableOld, StepAside, EnableNew, DeleteOld, ClearSeat, ComeHome, Republish,
        Reenable, Uninstall, RemoveTree, RemoveAsset, UserEnables, UserDisables, Crash, Start,
        StartUnread, file, vars
<1> QED
  BY SpecInv, <1>1, PTL DEF Spec, ConsentIsForThatRow

\* An update that failed leaves the old generation recorded, its tree in place or
\* the row marked, the row as it was and the old bundle served, as far as RollsBack
\* says so, when no second call fails and nobody raced it.
THEOREM RollsBackHolds == Spec => RollsBack
<1> DEFINE Back ==
             /\ stored' = op.of
             /\ row' = "blocked"
                \/ (tree' = op.face /\ (op.pc # "clear" => op.was = (row' = "enabled")))
             /\ (op.promoted => op.swapped) => asset' \in {op.served, AssetOf(op.face)}
           Step == op.back /\ op' = NoOp /\ host' = "up" /\ faults' < 2 /\ races' = 0 => Back
<1>1. ASSUME IInv, [Next]_vars
      PROVE  Step
  <2> SUFFICES ASSUME op.back, op' = NoOp, host' = "up", faults' < 2, races' = 0
               PROVE  Back
    OBVIOUS
  <2> USE <1>1 DEF IInv
  <2>1. op.pc \in Returning /\ op.of # None /\ op.pc # "idle"
    BY DEF Life, Busy, Returning
  <2>2. ConfirmStep
    <3>1. op.pc # "idle" /\ op' # op
      BY <2>1 DEF NoOp
    <3>2. ~Crash
      BY DEF Crash
    <3> QED
      BY <3>1, <3>2 DEF Next, UninstallStep, Preview, Cancel, Confirm, Uninstall, RemoveTree,
         RemoveAsset, RemoveRow, UserEnables, UserDisables, Start, StartUnread, UnStep, Life, Busy, vars
  <2>3. /\ races = 0 /\ faults \in Nat /\ faults' \in Nat /\ faults' >= faults /\ OneFailure
    BY <2>2, ConfirmFrame DEF OneFailure
  <2>4. CASE ClearSeat
    <3>1. op.pc = "clear" /\ op.aside = None
      BY <2>4 DEF ClearSeat, OpStep, Goto, NoOp, Typed, Confirms
    <3>2. /\ tree = op.face /\ ~op.promoted /\ ~op.swapped /\ stored = op.of /\ asset = op.served
      BY <2>1, <2>3, <3>1 DEF Seats, Rows, Served
    <3> QED
      BY <2>4, <3>1, <3>2 DEF ClearSeat
  <2>5. CASE ComeHome
    <3>1. /\ op.pc = "home" /\ faults >= 1 /\ (op.swapped => op.promoted) /\ op.face # None
          /\ op.aside = op.face /\ stored = IF op.swapped THEN op.gen ELSE op.of
          /\ row \in {"disabled", "blocked"}
      BY <2>1, <2>3, <2>5 DEF ComeHome, OpStep, Seats, Rows
    <3>2. ~(\E pc \in {"unswap", "reenable"} : op'.pc = pc)
      BY DEF NoOp
    <3>3. /\ row' = "blocked" /\ UNCHANGED <<stored, asset>>
          /\ IF tree = None THEN Fault ELSE NoFault
      BY <2>5, <3>1, <3>2 DEF ComeHome, Block, Typed, Confirms
    <3>4. tree # None /\ ~op.promoted
      <4>1. tree # None
        BY <2>3, <3>1, <3>3, FaultsTyped
      <4> QED
        BY <2>1, <2>3, <3>1, <4>1 DEF Seats
    <3>5. asset = op.served /\ stored = op.of
      BY <2>1, <2>3, <3>1, <3>4 DEF Served
    <3> QED
      BY <3>3, <3>5
  <2>6. CASE Unswap
    <3>1. /\ op.pc = "unswap" /\ faults >= 1 /\ row \in {"disabled", "blocked"}
      BY <2>1, <2>3, <2>6 DEF Unswap, OpStep, Seats, Rows
    <3>2. ReplaceFails
      BY <2>6 DEF Unswap, Goto, NoOp, Typed, Confirms
    <3> QED
      BY <2>3, <3>1, <3>2, FaultsTyped DEF ReplaceFails
  <2>7. CASE Republish
    <3>1. /\ op.pc = "republish" /\ faults >= 1 /\ tree = op.face /\ op.face # None
      BY <2>1, <2>3, <2>7 DEF Republish, OpStep, Seats
    <3>2. PublishFails(op.face)
      BY <2>7 DEF Republish, Goto, NoOp, Typed, Confirms
    <3> QED
      BY <2>3, <3>1, <3>2, FaultsTyped DEF PublishFails
  <2>8. CASE Reenable
    <3>1. /\ op.pc = "reenable" /\ faults >= (IF op.known THEN 1 ELSE 2) /\ tree = op.face
          /\ op.face # None /\ stored = op.of /\ row \in {"disabled", "blocked"}
          /\ (op.was \/ op.swapped => Usable \/ ~op.known)
          /\ (~op.promoted => asset = op.served)
          /\ (op.swapped => asset = AssetOf(op.face)) /\ UNCHANGED <<tree, asset, stored>>
      BY <2>1, <2>3, <2>8 DEF Reenable, OpStep, Seats, Rows, Served
    <3>2. op.known
      BY <2>3, <3>1
    <3>3. CASE ~op.was
      <4>1. row' # "enabled"
        BY <2>8, <3>1, <3>3 DEF Reenable, live
      <4>2. op.was = (row' = "enabled")
        <5>1. op.was = FALSE
          BY <3>3 DEF Typed, Confirms
        <5> QED
          BY <4>1, <5>1
      <4> QED
        BY <3>1, <4>2
    <3>4. CASE op.was
      <4>1. row = "disabled" /\ def = stored /\ tree = stored
        BY <2>3, <3>1, <3>2, <3>4 DEF Backed, Usable, Seated
      <4>2. Imported # None
        BY <2>3, <3>1, <4>1 DEF Imported
      <4>3. ~EnableFails
        BY <2>3, <3>1, <3>2, <4>1, <4>2, FaultsTyped DEF EnableFails
      <4>4. row' = "enabled"
        BY <2>8, <3>4, <4>1, <4>3 DEF Reenable, EnableOK
      <4> QED
        BY <3>1, <3>4, <4>4
    <3> QED
      BY <3>3, <3>4
  <2> QED
    BY <2>1, <2>2, <2>4, <2>5, <2>6, <2>7, <2>8
    DEF ConfirmStep, Update, Promote, Publish, Adopt, Measure, DisableOld, StepAside, Swap,
        EnableNew, DeleteOld, OpStep, Returning
<1> QED
  BY SpecInv, <1>1, PTL DEF Spec, RollsBack
===============================================================================
