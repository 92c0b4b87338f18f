------------------------------ MODULE PluginRows ------------------------------
(***************************************************************************)
(* One package's row of the system plugin catalog and the tree, the client *)
(* bundle and the running code that go with it: preview and confirm (a     *)
(* fresh install, or an update with its rollback), uninstall, enable and   *)
(* disable, the boot scan, and a crash anywhere between.  Confirms run one *)
(* at a time; an uninstall and a user's enable or disable run beside them. *)
(* The installer's promotion is one step here and InstallTxn's subject;    *)
(* every call of the runtime is one step, as its own queue makes it.  Rows *)
(* installed from a directory of the user's (dev) are left out.            *)
(***************************************************************************)
EXTENDS Naturals, FiniteSets

CONSTANTS
  Gens,        \* the package's generations: the trees a commit can resolve to
  Clients,     \* those that bring a browser bundle
  MaxPreviews, \* bound: previews waiting for consent
  MaxFaults,   \* bound: file-system calls or plugin hooks that fail
  MaxCrashes,  \* bound: how often the process dies
  MaxRaces,    \* bound: calls amid a confirm, from start to start
  None         \* no tree, no generation

ASSUME PluginRowsAssumption ==
  /\ None \notin Gens
  /\ Clients \subseteq Gens
  /\ MaxPreviews \in Nat /\ MaxFaults \in Nat /\ MaxCrashes \in Nat /\ MaxRaces \in Nat

VARIABLES
  tree,    \* the generation at installed/<id>, with its lock
  asset,   \* the generation whose browser bundle is served
  stored,  \* the recorded generation of the catalog file's row, or None
  on,      \* that row's enabled flag
  row,     \* the runtime's row: "none", "disabled", "enabled", "blocked"
  unread,  \* the start could not read the catalog file
  def,     \* the generation its definition was made for, None for a placeholder
  running, \* the generation whose entry module runs
  modules, \* what an import of the entry under each generation's URL answered
  inner,   \* the generation of the modules that an entry imports by their path
  pending, \* previews waiting for consent: a generation, and the row it replaces
  op,      \* the confirm that is running
  un,      \* where the uninstall that is running is
  races,   \* since the start: how many calls came amid a confirm
  torn,    \* since the start: an uninstall failed at the row, its tree deleted
  host, faults, crashes

file == <<tree, asset, stored, on>>
code == <<running, modules, inner>>
live == <<row, def, code>>
vars == <<file, unread, live, pending, op, un, races, torn, host, faults, crashes>>

Maybe == Gens \cup {None}
AssetOf(g) == IF g \in Clients THEN g ELSE None

Previews == [gen : Gens, of : Maybe]
NoOp ==
  [pc |-> "idle", gen |-> None, of |-> None, face |-> None, known |-> FALSE,
   served |-> None, was |-> FALSE, aside |-> None, promoted |-> FALSE, swapped |-> FALSE, back |-> FALSE]

Places ==
  {"idle", "promote", "publish", "adopt", "measure", "disable", "aside", "swap", "enable",
   "delete", "clear", "home", "unswap", "republish", "reenable"}

Confirms ==
  [pc : Places, gen : Maybe, of : Maybe, face : Maybe, known : BOOLEAN,
   served : Maybe, was : BOOLEAN, aside : Maybe, promoted : BOOLEAN, swapped : BOOLEAN, back : BOOLEAN]

TypeOK ==
  /\ tree \in Maybe /\ asset \in Maybe
  /\ stored \in Maybe /\ on \in BOOLEAN /\ (on => stored # None)
  /\ row \in {"none", "disabled", "enabled", "blocked"}
  /\ unread \in BOOLEAN
  /\ def \in Maybe /\ running \in Maybe /\ inner \in Maybe
  /\ modules \in [Gens -> Maybe]
  /\ pending \subseteq Previews
  /\ op \in Confirms
  /\ un \in {"idle", "tree", "rest", "asset", "row"}
  /\ races \in 0 .. MaxRaces /\ torn \in BOOLEAN
  /\ host \in {"up", "down"}
  /\ faults \in 0 .. MaxFaults /\ crashes \in 0 .. MaxCrashes
  /\ row # "none" <=> host = "up" /\ stored # None /\ ~unread

Init ==
  /\ tree = None /\ asset = None /\ stored = None /\ on = FALSE
  /\ row = "none" /\ unread = FALSE /\ def = None
  /\ running = None /\ modules = [g \in Gens |-> None] /\ inner = None
  /\ pending = {} /\ op = NoOp /\ un = "idle" /\ races = 0 /\ torn = FALSE
  /\ host = "up" /\ faults = 0 /\ crashes = 0
-------------------------------------------------------------------------------
(* The runtime's calls, each with the two ways it can end.                   *)

Fault == faults < MaxFaults /\ faults' = faults + 1
NoFault == UNCHANGED faults

\* Faulty variant: the URL names the path alone, so an update hits the cache.
ImportedByPath ==
  IF def = None THEN None
  ELSE IF \E g \in Gens : modules[g] # None
  THEN modules[CHOOSE g \in Gens : modules[g] # None] ELSE tree

\* The entry that the definition loads, None when it can load none.  Its URL
\* carries the definition's generation, and a URL that was imported before
\* answers with what it was answered with then.
Imported ==
  IF def = None THEN None ELSE IF modules[def] # None THEN modules[def] ELSE tree

\* What the entry imports by its path has no generation in its URL: the first
\* to be loaded answers for every later one.
Load ==
  /\ modules' = [modules EXCEPT ![def] = Imported]
  /\ inner' = IF inner = None THEN Imported ELSE inner

\* enable, done: the recorded flag and the activation.
EnableOK ==
  \/ row = "enabled" /\ UNCHANGED <<on, live>> /\ NoFault
  \/ /\ row = "disabled" /\ Imported # None
     /\ on' = TRUE /\ row' = "enabled" /\ running' = Imported
     /\ Load /\ UNCHANGED def /\ NoFault

\* enable, refused or failed.  A failure before anything was written leaves the
\* row alone; a failed import or activation leaves it off.
EnableFails ==
  \/ row \in {"none", "blocked"} /\ UNCHANGED <<on, live>> /\ NoFault
  \/ row = "disabled" /\ UNCHANGED <<on, live>> /\ Fault
  \/ /\ row = "disabled" /\ on' = FALSE
     /\ \/ Imported = None /\ UNCHANGED <<modules, inner>> /\ NoFault
        \/ Imported # None /\ UNCHANGED <<modules, inner>> /\ Fault
        \/ Imported # None /\ Load /\ Fault
     /\ UNCHANGED <<row, def, running>>

DisableOK ==
  \/ row \in {"disabled", "blocked"} /\ UNCHANGED <<on, live>> /\ NoFault
  \/ /\ row = "enabled"
     /\ on' = FALSE /\ row' = "disabled" /\ running' = None
     /\ UNCHANGED <<def, modules, inner>> /\ NoFault

\* disable, refused (the row is gone, or an enabled plugin depends on it) or
\* failed: before anything changed, or with the row off after all.
DisableFails ==
  \/ row \in {"none", "enabled"} /\ UNCHANGED <<on, live>> /\ NoFault
  \/ row = "enabled" /\ UNCHANGED <<on, live>> /\ Fault
  \/ /\ row = "enabled"
     /\ on' = FALSE /\ row' = "disabled" /\ running' = None
     /\ UNCHANGED <<def, modules, inner>> /\ Fault

\* replaceInstalled: refused on a row that is gone or enabled.  It clears a
\* verdict about the bytes it replaces; flag and permissions stay.
ReplaceOK(g, record, verdict) ==
  /\ row \in {"disabled", "blocked"}
  /\ stored' = record /\ def' = g /\ row' = verdict
  /\ UNCHANGED <<on, code>> /\ NoFault

ReplaceFails ==
  /\ \/ row \in {"none", "enabled"} /\ NoFault
     \/ row \in {"disabled", "blocked"} /\ Fault
  /\ UNCHANGED <<stored, on, live>>

\* Faulty variant: the failure is only told to the caller.
Unmarked == UNCHANGED row

\* markFailure: the row stops counting as enabled.
Block == row' = "blocked"

\* What the runtime knows to be recorded: nothing, when it could not read.
Recorded == IF row = "none" THEN None ELSE stored

Keep == UNCHANGED <<unread, host, crashes>>

\* A call that may come amid a confirm, or a confirm amid one.
Races(amid) ==
  /\ amid => races < MaxRaces
  /\ races' = IF amid THEN races + 1 ELSE races
-------------------------------------------------------------------------------
(* preview, update and cancel: staging only, nothing is replaced.            *)

Preview(p) ==
  /\ host = "up" /\ Cardinality(pending) < MaxPreviews /\ p \notin pending
  /\ p.of \in {None, Recorded}
  /\ pending' = pending \cup {p}
  /\ UNCHANGED <<file, live, op, un, races, torn, faults>> /\ Keep

Cancel(p) ==
  /\ p \in pending
  /\ pending' = pending \ {p}
  /\ UNCHANGED <<file, live, op, un, races, torn, faults>> /\ Keep
-------------------------------------------------------------------------------
(* confirm.                                                                  *)

\* Faulty variant: an update is confirmed against any installed row.
AnyRow(p) == IF p.of = None THEN Recorded = None ELSE Recorded # None

\* A fresh install needs a free id; an update needs the row it was shown.
Consented(p) == Recorded = p.of

Confirm(p) ==
  /\ op.pc = "idle" /\ p \in pending
  /\ pending' = pending \ {p}
  /\ op' = IF Consented(p)
           THEN [NoOp EXCEPT !.pc = IF p.of = None THEN "promote" ELSE "measure",
                             !.gen = p.gen, !.of = p.of]
           ELSE op
  /\ Races(Consented(p) /\ un # "idle")
  /\ UNCHANGED <<file, live, un, torn, faults>> /\ Keep

Goto(place) == op' = [op EXCEPT !.pc = place]
Done == op' = NoOp
\* An update that fails starts to roll back; a fresh install just throws.
Fail == op' = IF op.of = None THEN NoOp ELSE [op EXCEPT !.pc = "clear", !.back = TRUE]

OpStep(place) == op.pc = place /\ UNCHANGED <<pending, un, races, torn>> /\ Keep

\* The old manifest is read off the tree, then the enabled state.  A manifest
\* that cannot be read is no error yet.
Measure ==
  /\ OpStep("measure")
  /\ \E known \in BOOLEAN :
       /\ known => tree # None
       /\ IF ~known /\ tree # None THEN Fault ELSE NoFault
       /\ op' = [op EXCEPT !.face = tree, !.known = known, !.served = asset,
                           !.was = (row = "enabled"),
                           !.pc = IF row = "enabled" THEN "disable" ELSE "aside"]
  /\ UNCHANGED <<file, live>>

DisableOld ==
  /\ OpStep("disable")
  /\ \/ DisableOK /\ Goto("aside")
     \/ DisableFails /\ Fail
  /\ UNCHANGED <<tree, asset, stored>>

StepAside ==
  /\ OpStep("aside")
  /\ \/ /\ tree # None /\ NoFault
        /\ op' = [op EXCEPT !.aside = tree, !.pc = "promote"] /\ tree' = None
     \/ tree = None /\ Fail /\ UNCHANGED tree /\ NoFault
     \/ tree # None /\ Fail /\ UNCHANGED tree /\ Fault
  /\ UNCHANGED <<asset, stored, on, live>>

\* Refused when the seat is taken.  A promotion that throws may have come past
\* its lock: then the new tree is in the seat, and its caller does not know.
Promote ==
  /\ OpStep("promote")
  /\ \/ /\ tree = None /\ NoFault
        /\ tree' = op.gen /\ op' = [op EXCEPT !.promoted = TRUE, !.pc = "publish"]
     \/ tree # None /\ Fail /\ UNCHANGED tree /\ NoFault
     \/ tree = None /\ Fail /\ tree' \in {None, op.gen} /\ Fault
  /\ UNCHANGED <<asset, stored, on, live>>

\* g's bundle replaces the one that is served.  Without one, an update removes
\* what is served, or fails to unnoticed, and a fresh install leaves it.
PublishOK(g) ==
  \/ g \in Clients /\ tree # None /\ asset' = AssetOf(tree) /\ NoFault
  \/ g \notin Clients /\ asset' = (IF op.of = None THEN asset ELSE None) /\ NoFault
  \/ g \notin Clients /\ op.of # None /\ UNCHANGED asset /\ Fault

\* The copy reads the tree; it can fail, and the copy tables after it.
PublishFails(g) ==
  \/ g \in Clients /\ tree = None /\ UNCHANGED asset /\ NoFault
  \/ g \in Clients /\ tree # None /\ asset' \in {asset, AssetOf(tree)} /\ Fault
  \/ g \notin Clients /\ asset' = (IF op.of = None THEN asset ELSE None) /\ Fault

Publish ==
  /\ OpStep("publish")
  /\ \/ PublishOK(op.gen) /\ Goto(IF op.of = None THEN "adopt" ELSE "swap")
     \/ PublishFails(op.gen) /\ Fail
  /\ UNCHANGED <<tree, stored, on, live>>

\* adoptInstalled: row and record in one write, disabled; refused when the file
\* could not be read.
Adopt ==
  /\ OpStep("adopt")
  /\ \/ /\ row = "none" /\ ~unread /\ NoFault
        /\ stored' = op.gen /\ on' = FALSE /\ row' = "disabled" /\ def' = op.gen
     \/ /\ UNCHANGED <<stored, on, row, def>>
        /\ IF row = "none" /\ ~unread THEN Fault ELSE NoFault
  /\ Done
  /\ UNCHANGED <<tree, asset, code>>

\* Faulty variant: the old tree is deleted before the new one is enabled.
SwapAndDelete ==
  /\ OpStep("swap")
  /\ \/ ReplaceOK(op.gen, op.gen, "disabled")
        /\ op' = [op EXCEPT !.swapped = TRUE, !.aside = None,
                            !.pc = IF op.was THEN "enable" ELSE "delete"]
     \/ ReplaceFails /\ Fail
  /\ UNCHANGED <<tree, asset>>

Swap ==
  /\ OpStep("swap")
  /\ \/ ReplaceOK(op.gen, op.gen, "disabled")
        /\ op' = [op EXCEPT !.swapped = TRUE, !.pc = IF op.was THEN "enable" ELSE "delete"]
     \/ ReplaceFails /\ Fail
  /\ UNCHANGED <<tree, asset>>

EnableNew ==
  /\ OpStep("enable")
  /\ \/ EnableOK /\ Goto("delete")
     \/ EnableFails /\ Fail
  /\ UNCHANGED <<tree, asset, stored>>

\* Best effort: what is left of it is outside every path the program reads.
DeleteOld ==
  /\ OpStep("delete") /\ Done
  /\ UNCHANGED <<file, live>> /\ NoFault
-------------------------------------------------------------------------------
(* The rollback of an update.                                                *)

\* The new tree leaves the seat, unless that rename fails unnoticed.
ClearSeat ==
  /\ OpStep("clear")
  /\ \/ tree' = (IF op.promoted THEN None ELSE tree) /\ NoFault
     \/ op.promoted /\ UNCHANGED tree /\ Fault
  /\ IF op.aside = None THEN Done ELSE Goto("home")
  /\ UNCHANGED <<asset, stored, on, live>>

\* The old tree comes home, or the row is marked and the old tree stays aside.
ComeHome ==
  /\ OpStep("home")
  /\ \/ /\ tree = None /\ NoFault
        /\ tree' = op.aside
        /\ op' = [op EXCEPT !.aside = None,
                            !.pc = IF op.swapped THEN "unswap" ELSE "reenable"]
        /\ UNCHANGED row
     \/ /\ IF tree = None THEN Fault ELSE NoFault
        /\ IF row = "none" THEN UNCHANGED row ELSE Block
        /\ UNCHANGED tree /\ Done
  /\ UNCHANGED <<asset, stored, on, def, code>>

\* With the old manifest: the old definition, record and, next, the bundle.
\* Without it: the old record, a placeholder that is marked, and what is served.
Unswap ==
  /\ OpStep("unswap")
  /\ \/ op.known /\ ReplaceOK(op.face, op.of, "disabled") /\ Goto("republish")
     \/ ~op.known /\ ReplaceOK(None, op.of, "blocked") /\ Goto("reenable")
     \/ ReplaceFails /\ Done
  /\ UNCHANGED <<tree, asset>>

Republish ==
  /\ OpStep("republish")
  /\ \/ PublishOK(op.face) /\ Goto("reenable")
     \/ PublishFails(op.face) /\ Done
  /\ UNCHANGED <<tree, stored, on, live>>

Reenable ==
  /\ OpStep("reenable") /\ Done
  /\ \/ ~op.was /\ UNCHANGED <<on, live>> /\ NoFault
     \/ op.was /\ (EnableOK \/ EnableFails)
  /\ UNCHANGED <<tree, asset, stored>>
-------------------------------------------------------------------------------
(* uninstall, beside any confirm.                                            *)

UnStep(place, next) ==
  /\ un = place /\ un' = next
  /\ UNCHANGED <<pending, op>> /\ Keep

\* Faulty variant: the row is looked up in the file, not in the catalog.
UninstallByFile ==
  /\ host = "up" /\ stored # None
  /\ UnStep("idle", "tree") /\ Races(op.pc # "idle")
  /\ UNCHANGED <<file, live, torn, faults>>

Uninstall ==
  /\ host = "up" /\ Recorded # None
  /\ UnStep("idle", "tree") /\ Races(op.pc # "idle")
  /\ UNCHANGED <<file, live, torn, faults>>

\* Renamed aside and deleted; what is at the path after that is deleted again.
RemoveTree(place, next) ==
  /\ UnStep(place, next)
  /\ \/ tree' = None /\ NoFault
     \/ UNCHANGED tree /\ Fault
  /\ UNCHANGED <<asset, stored, on, live, races, torn>>

RemoveAsset ==
  /\ UnStep("asset", "row")
  /\ \/ asset' = None /\ NoFault
     \/ UNCHANGED asset /\ Fault
  /\ UNCHANGED <<tree, stored, on, live, races, torn>>

DropRow == row' = "none" /\ def' = None /\ on' = FALSE /\ stored' = None

\* A running plugin is disabled first; the row and its record go in one write.
\* The tree is gone by then, and stays so when the row does: an enabled plugin
\* depends on it, its disable fails, or the write does.  A write that fails has
\* dropped the row's verdict, if it had one.
RemoveRow ==
  /\ UnStep("row", "idle")
  /\ \/ /\ row # "none" /\ NoFault
        /\ DropRow
        /\ running' = IF row = "enabled" THEN None ELSE running
        /\ UNCHANGED <<modules, inner, torn>>
     \/ DisableFails /\ torn' = TRUE /\ UNCHANGED stored
     \/ /\ row \in {"disabled", "blocked"} /\ row' = "disabled" /\ Fault
        /\ torn' = TRUE /\ UNCHANGED <<stored, on, def, code>>
  /\ UNCHANGED <<tree, asset, races>>
-------------------------------------------------------------------------------
(* A user's enable or disable, a crash, and the next start.                  *)

UserEnables ==
  /\ host = "up" /\ (EnableOK \/ EnableFails) /\ Races(op.pc # "idle")
  /\ UNCHANGED <<tree, asset, stored, pending, op, un, torn>> /\ Keep

UserDisables ==
  /\ host = "up" /\ (DisableOK \/ DisableFails) /\ Races(op.pc # "idle")
  /\ UNCHANGED <<tree, asset, stored, pending, op, un, torn>> /\ Keep

Crash ==
  /\ host = "up" /\ crashes < MaxCrashes
  /\ host' = "down" /\ crashes' = crashes + 1
  /\ row' = "none" /\ unread' = FALSE /\ def' = None
  /\ running' = None /\ modules' = [g \in Gens |-> None] /\ inner' = None
  /\ pending' = {} /\ op' = NoOp /\ un' = "idle" /\ races' = 0 /\ torn' = FALSE
  /\ UNCHANGED <<file, faults>>

\* Faulty variant: a tree that is there is adopted unverified.
Present == tree # None

\* #adoptRecorded: the tree is there and is the recorded one.
Verified == tree = stored

\* initialize keeps a file it cannot read, and then no package has a row.
StartUnread ==
  /\ host = "down" /\ host' = "up"
  /\ unread' = TRUE /\ Fault
  /\ UNCHANGED <<file, live, pending, op, un, races, torn, crashes>>

\* initialize and scanInstalled: every recorded row gets a verdict, and one
\* that may run and was enabled is enabled.  A tree that checks out is refused
\* all the same when a call of the check fails, its bundle published or not.
Start ==
  /\ host = "down" /\ host' = "up"
  /\ \/ stored = None /\ UNCHANGED <<asset, on, live>> /\ NoFault
     \/ /\ stored # None /\ Block
        /\ \/ ~Verified /\ UNCHANGED asset /\ NoFault
           \/ Verified /\ asset' \in {asset, IF stored \in Clients THEN tree ELSE asset} /\ Fault
        /\ UNCHANGED <<on, def, code>>
     \/ /\ stored # None /\ Verified
        /\ asset' = (IF stored \in Clients THEN tree ELSE asset) /\ def' = stored
        /\ \/ ~on /\ row' = "disabled" /\ UNCHANGED <<on, code>> /\ NoFault
           \/ /\ on /\ row' = "enabled" /\ running' = tree
              /\ modules' = [modules EXCEPT ![stored] = tree] /\ inner' = tree
              /\ UNCHANGED on /\ NoFault
           \/ /\ on /\ row' = "disabled" /\ on' \in BOOLEAN /\ UNCHANGED running
              /\ \/ UNCHANGED <<modules, inner>>
                 \/ ~on' /\ modules' = [modules EXCEPT ![stored] = tree] /\ inner' = tree
              /\ Fault
  /\ UNCHANGED <<tree, stored, unread, pending, op, un, races, torn, crashes>>
-------------------------------------------------------------------------------
Update ==
  \/ Measure \/ DisableOld \/ StepAside \/ Swap \/ EnableNew \/ DeleteOld
  \/ ClearSeat \/ ComeHome \/ Unswap \/ Republish \/ Reenable

ConfirmStep == Promote \/ Publish \/ Adopt \/ Update

UninstallStep ==
  RemoveTree("tree", "rest") \/ RemoveTree("rest", "asset") \/ RemoveAsset \/ RemoveRow

Next ==
  \/ \E p \in Previews : Preview(p) \/ Cancel(p) \/ Confirm(p)
  \/ ConfirmStep \/ Uninstall \/ UninstallStep
  \/ UserEnables \/ UserDisables \/ Crash \/ StartUnread \/ Start

Spec == Init /\ [][Next]_vars
-------------------------------------------------------------------------------
(* What the catalog promises.                                                *)

Quiet == host = "up" /\ op.pc = "idle" /\ un = "idle"
OneFailure == faults < 2 /\ races = 0

\* A row that can be enabled has the tree it records, through updates, their
\* rollbacks, uninstalls, crashes and starts, one failed call included and no
\* call amid an update.  One thing is excepted: an uninstall deletes the tree
\* before it asks for the row, and when the row stays (an enabled plugin depends
\* on it, a write fails) it stays without a tree until the next start.
RowIsBacked ==
  Quiet /\ OneFailure /\ row \in {"disabled", "enabled"} =>
    tree = stored \/ (torn /\ tree = None)

\* What runs is the entry module of the recorded generation, and only for a row
\* that is enabled: no update leaves the old entry behind the new record.  The
\* modules it imports by their paths are of that generation too, unless this
\* process loaded an earlier one: theirs is the generation it loaded first.
RunsWhatIsRecorded ==
  running # None /\ OneFailure =>
    /\ running = stored /\ row = "enabled"
    /\ inner = stored \/ (inner # None /\ modules[inner] = inner)

\* A start that cannot read the catalog file loses nothing by what is asked of
\* the process then: a recorded package keeps its row in the file, its flag and
\* its tree, whatever is installed, uninstalled or switched meanwhile.
UnreadIsKept ==
  [][unread /\ stored # None /\ tree = stored =>
       stored' = stored /\ on' = on /\ tree' = tree]_vars

\* From the moment it is measured until the new generation is enabled, the old
\* tree is at its place or aside, whatever step the update is interrupted at.
OldTreeKept ==
  op.of # None /\ op.pc \notin {"measure", "delete"} /\ races = 0 =>
    op.face \in {tree, op.aside}

\* A consent replaces the generation it was shown: two previews of one row
\* cannot both be spent, and a rollback records that generation again.
ConsentIsForThatRow ==
  [][stored # None /\ stored' \notin {None, stored} =>
       IF op.back THEN stored' = op.of ELSE stored = op.of /\ stored' = op.gen]_vars

\* An update that failed leaves the old generation recorded, and either the row
\* marked or the old tree at its place.  Once that tree had stepped aside, the
\* row is enabled again exactly when it was; an update that failed before (its
\* disable or the rename) leaves it off.  And what was served is served again, or
\* the old generation's bundle, unless what failed lies between the publication
\* of the new one and the replacement of the row: then the new one stays.
RollsBack ==
  [][op.back /\ op' = NoOp /\ host' = "up" /\ faults' < 2 /\ races' = 0 =>
       /\ stored' = op.of
       /\ row' = "blocked"
          \/ (tree' = op.face /\ (op.pc # "clear" => op.was = (row' = "enabled")))
       /\ (op.promoted => op.swapped) => asset' \in {op.served, AssetOf(op.face)}]_vars

\* A start finds every tree that was promoted: whatever an interrupted install or
\* an uninstall left at its place has a row again, which shows it and removes it.
StartFindsTrees == [][host = "down" /\ host' = "up" /\ tree # None => row' # "none"]_vars
===============================================================================
