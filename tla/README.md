# Verification of the Iris host

Iris is a local role-play chat host: one Node process (`packages/iris-app-service`
and the packages it is built from) serves browser pages (`apps/iris-web`) over
HTTP calls and a WebSocket of pushed events, keeps every conversation as a
SillyTavern-compatible `.jsonl` file, and streams replies from a model provider.
This directory holds TLA+ models of its stateful core, the TLC configurations
that check them, and TLAPS proofs. Everything is read from the source; paths
below are relative to the repository.

## 1. Inventory

| Component | State it keeps | Operations | What is hard | What makes it correct |
|---|---|---|---|---|
| Chat entry, `iris-app-service/src/entry.ts` | the session log, the exclusive slot `#abort`/`#claimed`, the streaming row `pending`, `#sideCalls` | `claim`, `begin`, `finish`, `abort`, `sideCall`, `rebuild` | every handler awaits between taking and giving back the slot | one generation at a time, always freed, Stop reaches it |
| Turn handlers, `service.ts` (`#start`, `#settle`, `#fail`, the chat arms) | none of their own; captured entry, turn, signal | send, regenerate, continue, impersonate, compact, abort, edit, delete, branch, swipe | idle is checked once and the chat is used after an await; failures at every await | one terminal frame per announced stream; replies recorded; nothing sent after Stop or delete |
| Turn driver, `iris-turn/src/driver.ts` | none | the four verbs | works on the session it was handed | appends to the turn it opened |
| Swipes, `iris-chat/src/swipes.ts` | candidates and selections as events; the surface | append and select a candidate | the log is append-only, surface nodes are shadowed, never revived | one reply per turn, in place, every reading kept |
| Chat file, `iris-persistence/src/sillytavern.ts` | lines with `swipes`, `swipe_id` | import, export | turn numbering and index arithmetic | a round trip loses nothing |
| Chat store, `chats.ts` | `#entries`, `#opening`, `#retired`, the files | open, load, save, delete, restoreFile, relink (and create, branch, importFile, list) | cold loads, saves, unlinks overlap | one live entry per chat; a chat that was let go is not written |
| Host lock, `host-lock.ts` | `<dataDir>/host.lock` | acquire, take over, release | crashes, recycled pids, half-written files, races | one host per directory, nobody locked out |
| Atomic write, `atomic.ts` | temporary file, rename with retry | write | retry bound, failure at each step | old or new content, never a mix |
| Page store, `apps/iris-web/src/client/store.ts`; socket, `iris-rpc-client`, `iris-rpc-host/src/events.ts` | open chat, view, stream buffer, resync in flight, silence timer; the socket's frames | apply frame, open and close chat, resync, drop, reconnect | lost frames, answers older than frames, calls that join calls | the page catches up with the host and never shows a reply nobody generates |
| Extension installer, `iris-extension-installer` | staging directories with `txn.json`, the claim file, `installed/<id>` with its lock | stage, promote, discard, recover | every file-system call may fail, the process may die between any two; two promotions at once | one tree, whole or none; nothing wedged |
| Plugin install, update and catalog, `plugins/install.ts`, `system-plugins.ts` | tree, client bundle, catalog row and record, definition, imported modules, pending previews | preview, confirm, update with rollback, uninstall, enable, disable, boot scan | seven steps with a rollback of their own; uninstall and enable run beside the queue of confirms | a row that may run has the tree it records; what runs is what is recorded |
| Plugin lifecycle and leases, `system-plugins.ts`; settled variable writers, `service.ts` | per plugin status, flag and activation; the preference file and its revision; leases; a turn's writers | enable with dependencies, disable, reload, lease, release, drain, settle, restart | transitions overlap turns and calls; failures between file, row and activation | leased work keeps its activation; rows are true; transitions end |
| Backups, branch tree, card storage, script cache and variables, settings | files of their own | snapshot, retention; plan a deletion; debounced saves | retention at its limit, several stores to forget | listed in the plan |
| Prompt assembly (lorebook, regex, preset, pipeline, macro, compaction spans) and compatibility interpreters | mostly none | pure transformations | budgets, recursion depth | left to tests, apart from the algorithms in the plan |

Interactions: a page's call reaches a handler of `service.ts`, which opens the
entry through the chat store, takes its slot, leases the plugins whose variable
writers settle the turn, hands the entry's session to the driver, and returns;
the stream then runs on its own and ends in `#settle` or `#fail`, which ask the
writers, save through the store and broadcast to the pages, whose store applies
the frames and asks again when it has missed some. Deletes and restores go to
the chat store, and plugin transitions to the runtime, beside all of this. The
install handlers of `plugins/install.ts` drive the installer and the runtime.
Node runs one macrotask at a time, so a handler is atomic between two `await`s
and nowhere else. That is the grain of every model here: one action per stretch
between awaits.

`PROJECT.json` lists the hazards at their lines and the properties that watch
each one.

## 2. Modules

**`ChatTurn`** models one live conversation: the slot of `ChatEntry` and every
handler that takes it. `slot`, `claimed`, `pending`, `sideCalls` are the entry's
fields; `stopped` is the set of aborted controllers; `live` turns false when the
store lets the entry go. A request is one client call, and `pc`, `ctl`, `turn`,
`home`, `seen` are the locals it captured. `Claim`, `Release`, `BeginSlot`,
`Finish`, `Abort` are the entry's methods; `StartTurn`, `Begin`,
`BeginRefused` are `#start` before, after and refused by its awaited compaction,
and `StartThrows` is its synchronous throw between `begin` and the driver, after
which nobody calls `finish`;
`SendRequest`, `Text`, `StreamCompletes` are the driver and the provider;
`StoppedWithText`, `StreamFails`, `FailSaved` are `#fail`; `Settled`, `Saved`,
`Announced`, `SettleThrows` are `#settle` and its catch; `Stop` and `LetGo` are
`chat.abort` and the abort that precedes a delete or restore; `StartSide`,
`SideSends`, `SideDone` are `#asSideCall`; `StartEdit`, `Rebuild`,
`SnapshotFails` are the arms that check idle, await a snapshot and replace the
log. The log is a set of lines `[turn, user, by]`; `session` counts its
replacements, so that a reply appended to a replaced session is visibly lost.
`StartTurn` asks for `live`, because for a loaded entry opening and claiming
happen in one macrotask; what a cold open may see is `ChatStore`'s matter.

**`Swipes`** models the log and its surface. A text is a number, an event is a
record, and the surface is a sequence of log positions. `AppendCandidate`,
`Select` and `Selected` are the functions of `swipes.ts`; `OpenTurn`,
`Generate`, `Swipe` are the driver's and the service's uses of them.

**`SwipeFile`** extends it with the chat file: `Export` and `Import` are
`exportMessages` and `importChat`, `Reload` is a load or a rebuild with the
lines unchanged, and `GenerateTrimmed` is a reply that `#storeRewritten` trims
before it is stored. The two loops of `importChat` are recursive functions
(`Reading` over the lines, `Growing` over the readings of one), so that they can
be reasoned about.

**`ChatStore`** models the store as one conversation sees it: `answered`,
`opening`, `retired` are its maps, `content` what each entry holds, `file` the
file. A file's text is the set of changes in it and the parent its header names.
`Open`, `Read`, `LoadFails`, `Loaded` are `open` and `#load`; `Edit`,
`Project`, `Written`, `WriteFails` a change and `save`; `StartDelete`,
`Unlinked`, `UnlinkFails` are `delete`; `StartRestore`, `Restored`, `Announce`
are `backup.restore`; the `Relink` actions are `relink` on an entry and on a
file. A relink that joined a load applies in a step of its own, which is one
microtask later in the code and only adds interleavings.

**`HostLock`** models the lock file, the liveness probe, takeover, release and
crashes. `others` are the process ids of programs that are no hosts: they come
and go, and the probe cannot tell one from a host that had its id. `overlap` is
history: a host was started while another was acquiring.
A host that finds its own recycled pid (or, in a container, pid 1) in a stale
lock refuses to start, which is the direction the source calls safe.

**`ChatPromise`** is the abstract conversation: who holds the chat, who was
told to stop, what was sent, which streams are open. It knows no handlers, logs
or files. `ChatTurn!KeepsThePromise` instantiates it, with `Holder`, `Sent` and
`Streams` as the refinement mapping: the holder is the request whose controller
is in the slot, a stream is open from `stream.start` to the first terminal frame
of its turn. It also fixes an order no invariant of `ChatTurn` states: a stream
is closed only after the chat was given back, so that a client may answer the
end of one turn with the next.

**`PageSync`** models one page and one chat of the host. A view is named by how
often the log had changed when it was made. `Host*` actions are the host as the
page can tell (its full form is `ChatTurn`): a turn starts, writes and ends, an
edit or a rename lands, and each is announced after its awaited save, or not at
all when the save of an edit throws (`untold`). `Deliver` is
`HANDLERS` over the head of the socket's queue; `OpenChat`, `CloseChat`,
`HostAnswersOpen`, `Opened`, `OpenFails` are `openChat` and `chat.open`; `Ask`,
`Silence`, `Connected`, `HostAnswersSync`, `Resynced`, `SyncFails` are `resync`
and who calls it; `Edited` and `Renamed` are what the page does with the answers
of its own swipes, edits, deletions and renames, which set the view as well;
`Drop`, `Closed`, `Reconnect` are the socket. `viewMoved` and
`streamMoved` stand for the identity comparisons of `resync`. `hole` is history:
something was missed or undone that nothing in the page will ask about.

**`InstallTxn`** models the transactions of one extension id. `record` is each
staging directory's phase, `target` and `locked` the installed directory,
`claim` and `written` the claim file (created, and then named), `pc` the handle
a process holds, which dies with it. `Begin` to `Discard` are `stage` and
`discard`; `OpenClaim` to `WriteClaim` are `acquireClaim`, one action per
file-system call; `BeginPromotion` to `Return` are `promote`; `MarkFailed`,
`Clear` are `abandon`; `RecoverStaging`, `RecoverTargets`, `RecoverClaims` are
`recoverInstallations`, with `RecoverStagingFails` and `RecoverTargetsFails` for a
removal that throws out of it. Every call may throw (`Fault`), those of the scan
included (`Misses`): a directory that cannot be listed is passed over, and a
`lock.json` that cannot be read counts as none, so that such a scan removes a
completed install (`recovery.ts:118`, `155`). The process may die anywhere
(`Crash`). `Recovers` says whether a start may run the scan; the service's never
does. `swept` is history: nothing has crashed since a scan of which no call failed.

**`Installation`** is the abstract install: one step that happens at most once,
and one answer per caller. `InstallTxn!InstallsAtomically` instantiates it, with
`Installed` (the target once it has its lock) and `Answers` (the outcome of a
transaction that is cleared up) as the refinement mapping. It fixes what the
answers are worth: "installed" and "refused" are true, while "failed" says
nothing, because a promotion that fails after its lock leaves the extension
installed, and an install that a crash ended is not answered. Only while a scan
is going on may the installed tree be lost.

**`PluginRows`** models one package's row and what goes with it, with the
installer's promotion as one step (that step is `InstallTxn`'s subject). `tree`,
`asset`, `stored`, `on` are on disk; `row`, `def`, `running`, `modules`, `inner`
are the process's. `Confirm` is `#confirmOne`, the steps from `Measure` to
`DeleteOld` are `#replaceRow` and `ClearSeat` to `Reenable` its rollback,
`Uninstall` to `RemoveRow` the uninstall, `UserEnables` and `UserDisables` the
user's switches, `Start` the boot scan, and `StartUnread` a start that cannot
read the catalog file: it keeps the file and lists no package (`unread`).
`modules` is the module cache of the runtime for the entries, whose URLs carry a
generation: an import under a URL seen before answers with what it answered then.
`inner` is that cache for what an entry imports by path, whose URL carries none
(`install.ts:1093`). `races` counts the calls that came in the middle of a
confirm; `torn` is history: an uninstall deleted the tree and failed at the row.

**`PluginLeases`** models the runtime's serialized transitions over any number of
plugins and dependencies, and the work they have to wait for. `op` is the
transition at the head of the queue; `OpenNext` to `Closed` are its steps, each
with the write of the preference file it awaits and the way it can fail; `held`
is the lease table. `StartTurn` to `Released` are a turn's writers from `#start`
through the loop of `#settle`; `StartCall`, `EndCall` are fenced calls. `Restart`,
`StartUnread` and `StartUnsaved` are a crash and `initialize`: with the file read,
with a file it cannot read, and with what it started not saved. The last two set
`storageFault`, under which nothing may be changed. `Own` are the steps the
runtime takes itself, `Hooks` those that wait for a plugin. Installation is
`PluginRows`' part.

`MC*` modules only give values to constants. The definitions named "Faulty
variant" are plausible bugs in the operator below them; nothing uses them except
the mutation runs listed in `PROJECT.json`, which show that each property can
fail.

## 3. Runs

| Run | Bounds | What it shows |
|---|---|---|
| `chat_turn` | three requests (a send, regenerate or continue; an impersonation, an edit or a side call; a compaction), one fault, fair host | `OneGeneration`, `OneTerminalFrame`, `StoppedTurnsSendNothing`, `ReplyRecorded`, `EveryStreamEnds`, `SlotIsFreed`, and the refinement `KeepsThePromise` |
| `chat_turn_rewrite` | a send and a rewrite, no fault | refutes `EditsLoseNoReply` |
| `swipes` | up to three greetings, logs of up to 9 events | `OneReplyPerTurn`, `SurfaceInOrder`, `SelectionShown`, `RoundTrip`, `EarlierReadingsStay` |
| `chat_store` | four interchangeable requests, all operations | `OneEntryAnswers`, `AnsweredMayWrite`, `EditsAreKept`, `AcknowledgedIsOnDisk`, `ReleasedNeverWrite` |
| `host_lock` | four hosts, the fourth with the first one's pid, the second run by another user, other programs with any free pid | `OneHostAtATime`, `NobodyIsLockedOut` |
| `install_txn` | three interchangeable transactions, two failing calls (of the scan too), two crashes, a scan at some of the starts | `PromotesOwnTree`, `BusyIsLive`, `NotWedged`, `InstalledStays`, and the refinement `InstallsAtomically` |
| `install_txn_wedged` | two transactions, one crash, no recovery | refutes `OnlyTheLiveAreBusy` |
| `plugin_rows` | two generations, one with a browser bundle, two pending previews, one failure, one crash, one call amid a confirm | `RowIsBacked`, `RunsWhatIsRecorded`, `OldTreeKept`, `ConsentIsForThatRow`, `RollsBack`, `UnreadIsKept` |
| `plugin_rows_orphan` | one preview, one crash, no failure | refutes `StartFindsTrees` |
| `page_sync` | one turn, one edit (of this page or another) or rename, one `chat.open`, one drop, one failing save or call, at most one queued frame before a delta | `CaughtUp`, `Watched`, `ResyncNeverGoesBack`, `CaretClears` |
| `page_sync_open` | one edit, one `chat.open` | refutes `ViewNeverGoesBack` |
| `plugin_leases` | a plugin and one that needs it, both writers, one turn, one call, four activations, one failing step, two restarts | `WorkKeepsItsActivation`, `DependenciesRun`, `RowsAreTrue`, `FencedCallsAreCurrent`, `WritersAreAsked`, `TransitionsEnd` |

Every module's `TypeOK` is proved by TLAPS for every value and not run again. The
one of `PluginRows` ends in a line about the code: a row is listed exactly while
the host is up, it is recorded, and the catalog file could be read.

Why the bounds are enough. Three requests are what the deepest story of `ChatTurn`
needs: one whose save fails late, one whose slot that clears, one that takes it;
their kinds bring every two sorts of handlers together, and one fault is the
settle that fails late. In `ChatStore` the longest
story is a load, an edit that waits on it, and two requests that let go of it.
Nine events hold three greetings with their selection and two more turns with a
reroll and a swipe. Four hosts hold a crash, a recycled pid, a takeover and a
witness. Three transactions hold one that crashed, one that takes its claim and
one that takes it at the same moment; two faults are one more than the
properties tolerate, so that their proviso is exercised. An update needs two
generations, and a second preview of the same row is what consent is about. A
page that missed something has missed a frame of one turn or one edit; two turns
or two drops were checked once with the same result and take minutes. The leases
need a dependency, a holder of each kind, a reload and a restart, which are four
activations; a second restart follows one whose file could not be read or saved. What holds for these is proved for every value where section 5 says
so. Runs set `CHECK_DEADLOCK FALSE` where requests are finite: when all have been
answered the system rests. `plugin_leases` leaves the check on: something can
always be begun.

Fairness. Only accepted work is fair. `ChatTurn!FairSpec`: every await of the
host ends, because the adapter has connect and idle budgets, the writers a
timeout, and the rest are file-system calls. `HostLock!FairSpec`: a host that
began to acquire goes on. `PageSync!FairSpec`: a save that precedes a frame ends,
the socket delivers or closes, the client reconnects with a backoff and no limit,
the silence timer fires, a `chat.resync` that was asked is answered;
`chat.open` and the page's edits need not be answered and no generation has to
finish. `PluginLeases!FairSpec`: only the runtime's own steps go on, which are
writes of a file and a drain that has nothing left to wait for. Neither `#drain`
nor a plugin's hook has a time limit, so that what a transition needs of them is
said in `TransitionsEnd` itself. No client, user, crash, drop, failure or Stop is
ever fair.

### What the refuted runs show

* **`chat_turn_rewrite`** `script.setChatMessages` checks idle, awaits a
  snapshot (`service.ts:2647`), and replaces the session under a turn that began
  meanwhile. `chat.deleteMessage` and `chat.branch` have the same shape, and in
  addition rebuild from lines captured before the await.
* **`install_txn_wedged`** a transaction whose process died leaves a `txn.json`
  that has not ended; `claimOwnerAlive` reads that as a live owner and refuses
  every later promotion, although the comment on the claim calls one whose owner
  is gone stale. The scan that would remove it is exported, and called
  from tests only: no start of the service runs `Installer.recover`.
* **`plugin_rows_orphan`** a fresh install promotes the tree before it writes the
  row, and the start's scan goes over recorded rows, so a crash (or a failed
  publish) between the two leaves a locked tree that is not listed, cannot be
  removed, and refuses every later install of its id.
* **`page_sync_open`** the answer of `chat.open`, which waits for `settings.get`
  beside it, is set whatever a frame brought since; unlike a resync it does not
  look whether the view moved.

### Why some properties have a proviso

Each proviso stands for behaviour of the code that the model reaches.

* `faults = 0` in `OneGeneration` (and `exact` in `ChatPromise`): `#settle` frees
  the slot (`service.ts:6201`), then awaits the save. If the save throws, the
  catch finishes the entry again (`service.ts:6247`), which by then may belong to
  the next turn.
* `EarlierReadingsStay` holds for readings no selection names: a selection
  outlives the reroll after it (`swipes.ts:93` reads the last selection event,
  `appendCandidate` records none), so the page lists the earlier reading as
  selected, and a trimmed reply is written over it (`service.ts:7668`).
* `ReleasedNeverWrite` speaks of requests that had not begun to save, and
  `AcknowledgedIsOnDisk` of saves that do not overlap: `save` checks `isLive` and
  then awaits twice, so a delete in between is written over, and two saves may be
  renamed in the wrong order.
* `OneHostAtATime` speaks of hosts started one after another: a lock whose record
  is not yet written reads as stale, and the takeover's `unlink` removes whatever
  is at the path by then.
* `thrown` in `SlotIsFreed`: a throw between `begin` and the driver's promise
  (`service.ts:5836-5932`) gives the leases back and rethrows, and nobody calls
  `finish`: the chat stays busy until the host is restarted.
* `MistakenFor` in `NobodyIsLockedOut`: `kill(pid, 0)` answers for any program, so
  a host that starts alone is refused if the crashed one's process id went to a
  program that runs, until that ends or the file is deleted by hand.
* `~hole` in `CaughtUp`: a `stream.error` brings no view, so a failed turn's user
  line is missing until something else happens; a `chat.open` answered late or not
  at all; the answer of a swipe, an edit or a deletion, which is set whether or
  not it is older than the view (`store.ts:2503-2528`), and which like a rename
  (`store.ts:2449`) makes the page drop a resync's answer; a reconnect that joined
  a resync asked before the gap; a reconnect's call that failed with no stream
  shown. `~untold`: an edit whose save throws is in the log, and announced to
  nobody (`service.ts:2933-2936`).
* `InstalledStays` excepts a scan one of whose calls fails, which takes a lock it
  cannot read for none and removes the tree. No start of the service scans, so in
  the service as it is nothing undoes an install.
* `swept` and `faults < 2` in `BusyIsLive` and `NotWedged`: what a crash leaves
  passes for a live install until a scan that meets no failing call; and so does
  what a promotion leaves that fails and whose cleanup fails too.
* `races = 0` and `faults < 2` in `PluginRows`: an uninstall or a switch of the
  user in the middle of an update is not serialised with it, and a rollback that
  fails at its own rename and at marking the row leaves the row unmarked.
* `torn` in `RowIsBacked`: an uninstall deletes the tree and then asks for the row
  (`install.ts:871-901`); if that is refused because of an enabled dependent, or
  its write fails, the row stays without a tree, and may even be enabled.
* `RunsWhatIsRecorded` says of the modules an entry imports by path only that they
  are of its generation or of the first this process loaded: after an update the
  new entry runs with the old ones until the host is restarted.
* `RollsBack` says exactly when the old bundle is served again, and when the row
  is enabled again. Two comments promise more. `install.ts:799-803` calls a
  rolled-back row the old generation whole, the asset face included: a failure
  between the publication of the new bundle and the replacement of the row leaves
  the new one served. `install.ts:646-651` says an enabled row reads enabled
  again: an update that failed at its disable or at moving the old tree aside
  leaves it off.
* `faults < 2` in `DependenciesRun`: an enable's rollback goes on past a plugin it
  could not close and closes what that one needs (`system-plugins.ts:1055`),
  although `docs/SYSTEM-PLUGINS.md:168-169` says a dependency with enabled
  dependents is not disabled.
* `Hosted` in `WritersAreAsked`: MVU's writer, which the host registers, looks
  its capability up when it is asked, so a disable in the middle of a generation
  drops its proposal: for that writer, "neither joins nor leaves"
  (`service.ts:5898-5902`) is not so.
* `LeasesReturn` and `HooksReturn` in `TransitionsEnd`: a lease that is not given
  back, or an activation or a disposal without end, keeps a plugin in its
  transition, as `docs/PLUGIN-AUTHORING-RUNBOOK.md:176` tells its authors.

`ChatStore` reaches three more such stories, which no run is spent on: a load in
flight during a restore is answered after it; the first of two deletes puts the
deleted chat's entry back when its unlink finds no file; a relink of a file that
is being loaded is undone by the entry's next save. They are in the hazards.

## 4. What the passing properties say

`OneGeneration` is the slot's contract, and `PendingIsTheHolders`, which is proved,
its counterpart for the row the pages are shown.
`StoppedTurnsSendNothing` says that a Stop pressed anywhere between claim and
finish, the compaction included, keeps the turn from being sent. `ReplyRecorded`
says a completed generation is in the conversation the host shows.
`OneTerminalFrame` counts frames on every path through `#settle` and `#fail`.
`SelectionShown` is the exact condition under which `selectedCandidate` tells
the truth. `OneEntryAnswers` is why the busy guard, which lives on the entry, is
a guard at all. `ReleasedNeverWrite` is the part of `#retire`'s promise that
holds. `OneHostAtATime` and `ServingIsRecorded` hold through crashes, recycled
pids and half-written records. `PromotesOwnTree` is why two transactions may
hold the claim at once without harm: the rename onto a directory that is not
empty decides. `InstallsAtomically` is what the callers get of it. `NotWedged` and
`BusyIsLive` are what the clean-up of a failed promotion is for, and after a crash
the recovery scan.
`RunsWhatIsRecorded` needs the generation in the import URL. `RollsBack` and
`OldTreeKept` follow the old generation through every step of an update: tree,
record, bundle and enabled state. `UnreadIsKept` is the comment's "the file was
retained" with all that may be asked after such a start: what has no row cannot be
uninstalled, switched, replaced or adopted.
`WorkKeepsItsActivation` is the lease contract, `TransitionsEnd` why the drain
cannot starve under new work, `FencedCallsAreCurrent` why every start writes a new revision.
`CaughtUp` says a lost frame, a drop and a reconnect leave nothing behind;
`Watched` and `CaretClears` say Stop cannot stay.

## 5. Proofs

All are checked by TLAPS for every value of the constants that satisfies the
module's named assumption; there are no other assumptions. Every safety property of a passing run is proved.

* **`ChatTurnProofs`**: `TypeOKHolds`, `SlotTyped`, `OneGenerationHolds`,
  `PendingIsTheHoldersHolds`, `StoppedTurnsSendNothingHolds`,
  `ReplyRecordedHolds`, `OneTerminalFrameHolds`, and the refinement
  `KeepsThePromiseHolds`. The invariant ties each `pc` to the slot: as long as no
  settle has failed, a request that holds the chat is the one whose controller is
  in `slot`, it holds a claim exactly while it is compacting, and every request
  that was told to stop has its controller in `stopped`. The properties alone are
  not inductive: `finish` clears the slot whoever holds it, so exclusiveness
  needs to know that only the holder reaches a `finish`. `ReplyRecorded` rests on
  it a second time: the session a driver was handed is replaced only by a
  settle, which needs the slot, or by an edit. The log's types need the log to be
  finite (an import counts turns) and the turn of a reply to be one the log has
  opened; `Highest` proves, by the pigeonhole principle, that the highest turn
  exists. For the refinement the invariant also says which frames a request has
  sent at each place, and every action is shown to be one of `ChatPromise`'s or a
  stutter.
* **`SwipesProofs`**: `TypeOKHolds`, `OneReplyPerTurnHolds`,
  `SurfaceInOrderHolds`, `SelectionShownHolds`, `RoundTripHolds`,
  `EarlierReadingsStayHolds`, all of `SwipeFile`'s specification, reloads and
  trimmed replies included. The invariant has two parts. `Sound` and `Shown` say that every
  entry of the surface is an event of the log, that some event belongs to the
  highest turn, that a turn with a logged reply has exactly one node on the
  surface, that the nodes follow their turns, and that the node of a turn is its
  newest reply while each selection repeats the reading it names. They are
  needed because `select` and `generate` move only the newest node: without the
  order, replacing that node could put a turn twice in front of the model.
  `Opened` says that a turn's first line comes after all lines of the turns
  before it; `#storeRewritten` rewrites the *last* line of the file, and only
  `Opened` makes that line the last turn's. What reading a file gives is proved
  by two inductions, over the lines (`ImportReads`) and over the readings of one
  line (`GrowingReads`): after each line the session is sound, its next turn is
  still empty, and it would be written as the lines read so far (`OneMoreLine`).
  `ExportWrites` says that a sound session writes such lines, so the two compose
  to `RoundTrip`, and a reload, which begins a new log, gives the invariant back.
  `ReadingWritten` and `WrittenReading` say where a reading stands in the file
  and that each text in it is a reading, which gives `EarlierReadingsStay`.
  Two techniques make this possible: an induction principle for a *set* of
  numbers (`Induction`, from well-founded minima; the library's theorems take an
  operator, which the provers cannot instantiate), and recursive functions in
  place of folds, unfolded once their existence is proved (`GrowingIs`,
  `ReadingIs`). `Listed` does the same for `InOrder`: every place up to the
  number of members is taken by exactly one.
* **`ChatStoreProofs`**: `TypeOKHolds`, `OneEntryAnswersHolds`,
  `AnsweredMayWriteHolds`, `ReleasedNeverWriteHolds`, `EditsAreKeptHolds`,
  `AcknowledgedIsOnDiskHolds`. The invariant says that a
  load is registered exactly while it runs, that the store answers only with
  loaded entries that are not retired, that a request which may still load has made no
  entry yet (so an entry's name is never taken twice), that no entry is answered
  while a load is in flight unless a failed unlink put one back, and that a
  released request's entry is retired until it is reinstated. For the two
  promises about changes it adds (`Kept`) that without deletes and restores
  everyone works on the answered entry, which has every change whose save has
  begun, and that a save which overlaps no other has projected every change that
  was acknowledged before.
* **`HostLockProofs`**: `TypeOKHolds`, `OneHostAtATimeHolds`,
  `ServingIsRecordedHolds`. The invariant says that a host serves only once
  its record is in, and that while starts do not overlap at most one host
  acquires, a host writes its record into the file at the path, a lock is judged
  stale only while nobody serves, and the file at the path is the serving host's.
* **`InstallTxnProofs`**: `TypeOKHolds`, `PromotesOwnTreeHolds`,
  `InstalledStaysHolds`, `BusyIsLiveHolds`, `NotWedgedHolds` and the refinement
  `InstallsAtomicallyHolds`. The invariant names the tree a transaction put at the
  target until its lock is in, and says (`Healed`) that with at most one failure a
  record that has not ended belongs to a transaction that works on it and a tree
  without its lock to a promotion, unless a crash has left something and no scan
  without a failing call has come by since. For the
  refinement it adds (`Honest`) what each place and outcome says about the lock;
  the abstract install is the step that writes it, and its undoing the step of a
  scan that could not read it.
* **`PluginRowsProofs`**: `TypeOKHolds`, `RowIsBackedHolds`,
  `RunsWhatIsRecordedHolds`, `UnreadIsKeptHolds`, `OldTreeKeptHolds`,
  `ConsentIsForThatRowHolds`, `RollsBackHolds`. The invariant has one line per place of an update and of its
  rollback: which generation is at the path, aside, recorded and running there
  (`Seats`, `Rows`), what is served (`Served`), what a usable row rests on
  (`Backed`), and what holds
  whatever fails (`Life`: a dead process has no previews and runs nothing, a
  confirm keeps the row it was shown until it swaps it). At rest the properties
  say little about the next step; only with the place does the state say which
  tree a failure has to bring back. TLC checked that it is inductive, from every
  state of a small instance that satisfies it, before it was proved.
* **`PluginLeasesProofs`**: `TypeOKHolds`, `WorkKeepsItsActivationHolds`,
  `RowsAreTrueHolds`, `DependenciesRunHolds`, `FencedCallsAreCurrentHolds`,
  `WritersAreAskedHolds`. The invariant says for each step of a transition what
  its plugin's row, activation and recorded flag are and that all other rows are
  at rest, that nothing runs and no transition is under way after a storage
  fault, that a lease names the running activation, that a page's snapshot is
  no newer than the file and, at an equal revision, shows what runs, and that a
  turn's writers are leased.
* **`PageSyncProofs`**: `TypeOKHolds`, `WatchedHolds`, `ResyncNeverGoesBackHolds`,
  `CaughtUpHolds`. The invariant
  says that every view the page, a frame or an answer holds is one the host had,
  and that an answer of
  a resync is no older than the view the page had when it asked, unless that view
  has moved since. For `CaughtUp` it says where the view of a host at rest is, for
  a page that is connected and has no hole: shown already, in a queued frame
  after which no other tells less (`LastFrameTells`), or on its way (`Coming`)
  by an armed timer, by a resync whose answer will be let in, or by an open.

Only model-checked: the liveness properties (`EveryStreamEnds`, `SlotIsFreed`,
`NobodyIsLockedOut`, `CaretClears`, `TransitionsEnd`), which are out of the
prover's reach.

## 6. Not modelled

Most of the repository is data: prompt text, regular expressions, presets, card
parsing, translations, schemas, views and components. It keeps no state of its
own between awaits, and a model of it would be a transcription. Beyond that:

* the values of variables and what the arbitration computes from proposals;
  backups' retention, the branch tree, settings, card storage and the script
  stores (each a queued writer of one file);
* `create`, `branch` and `importFile` of the chat store: the ids they mint have a
  resolution of one second, so that two creates in one second could collide;
* the temporary file and the retry inside an atomic write, which lands or throws
  as one step, and the fallback of the installer's own `atomicWriteJson` on
  Windows;
* in `PluginLeases`: hook failures on a row, unfenced calls, the dispose at
  shutdown, several writers of one plugin, and a start whose first write fails,
  which is refused; in `PluginRows`: rows installed from a directory of the user's
  (dev), the deletion of a plugin's data, clone refresh, permission edits, and a
  start that cannot save what it started (`PluginLeases` has it); in `PageSync`: a
  crash of the host, more than one chat, handlers that refuse an edit, and the
  catalog snapshot a reconnect fetches.

Symbolic names (`Surfaced`, `Shadowing`) stand for the external session library
as `swipes.ts` uses it.

## 7. Plan

1. Done: `ChatTurn` with `ChatPromise`, `Swipes`, `SwipeFile`, `ChatStore`,
   `HostLock`, `PageSync`, `InstallTxn` with `Installation`, `PluginRows`,
   `PluginLeases`, their proofs and the two refinements.
2. Done: the theorems of `Swipes` through the chat file, and `RoundTrip`.
3. An atomic update as an abstract specification that `PluginRows` implements up
   to one failure, and a lock held by at most one host that `HostLock` implements
   while starts do not overlap.
4. Pure algorithms against reference definitions: `planBranchDelete`, compaction
   coverage, the lorebook budget.
