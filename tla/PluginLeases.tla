----------------------------- MODULE PluginLeases -----------------------------
(***************************************************************************)
(* Work and transitions of the system plugins: SystemPluginRuntime's       *)
(* serialized enable, disable and reload with the preference file behind   *)
(* them, the leases that admit work to one activation and that a           *)
(* transition drains, the turns that hold their variable writers from      *)
(* their start to the end of their settlement, and the calls a page fences *)
(* with the revision it saw.                                               *)
(***************************************************************************)
EXTENDS Naturals, FiniteSets

CONSTANTS
  Plugins,    \* the catalog rows, all installed
  Needs,      \* the dependencies each of them declares
  Writers,    \* those with a registered variable writer
  Hosted,     \* the writers the host registers (MVU's), which look their
              \* capability up when they are asked
  Turns,      \* the conversations, one generation each at a time
  Calls,      \* the calls a page may have in flight
  MaxBirths,  \* bound: activations, a restart counted as one
  MaxFaults,  \* bound: steps of a transition that fail
  MaxCrashes, \* bound: how often the host dies
  None        \* no transition, no writer

ASSUME PluginLeasesAssumption ==
  /\ Needs \in [Plugins -> SUBSET Plugins] /\ \A p \in Plugins : p \notin Needs[p]
  /\ Writers \subseteq Plugins /\ Hosted \subseteq Writers
  /\ Turns \cap Calls = {}
  /\ MaxBirths \in Nat /\ MaxFaults \in Nat /\ MaxCrashes \in Nat
  /\ None \notin Plugins \X Nat

VARIABLES
  row,    \* per plugin: its status and its enabled flag
  alive,  \* per plugin: its activation, 0 when there is none
  births, \* activations so far
  prefs,  \* the plugins #persisted has as enabled
  rev,    \* the runtime's revision
  disk,   \* the preference file: the plugins enabled, and its revision
  storageFault, \* the file could not be read or normalised: nothing may be changed
  op,     \* the transition at the head of the queue
  held,   \* the leases: <<holder, plugin, activation>>
  turn,   \* per turn: where it is, the writers left, the one asked
  page,   \* the snapshot a page has: revision, and the activations it shows
  faults, crashes

catalog == <<row, alive, births, prefs, rev, disk>>
work == <<held, turn, page>>
life == <<storageFault, crashes>>
vars == <<catalog, op, work, faults, life>>

Statuses == {"disabled", "enabling", "enabled", "disabling", "error"}
Steps == {"idle", "next", "starting", "started", "rolling",
          "closing", "draining", "disposing", "closed"}
Kinds == {"enable", "disable", "reload"}

\* A transition: what was asked, the plugin it is at, those an enable still has
\* to start and those it has started.
Idle == [kind |-> "enable", at |-> None, todo |-> {}, did |-> {}, step |-> "idle"]

TypeOK ==
  /\ row \in [Plugins -> [status : Statuses, enabled : BOOLEAN]]
  /\ alive \in [Plugins -> Nat] /\ births \in Nat
  /\ prefs \subseteq Plugins
  /\ disk \in [on : SUBSET Plugins, rev : Nat]
  /\ storageFault \in BOOLEAN /\ rev \in Nat /\ rev <= disk.rev
  /\ ~storageFault => rev = disk.rev
  /\ op \in [kind : Kinds, at : Plugins \cup {None}, todo : SUBSET Plugins,
             did : SUBSET Plugins, step : Steps]
  /\ held \subseteq (Turns \cup Calls) \X Plugins \X Nat
  /\ turn \in [Turns -> [at : {"idle", "generating", "settling", "asking", "ending"},
                         left : SUBSET (Plugins \X Nat),
                         asked : (Plugins \X Nat) \cup {None}]]
  /\ page \in [rev : Nat, shows : [Plugins -> Nat]]
  /\ faults \in 0 .. MaxFaults /\ crashes \in 0 .. MaxCrashes

Asleep == [at |-> "idle", left |-> {}, asked |-> None]

Init ==
  /\ row = [p \in Plugins |-> [status |-> "disabled", enabled |-> FALSE]]
  /\ alive = [p \in Plugins |-> 0] /\ births = 0
  /\ prefs = {} /\ rev = 1 /\ disk = [on |-> {}, rev |-> 1]
  /\ op = Idle
  /\ held = {} /\ turn = [t \in Turns |-> Asleep]
  /\ page = [rev |-> 0, shows |-> [p \in Plugins |-> 0]]
  /\ faults = 0 /\ crashes = 0 /\ storageFault = FALSE
-------------------------------------------------------------------------------
(* Rows, and writing them.                                                   *)

\* Faulty variant: a row that is closing still admits work.
IsEnabledUntilDisposed(p) == row[p].status \in {"enabled", "disabling"} /\ alive[p] # 0

\* isEnabled: whether new work may enter.
IsEnabled(p) == row[p].enabled /\ row[p].status = "enabled" /\ alive[p] # 0

\* Faulty variant: dependents are not looked at.
NoDependent(p) == TRUE

\* #refuseEnabledDependents.
NoneDepends(p) ==
  \A q \in Plugins : p \in Needs[q] => ~row[q].enabled /\ row[q].status # "enabling"

\* #enableOrder: p and everything it needs, however far down.
Order(p) ==
  {q \in Plugins :
     \A S \in SUBSET Plugins : p \in S /\ (\A x \in S : Needs[x] \subseteq S) => q \in S}

\* A step of the transition fails (and perhaps saving that it did).
Fault == faults < MaxFaults /\ faults' = faults + 1
NoFault == UNCHANGED faults

Write(on) == disk' = [on |-> on, rev |-> rev + 1] /\ rev' = rev + 1

\* Faulty variant: the row changes, and the file is left for later.
CommitUnsaved(p, status, enabled) ==
  /\ row' = [row EXCEPT ![p] = [status |-> status, enabled |-> enabled]]
  /\ prefs' = IF enabled THEN prefs \cup {p} ELSE prefs \ {p}
  /\ UNCHANGED disk /\ rev' = rev + 1

\* #commit: the file is replaced first, and the row changes once it is.
Commit(p, status, enabled) ==
  /\ row' = [row EXCEPT ![p] = [status |-> status, enabled |-> enabled]]
  /\ prefs' = IF enabled THEN prefs \cup {p} ELSE prefs \ {p}
  /\ Write(prefs')

\* #setFailure: the row stops at once, whether or not that can be saved.
SetFailure(p) ==
  /\ row' = [row EXCEPT ![p] = [status |-> "error", enabled |-> FALSE]]
  /\ prefs' = prefs \ {p}
  /\ Fault
  /\ Write(prefs') \/ UNCHANGED <<disk, rev>>
-------------------------------------------------------------------------------
(* The transitions, one at a time (#serialize).                              *)

At(p, step) == op.step = step /\ op.at = p
Go(p, step) == op' = [op EXCEPT !.at = p, !.step = step]

\* An enable rolls back what it started; the others end here.
GiveUp(p) ==
  op' = IF op.kind = "enable"
        THEN [op EXCEPT !.at = None, !.todo = {}, !.did = @ \ {p}, !.step = "rolling"]
        ELSE Idle

\* #assertWritable refuses every transition while there is a storage fault (and
\* then nothing is enabled that could be closed).
StartEnable(p) ==
  /\ op.step = "idle" /\ ~IsEnabled(p) /\ ~storageFault
  /\ LET todo == {q \in Order(p) : ~IsEnabled(q)}
     IN /\ births + Cardinality(todo) <= MaxBirths
        /\ op' = [kind |-> "enable", at |-> None, todo |-> todo, did |-> {}, step |-> "next"]
  /\ UNCHANGED <<catalog, work, faults, life>>

\* disable and reload refuse a plugin that others depend on.
StartClosing(p, kind) ==
  /\ op.step = "idle" /\ IsEnabled(p) /\ NoneDepends(p)
  /\ kind = "reload" => births < MaxBirths
  /\ op' = [kind |-> kind, at |-> p, todo |-> {}, did |-> {}, step |-> "closing"]
  /\ UNCHANGED <<catalog, work, faults, life>>

\* The next plugin in dependency order; a first commit that fails changes
\* nothing about its row.
OpenNext(p) ==
  /\ op.step = "next" /\ p \in op.todo /\ Needs[p] \cap op.todo = {}
  /\ \/ Commit(p, "enabling", FALSE) /\ Go(p, "starting") /\ NoFault
        /\ UNCHANGED <<alive, births>>
     \/ Fault /\ GiveUp(p) /\ UNCHANGED catalog
  /\ UNCHANGED <<work, life>>

\* #activate: the plugin's fiber, up or thrown.
Activate(p) ==
  /\ At(p, "starting")
  /\ \/ /\ births' = births + 1 /\ alive' = [alive EXCEPT ![p] = births']
        /\ Go(p, "started") /\ UNCHANGED <<row, prefs, rev, disk>> /\ NoFault
     \/ SetFailure(p) /\ GiveUp(p) /\ UNCHANGED <<alive, births>>
  /\ UNCHANGED <<work, life>>

\* The commit that admits work; without it the new fiber is disposed again.
Opened(p) ==
  /\ At(p, "started")
  /\ \/ /\ Commit(p, "enabled", TRUE) /\ UNCHANGED alive /\ NoFault
        /\ op' = IF op.kind = "reload" THEN Idle
                 ELSE [op EXCEPT !.at = None, !.todo = @ \ {p}, !.did = @ \cup {p},
                                 !.step = "next"]
     \/ SetFailure(p) /\ alive' = [alive EXCEPT ![p] = 0] /\ GiveUp(p)
  /\ UNCHANGED <<births, work, life>>

Enabled ==
  /\ op.step = "next" /\ op.todo = {} /\ op' = Idle
  /\ UNCHANGED <<catalog, work, faults, life>>

\* Rolled back last started first; a plugin that cannot be closed stays on.
RollBack(p) ==
  /\ op.step = "rolling" /\ p \in op.did
  /\ \A q \in op.did : p \notin Needs[q]
  /\ Go(p, "closing")
  /\ UNCHANGED <<catalog, work, faults, life>>

RolledBack ==
  /\ op.step = "rolling" /\ op.did = {} /\ op' = Idle
  /\ UNCHANGED <<catalog, work, faults, life>>

\* #invalidate closes admission; a reload keeps the preference.
Close(p) ==
  /\ At(p, "closing")
  /\ \/ Commit(p, "disabling", op.kind = "reload") /\ Go(p, "draining") /\ NoFault
        /\ UNCHANGED <<alive, births>>
     \/ Fault /\ GiveUp(p) /\ UNCHANGED catalog
  /\ UNCHANGED <<work, life>>

\* Faulty variant: only a turn's work is waited for.
DrainedOfTurns(p) == \A t \in Turns : <<t, p, alive[p]>> \notin held

\* #drain: the last lease on this activation was released.
Drained(p) == \A who \in Turns \cup Calls : <<who, p, alive[p]>> \notin held

Drain(p) ==
  /\ At(p, "draining") /\ Drained(p)
  /\ Go(p, "disposing")
  /\ UNCHANGED <<catalog, work, faults, life>>

\* #disposeActivation: the activation is gone even when its dispose threw.
Dispose(p) ==
  /\ At(p, "disposing")
  /\ alive' = [alive EXCEPT ![p] = 0]
  /\ \/ Go(p, "closed") /\ UNCHANGED <<row, prefs, rev, disk>> /\ NoFault
     \/ SetFailure(p) /\ GiveUp(p)
  /\ UNCHANGED <<births, work, life>>

\* A disable ends here; a reload goes on to start the next activation.
Closed(p) ==
  /\ At(p, "closed")
  /\ \/ /\ op.kind = "reload" /\ Commit(p, "enabling", TRUE) /\ Go(p, "starting") /\ NoFault
     \/ /\ op.kind # "reload" /\ Commit(p, "disabled", FALSE) /\ GiveUp(p) /\ NoFault
     \/ SetFailure(p) /\ GiveUp(p)
  /\ UNCHANGED <<alive, births, work, life>>
-------------------------------------------------------------------------------
(* Turns: their writers from #start to the end of #settle.                   *)

Move(t, state) == turn' = [turn EXCEPT ![t] = state]

\* #start: one lease for each writer that is enabled, in the same tick.
StartTurn(t) ==
  /\ turn[t].at = "idle"
  /\ LET writers == {<<p, alive[p]>> : p \in {q \in Writers : IsEnabled(q)}}
     IN /\ Move(t, [at |-> "generating", left |-> writers, asked |-> None])
        /\ held' = held \cup {<<t, w[1], w[2]>> : w \in writers}
  /\ UNCHANGED <<catalog, op, page, faults, life>>

\* The driver returned, or the turn failed with nothing to settle.
Generated(t) ==
  /\ turn[t].at = "generating"
  /\ \/ Move(t, [turn[t] EXCEPT !.at = "settling"])
     \/ Move(t, [turn[t] EXCEPT !.at = "ending", !.left = {}])
  /\ UNCHANGED <<catalog, op, held, page, faults, life>>

\* Faulty variant: current while the row admits work, not while it runs.
CurrentWhenOpen(w) == IsEnabled(w[1]) /\ alive[w[1]] = w[2]

\* lease.isCurrent: this very activation has not been disposed.
IsCurrent(w) == alive[w[1]] = w[2]

\* What the host registers for a plugin finds the capability only while the
\* plugin admits work (#runtimeMvuWriter).
Answers(w) == w[1] \in Hosted => IsEnabled(w[1])

\* The settle loop takes the writers by depth, and asks those still current.
Turn(t, w) ==
  /\ turn[t].at = "settling" /\ w \in turn[t].left
  /\ \A v \in turn[t].left : v = w \/ v[1] \notin Order(w[1])

Ask(t, w) ==
  /\ Turn(t, w) /\ IsCurrent(w) /\ Answers(w)
  /\ Move(t, [at |-> "asking", left |-> turn[t].left \ {w}, asked |-> w])
  /\ UNCHANGED <<catalog, op, held, page, faults, life>>

Skip(t, w) ==
  /\ Turn(t, w) /\ ~(IsCurrent(w) /\ Answers(w))
  /\ Move(t, [turn[t] EXCEPT !.left = @ \ {w}])
  /\ UNCHANGED <<catalog, op, held, page, faults, life>>

\* The race of the proposal with its budget ends: a proposal, none, a throw, or
\* the timeout, after which nobody listens for the answer.
Answered(t) ==
  /\ turn[t].at = "asking"
  /\ Move(t, [turn[t] EXCEPT !.at = "settling", !.asked = None])
  /\ UNCHANGED <<catalog, op, held, page, faults, life>>

\* The proposals are arbitrated and written, the reply is saved and announced.
Settled(t) ==
  /\ turn[t].at = "settling" /\ turn[t].left = {}
  /\ Move(t, [turn[t] EXCEPT !.at = "ending"])
  /\ UNCHANGED <<catalog, op, held, page, faults, life>>

\* Whatever happened, the leases are released at the very end.
Released(t) ==
  /\ turn[t].at = "ending"
  /\ Move(t, Asleep)
  /\ held' = {l \in held : l[1] # t}
  /\ UNCHANGED <<catalog, op, page, faults, life>>
-------------------------------------------------------------------------------
(* Pages: their snapshot of the catalog, and calls fenced with its revision. *)

PageLearns ==
  /\ page' = [rev |-> rev, shows |-> [p \in Plugins |-> IF IsEnabled(p) THEN alive[p] ELSE 0]]
  /\ page' # page
  /\ UNCHANGED <<catalog, op, held, turn, faults, life>>

\* lease(id, expectedRevision): admitted now, at the revision the page saw.
StartCall(c, p) ==
  /\ \A l \in held : l[1] # c
  /\ page.shows[p] # 0
  /\ IsEnabled(p) /\ page.rev = rev
  /\ held' = held \cup {<<c, p, alive[p]>>}
  /\ UNCHANGED <<catalog, op, turn, page, faults, life>>

EndCall(c) ==
  /\ \E l \in held : l[1] = c
  /\ held' = {l \in held : l[1] # c}
  /\ UNCHANGED <<catalog, op, turn, page, faults, life>>
-------------------------------------------------------------------------------
(* The host dies and starts again (initialize).                              *)

\* Faulty variant: the revision of the file is the runtime's.
BootAt(on) == rev' = disk.rev /\ disk' = [on |-> on, rev |-> disk.rev]

\* Every start moves the revision on, in the file first.
BootRevision(on) == rev' = disk.rev + 1 /\ disk' = [on |-> on, rev |-> disk.rev + 1]

\* The old process is gone, with its work and the transition it was in.
Reboot ==
  /\ crashes < MaxCrashes /\ crashes' = crashes + 1
  /\ op' = Idle /\ held' = {} /\ turn' = [t \in Turns |-> Asleep]
  /\ UNCHANGED page

\* Those the file has enabled start, with what they need; one that cannot
\* start leaves an error on its row and on those that need it.
Restart ==
  /\ Reboot /\ births < MaxBirths
  /\ LET wanted == UNION {Order(p) : p \in disk.on}
     IN \E on \in SUBSET wanted :
          /\ \A p \in on : Needs[p] \subseteq on
          /\ IF on = wanted THEN NoFault ELSE Fault
          /\ alive' = [p \in Plugins |-> IF p \in on THEN births + 1 ELSE 0]
          /\ row' = [p \in Plugins |->
                       [enabled |-> p \in on,
                        status |-> IF p \in on THEN "enabled"
                                   ELSE IF p \in wanted THEN "error" ELSE "disabled"]]
          /\ prefs' = on /\ BootRevision(on)
  /\ births' = births + 1 /\ storageFault' = FALSE

\* Nothing runs, and every row says why.
AllFail ==
  /\ alive' = [p \in Plugins |-> 0] /\ prefs' = {}
  /\ row' = [p \in Plugins |-> [status |-> "error", enabled |-> FALSE]]

\* The file cannot be read: it is left as it is, and the revision starts at 0.
StartUnread ==
  /\ Reboot /\ Fault /\ AllFail
  /\ storageFault' = TRUE /\ rev' = 0
  /\ UNCHANGED <<births, disk>>

\* What was started cannot be saved: it is disposed of again, and the file has
\* either that, or still what it had, at the revision of this start.
StartUnsaved ==
  /\ Reboot /\ births < MaxBirths /\ Fault /\ AllFail
  /\ births' = births + 1
  /\ \/ /\ disk' = [on |-> {}, rev |-> disk.rev + 2] /\ rev' = disk.rev + 2
        /\ storageFault' = FALSE
     \/ /\ disk' = [disk EXCEPT !.rev = @ + 1] /\ rev' = disk.rev + 1
        /\ storageFault' = TRUE
-------------------------------------------------------------------------------
\* The steps the runtime takes itself, and those a plugin takes.
Own ==
  \/ Enabled \/ RolledBack
  \/ \E p \in Plugins :
       OpenNext(p) \/ Opened(p) \/ RollBack(p) \/ Close(p) \/ Drain(p) \/ Closed(p)

Hooks == \E p \in Plugins : Activate(p) \/ Dispose(p)

Starts == Restart \/ StartUnread \/ StartUnsaved

Settle(t) ==
  \/ Generated(t) \/ Answered(t) \/ Settled(t) \/ Released(t)
  \/ \E w \in turn[t].left : Ask(t, w) \/ Skip(t, w)

Client ==
  \/ \E p \in Plugins :
       StartEnable(p) \/ StartClosing(p, "disable") \/ StartClosing(p, "reload")
  \/ \E t \in Turns : StartTurn(t)
  \/ PageLearns
  \/ \E c \in Calls, p \in Plugins : StartCall(c, p)

Next ==
  \/ Client \/ Own \/ Hooks \/ Starts
  \/ \E t \in Turns : Settle(t)
  \/ \E c \in Calls : EndCall(c)

Spec == Init /\ [][Next]_vars

(***************************************************************************)
(* Only the runtime's own steps are fair (writes of the file, and the      *)
(* drain once nobody holds a lease).  Neither the work nor a plugin's      *)
(* activation and disposal have a time limit, and nobody has to begin      *)
(* anything.                                                               *)
(***************************************************************************)
FairSpec == Spec /\ WF_vars(Own)
-------------------------------------------------------------------------------
(* What the runtime promises.                                                *)

\* No activation is disposed or replaced while work admitted to it is going on:
\* a resolved disable guarantees that nothing of it can commit later.
WorkKeepsItsActivation == \A l \in held : alive[l[2]] = l[3]

\* What a plugin was started on is running as long as the plugin is, through
\* failed enables and their rollback, reloads, disables and restarts, as long as
\* one step failed: the rollback goes on past a plugin it could not close, and
\* closes what that one needs.
DependenciesRun ==
  faults < 2 => \A p \in Plugins : alive[p] # 0 => \A q \in Needs[p] : alive[q] # 0

\* A row at rest says what is running and what the next start will run.
RowsAreTrue ==
  \A p \in Plugins :
    /\ row[p].status = "enabled" => row[p].enabled /\ alive[p] # 0 /\ p \in disk.on
    /\ row[p].status = "disabled" => ~row[p].enabled /\ alive[p] = 0 /\ p \notin disk.on
    /\ row[p].status = "error" => alive[p] = 0

\* A fenced call is admitted only to the activation its page was looking at,
\* across reloads and across a restart of the host.
FencedCallsAreCurrent ==
  [][\A l \in held' \ held : l[1] \in Calls => page.shows[l[2]] = l[3]]_vars

\* The writers of a turn are those of its start: a disable or a reload that
\* lands in the middle waits, and they are asked all the same ("neither joins nor
\* leaves", service.ts:5898-5902).  That is not so for the writer the host itself
\* registers for MVU, which is left out: a disable in the middle drops it.
WritersAreAsked ==
  [][\A t \in Turns : \A w \in turn[t].left : w[1] \notin Hosted => ~Skip(t, w)]_vars

\* The authors' runbook (docs/PLUGIN-AUTHORING-RUNBOOK.md:176) names what may keep
\* a plugin "disabling": a lease that is not released, or a task of its own
\* without end.
LeasesReturn == \A who \in Turns \cup Calls : []<>(\A l \in held : l[1] # who)
HooksReturn == []<>(op.step \notin {"starting", "disposing"})

\* Nothing else does: without these every transition comes to its end, however
\* much work keeps arriving, whichever steps fail and however often the host dies.
TransitionsEnd == LeasesReturn /\ HooksReturn => (op.step # "idle" ~> op.step = "idle")
===============================================================================
