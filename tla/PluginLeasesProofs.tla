-------------------------- MODULE PluginLeasesProofs --------------------------
(***************************************************************************)
(* What the plugin runtime promises, for any catalog, any number of turns  *)
(* and calls, and any failures: the leases and the drain keep work on its  *)
(* activation, the rows agree with what runs and with the file, and one    *)
(* failed step never leaves a plugin without what it needs.                *)
(***************************************************************************)
EXTENDS PluginLeases, TLAPS

AtWork == {"starting", "started", "closing", "draining", "disposing", "closed"}
Closing == {"closing", "draining", "disposing", "closed"}

\* A row, the preferences and the file: only a failure that could not be saved
\* leaves a plugin on in the file, and its row says "error".
RowInv ==
  /\ storageFault => op.step = "idle" /\ \A p \in Plugins : row[p].status = "error"
  /\ \A p \in Plugins :
       /\ row[p].status = "enabled" => p \in prefs /\ alive[p] # 0
       /\ row[p].status = "disabled" => p \notin prefs /\ alive[p] = 0
       /\ row[p].status = "error" => p \notin prefs /\ alive[p] = 0
       /\ row[p].status \in {"enabling", "disabling"} => op.step \in AtWork /\ op.at = p
       /\ (row[p].enabled => p \in prefs) /\ (p \in prefs => row[p].enabled)
       /\ p \in prefs => p \in disk.on
       /\ p \in disk.on /\ p \notin prefs => row[p].status = "error"

\* Where the transition is, its plugin's row is.
OpInv ==
  /\ op.step \in AtWork =>
       /\ op.at \in Plugins
       /\ op.step = "starting" => row[op.at].status = "enabling" /\ alive[op.at] = 0
       /\ op.step = "started" => row[op.at].status = "enabling" /\ alive[op.at] # 0
       /\ op.step = "closing" => row[op.at].status = "enabled"
       /\ op.step \in {"draining", "disposing"} =>
            row[op.at].status = "disabling" /\ alive[op.at] # 0
       /\ op.step = "closed" => row[op.at].status = "disabling" /\ alive[op.at] = 0
  /\ op.kind = "enable" =>
       /\ \A p \in op.did : row[p].status = "enabled" \/ (op.step \in Closing /\ p = op.at)
       /\ \A p \in op.todo : row[p].status # "enabled"
       /\ op.step \in {"starting", "started"} => op.at \in op.todo
  /\ op.kind # "enable" => op.todo = {} /\ op.did = {} /\ op.step \in AtWork
  /\ op.kind = "disable" => op.step \in Closing

\* Leases are on running activations, and none on one about to go; a turn holds
\* the leases of the writers it has still to ask.
LeaseInv ==
  /\ \A l \in held : alive[l[2]] = l[3] /\ l[3] # 0
  /\ op.step \in {"disposing", "started"} => \A l \in held : l[2] # op.at
  /\ \A t \in Turns : \A w \in turn[t].left : <<t, w[1], w[2]>> \in held
  /\ \A t \in Turns : turn[t].at \in {"idle", "ending"} => turn[t].left = {}

\* A page that is up to date shows what runs.
PageInv ==
  /\ page.rev <= disk.rev
  /\ ~storageFault /\ page.rev = rev =>
       \A p \in Plugins :
         page.shows[p] # 0 => row[p].status = "enabled" /\ page.shows[p] = alive[p]

Runs == \A p \in Plugins : alive[p] # 0 => \A q \in Needs[p] : alive[q] # 0

\* Dependencies, while at most one step failed: what an enable has still to
\* start needs only what runs or is still to start; what is about to be closed,
\* or has just started, is needed by nothing that runs; and what needs a plugin
\* the enable started was started by it too.
DepInv ==
  /\ Runs
  /\ op.kind = "enable" /\ op.step \in {"next", "starting", "started"} =>
       \A p \in op.todo : \A q \in Needs[p] : q \in op.todo \/ row[q].status = "enabled"
  /\ op.kind = "enable" /\ op.step = "starting" => Needs[op.at] \cap op.todo = {}
  /\ op.step \in AtWork => \A q \in Plugins : op.at \in Needs[q] => alive[q] = 0
  /\ op.kind # "enable" => \A q \in Needs[op.at] : row[q].status = "enabled"
  /\ op.kind = "enable" /\ op.step \in {"rolling"} \cup Closing => faults > 0
  /\ op.kind = "enable" =>
       \A p \in op.did, q \in Plugins :
         p \in Needs[q] /\ alive[q] # 0 =>
           q \in op.did \/ (op.step = "started" /\ q = op.at)

Inv == TypeOK /\ RowInv /\ OpInv /\ LeaseInv /\ PageInv /\ (faults < 2 => DepInv)

RowType == [Plugins -> [status : Statuses, enabled : BOOLEAN]]

TurnType ==
  [at : {"idle", "generating", "settling", "asking", "ending"},
   left : SUBSET (Plugins \X Nat), asked : (Plugins \X Nat) \cup {None}]

OpType ==
  [kind : Kinds, at : Plugins \cup {None}, todo : SUBSET Plugins, did : SUBSET Plugins,
   step : Steps]

USE PluginLeasesAssumption DEF PluginLeasesAssumption
-------------------------------------------------------------------------------
(* What committing and failing do to a row and the file.                     *)

\* A commit of p that landed.
Saved(p, status, enabled) ==
  /\ row' \in RowType
  /\ row'[p].status = status
  /\ (row'[p].enabled => enabled) /\ (enabled => row'[p].enabled)
  /\ \A q \in Plugins : q # p => row'[q] = row[q]
  /\ prefs' = (IF enabled THEN prefs \cup {p} ELSE prefs \ {p})
  /\ prefs' \subseteq Plugins
  /\ disk' \in [on : SUBSET Plugins, rev : Nat]
  /\ disk'.on = prefs' /\ rev' = disk'.rev /\ rev' = rev + 1

\* A failure recorded on p's row, and perhaps in the file.
Failed(p) ==
  /\ row' \in RowType
  /\ row'[p].status = "error" /\ ~row'[p].enabled
  /\ \A q \in Plugins : q # p => row'[q] = row[q]
  /\ prefs' = prefs \ {p} /\ prefs' \subseteq Plugins
  /\ faults' = faults + 1 /\ faults' \in 0 .. MaxFaults
  /\ disk' \in [on : SUBSET Plugins, rev : Nat]
  /\ disk'.on = prefs' \/ disk'.on = disk.on
  /\ rev' = disk'.rev /\ rev' >= rev

\* The transition goes on with p, or gives it up.
MovedTo(p, step) ==
  /\ op' \in OpType
  /\ op'.kind = op.kind /\ op'.at = p /\ op'.step = step
  /\ op'.todo = op.todo /\ op'.did = op.did

GivenUp(p) ==
  /\ op' \in OpType /\ op'.kind = "enable" /\ op'.todo = {}
  /\ op.kind = "enable" => op'.step = "rolling" /\ op'.did = op.did \ {p}
  /\ op.kind # "enable" => op'.step = "idle" /\ op'.did = {}

LEMMA CommitEffect ==
  ASSUME TypeOK, NEW p \in Plugins, NEW status \in Statuses, NEW enabled \in BOOLEAN,
         Commit(p, status, enabled)
  PROVE  Saved(p, status, enabled)
  BY DEF TypeOK, Commit, Write, RowType, Saved

LEMMA FailureEffect ==
  ASSUME TypeOK, ~storageFault, NEW p \in Plugins, SetFailure(p)
  PROVE  Failed(p)
  BY DEF TypeOK, SetFailure, Write, RowType, Statuses, Fault, Failed

LEMMA GoEffect ==
  ASSUME op \in OpType, NEW p \in Plugins, NEW step \in Steps, Go(p, step)
  PROVE  MovedTo(p, step)
  BY DEF OpType, Go, MovedTo

LEMMA GiveUpEffect ==
  ASSUME op \in OpType, NEW p \in Plugins, GiveUp(p)
  PROVE  GivenUp(p)
<1>1. CASE op.kind = "enable"
  BY <1>1 DEF OpType, GiveUp, Steps, GivenUp
<1>2. CASE op.kind # "enable"
  BY <1>2 DEF OpType, GiveUp, Idle, Steps, Kinds, GivenUp
<1> QED
  BY <1>1, <1>2

\* While a transition goes on, the file is the runtime's.
LEMMA Writable ==
  ASSUME Inv, op.step # "idle"
  PROVE  ~storageFault /\ rev = disk.rev /\ page.rev <= rev
  BY DEF Inv, RowInv, TypeOK, PageInv

\* A page that was up to date still is, if the failure changed the revision too
\* or the plugin was not shown.
LEMMA FailedPage ==
  ASSUME Inv, op.step # "idle", NEW p \in Plugins, row[p].status # "enabled", Failed(p),
         page' = page, storageFault' = storageFault,
         \A q \in Plugins : q # p => alive'[q] = alive[q]
  PROVE  PageInv'
<1>1. /\ rev \in Nat /\ rev' \in Nat /\ page.rev \in Nat /\ page.rev <= rev /\ rev <= rev'
      /\ ~storageFault /\ rev' = disk'.rev
  BY Writable DEF Inv, TypeOK, Failed
<1>2. page.rev <= disk'.rev /\ (page.rev = rev' => page.rev = rev)
  BY <1>1
<1>3. \A q \in Plugins : row[q].status = "enabled" => row'[q] = row[q] /\ alive'[q] = alive[q]
  BY DEF Failed
<1> QED
  BY <1>1, <1>2, <1>3 DEF Inv, PageInv

\* A plugin's order holds what its members need.
LEMMA OrderClosed ==
  ASSUME NEW p \in Plugins, NEW q \in Order(p)
  PROVE  Needs[q] \subseteq Order(p)
  BY DEF Order

LEMMA EnabledIs ==
  ASSUME RowInv, NEW p \in Plugins
  PROVE  IsEnabled(p) <=> row[p].status = "enabled"
  BY DEF RowInv, IsEnabled
-------------------------------------------------------------------------------
\* An enable has to start what its plugin needs and is not running.
LEMMA StartEnableInv ==
  ASSUME Inv, NEW p \in Plugins, StartEnable(p)
  PROVE  Inv'
<1> DEFINE todo == {q \in Order(p) : ~IsEnabled(q)}
<1>1. /\ op.step = "idle" /\ ~storageFault
      /\ op' = [kind |-> "enable", at |-> None, todo |-> todo, did |-> {}, step |-> "next"]
      /\ UNCHANGED <<row, alive, births, prefs, rev, disk, held, turn, page, faults, life>>
  BY DEF StartEnable, catalog, work, life
<1>2. /\ todo \subseteq Plugins
      /\ \A q \in todo : row[q].status # "enabled"
  BY EnabledIs DEF Order, Inv
<1>3. \A q \in todo : \A r \in Needs[q] : r \in todo \/ row[r].status = "enabled"
  BY OrderClosed, EnabledIs DEF Order, Inv
<1> HIDE DEF todo
<1>4. TypeOK'
  BY <1>1, <1>2 DEF Inv, TypeOK, Steps, Kinds, life
<1>5. RowInv'
  BY <1>1 DEF Inv, RowInv, AtWork, life
<1>6. OpInv'
  BY <1>1, <1>2 DEF Inv, OpInv, AtWork, Closing
<1>7. LeaseInv'
  BY <1>1 DEF Inv, LeaseInv
<1>8. PageInv'
  BY <1>1 DEF Inv, PageInv, life
<1>9. faults' < 2 => DepInv'
  BY <1>1, <1>3 DEF Inv, DepInv, Runs, AtWork, Closing
<1> QED
  BY <1>4, <1>5, <1>6, <1>7, <1>8, <1>9 DEF Inv

\* What is to be closed is running, and nothing that runs needs it.
LEMMA StartClosingInv ==
  ASSUME Inv, NEW p \in Plugins, NEW kind \in {"disable", "reload"}, StartClosing(p, kind)
  PROVE  Inv'
<1>0. /\ op.step = "idle" /\ row[p].status = "enabled" /\ NoneDepends(p)
      /\ op' \in OpType
      /\ op'.kind = kind /\ op'.at = p /\ op'.step = "closing"
      /\ op'.todo = {} /\ op'.did = {}
      /\ UNCHANGED <<row, prefs, rev, disk>>
      /\ UNCHANGED <<alive, births>>
      /\ UNCHANGED faults
      /\ UNCHANGED <<held, turn, page, crashes, storageFault>>
  BY EnabledIs DEF Inv, TypeOK, OpType, Steps, Kinds, Statuses, StartClosing, catalog, work, life
<1>1. TypeOK'
  BY <1>0 DEF Inv, TypeOK, OpType, Statuses, Steps, Kinds, RowType
<1>2. RowInv'
  BY <1>0 DEF Inv, TypeOK, OpType, Statuses, RowInv, OpInv, AtWork
<1>3. OpInv'
  BY <1>0 DEF Inv, TypeOK, OpType, Statuses, OpInv, RowInv, AtWork, Closing
<1>4. LeaseInv'
  BY <1>0 DEF Inv, TypeOK, OpType, Statuses, LeaseInv, OpInv, AtWork
<1>5. PageInv'
  BY <1>0 DEF Inv, TypeOK, OpType, Statuses, PageInv, OpInv, RowInv, AtWork
<1>6. faults' < 2 => DepInv'
  BY <1>0, EnabledIs DEF Inv, TypeOK, OpType, Statuses, DepInv, Runs, OpInv, RowInv, AtWork,
     Closing, NoneDepends
<1> QED
  BY <1>1, <1>2, <1>3, <1>4, <1>5, <1>6 DEF Inv

\* What is opened next needs only what runs; or the enable is given up.
LEMMA OpenNextInv ==
  ASSUME Inv, NEW p \in Plugins, OpenNext(p)
  PROVE  Inv'
<1>1. CASE /\ Commit(p, "enabling", FALSE)
           /\ Go(p, "starting")
           /\ NoFault
           /\ UNCHANGED <<alive, births>>
  <2>0. /\ op.step = "next" /\ p \in op.todo /\ Needs[p] \cap op.todo = {}
        /\ Saved(p, "enabling", FALSE)
        /\ MovedTo(p, "starting")
        /\ UNCHANGED <<alive, births>>
        /\ UNCHANGED faults
        /\ UNCHANGED <<held, turn, page, crashes, storageFault>>
    BY <1>1, CommitEffect, GoEffect DEF Inv, TypeOK, OpType, Steps, Kinds, Statuses,
       OpenNext, NoFault, work, life
  <2>1. TypeOK'
    BY <2>0 DEF Inv, TypeOK, OpType, Statuses, Steps, Kinds, RowType, Saved, MovedTo
  <2>2. RowInv'
    BY <2>0 DEF Inv, TypeOK, OpType, Statuses, RowInv, OpInv, AtWork, Saved, MovedTo
  <2>3. OpInv'
    <3> USE DEF Saved, MovedTo
    <3>1. op.kind = "enable"
      BY <2>0 DEF Inv, OpInv, AtWork
    <3>2. row[p].status \in {"disabled", "error"} /\ alive[p] = 0
      BY <2>0 DEF Inv, TypeOK, Statuses, OpInv, RowInv, AtWork
    <3>3. \A q \in op.did : row[q].status = "enabled" /\ q # p /\ q \in Plugins
      BY <2>0, <3>1, <3>2 DEF Inv, TypeOK, OpType, OpInv, Closing
    <3> QED
      BY <2>0, <3>1, <3>2, <3>3 DEF Inv, TypeOK, OpType, OpInv, AtWork, Closing
  <2>4. LeaseInv'
    BY <2>0 DEF Inv, TypeOK, OpType, Statuses, LeaseInv, OpInv, AtWork, Saved, MovedTo
  <2>5. PageInv'
    BY <2>0 DEF Inv, TypeOK, OpType, Statuses, PageInv, OpInv, RowInv, AtWork, Saved, MovedTo
  <2>6. faults' < 2 => DepInv'
    <3> USE DEF Saved, MovedTo
    <3>1. op.kind = "enable"
      BY <2>0 DEF Inv, OpInv, AtWork
    <3>2. row[p].status \in {"disabled", "error"} /\ alive[p] = 0
      BY <2>0 DEF Inv, TypeOK, Statuses, OpInv, RowInv, AtWork
    <3>3. p \notin op.did /\ op.did \subseteq Plugins
      BY <2>0, <3>1, <3>2 DEF Inv, TypeOK, OpInv, Closing
    <3>4. ASSUME faults < 2, DepInv
          PROVE  DepInv'
      <4>1. Runs' /\ \A q \in Plugins : p \in Needs[q] => alive'[q] = 0
        BY <2>0, <3>2, <3>4 DEF DepInv, Runs
      <4>2. \A q \in op.todo : \A r \in Needs[q] : r \in op.todo \/ row'[r].status = "enabled"
        <5>1. \A r \in Plugins : row[r].status = "enabled" => row'[r].status = "enabled"
          BY <2>0, <3>2
        <5>2. \A q \in op.todo : Needs[q] \subseteq Plugins
          BY DEF Inv, TypeOK
        <5> QED
          BY <2>0, <3>1, <3>4, <5>1, <5>2 DEF DepInv
      <4>3. \A q \in op.did, r \in Plugins : q \in Needs[r] /\ alive'[r] # 0 => r \in op.did
        BY <2>0, <3>1, <3>4 DEF DepInv
      <4> QED
        BY <2>0, <3>1, <4>1, <4>2, <4>3 DEF DepInv, AtWork, Closing
    <3> QED
      BY <2>0, <3>4 DEF Inv
  <2> QED
    BY <2>1, <2>2, <2>3, <2>4, <2>5, <2>6 DEF Inv
<1>2. CASE Fault /\ GiveUp(p) /\ UNCHANGED catalog
  <2>0. /\ op.step = "next" /\ p \in op.todo
        /\ GivenUp(p)
        /\ UNCHANGED <<row, prefs, rev, disk>>
        /\ UNCHANGED <<alive, births>>
        /\ faults' = faults + 1 /\ faults' \in 0 .. MaxFaults
        /\ UNCHANGED <<held, turn, page, crashes, storageFault>>
    BY <1>2, GiveUpEffect DEF Inv, TypeOK, OpType, Steps, Kinds, Statuses, OpenNext,
       Fault, catalog, work, life
  <2>1. TypeOK'
    BY <2>0 DEF Inv, TypeOK, OpType, Statuses, Steps, Kinds, RowType, GivenUp
  <2>2. RowInv'
    BY <2>0 DEF Inv, TypeOK, OpType, Statuses, RowInv, OpInv, AtWork, GivenUp
  <2>3. OpInv'
    BY <2>0 DEF Inv, TypeOK, OpType, Statuses, OpInv, RowInv, AtWork, Closing, GivenUp
  <2>4. LeaseInv'
    BY <2>0 DEF Inv, TypeOK, OpType, Statuses, LeaseInv, OpInv, AtWork, GivenUp
  <2>5. PageInv'
    BY <2>0 DEF Inv, TypeOK, OpType, Statuses, PageInv, OpInv, RowInv, AtWork, GivenUp
  <2>6. faults' < 2 => DepInv'
    BY <2>0 DEF Inv, TypeOK, OpType, Statuses, DepInv, Runs, OpInv, RowInv, AtWork,
       Closing, GivenUp
  <2> QED
    BY <2>1, <2>2, <2>3, <2>4, <2>5, <2>6 DEF Inv
<1> QED
  BY <1>1, <1>2 DEF OpenNext, NoFault, At

\* The new activation is nobody's lease and nobody's dependency yet.
LEMMA ActivateInv ==
  ASSUME Inv, NEW p \in Plugins, Activate(p)
  PROVE  Inv'
<1>1. CASE /\ births' = births + 1
           /\ alive' = [alive EXCEPT ![p] = births']
           /\ Go(p, "started")
           /\ UNCHANGED <<row, prefs, rev, disk>>
           /\ NoFault
  <2>0. /\ op.step = "starting" /\ op.at = p
        /\ births' = births + 1 /\ alive' = [alive EXCEPT ![p] = births + 1]
        /\ MovedTo(p, "started")
        /\ UNCHANGED <<row, prefs, rev, disk>>
        /\ UNCHANGED faults
        /\ UNCHANGED <<held, turn, page, crashes, storageFault>>
    BY <1>1, GoEffect DEF Inv, TypeOK, OpType, Steps, Kinds, Statuses, Activate, At,
       NoFault, work, life
  <2>1. TypeOK'
    BY <2>0 DEF Inv, TypeOK, OpType, Statuses, Steps, Kinds, RowType, MovedTo
  <2>2. RowInv'
    BY <2>0 DEF Inv, TypeOK, OpType, Statuses, RowInv, OpInv, AtWork, MovedTo
  <2>3. OpInv'
    BY <2>0 DEF Inv, TypeOK, OpType, Statuses, OpInv, RowInv, AtWork, Closing, MovedTo
  <2>4. LeaseInv'
    BY <2>0 DEF Inv, TypeOK, OpType, Statuses, LeaseInv, OpInv, AtWork, MovedTo
  <2>5. PageInv'
    BY <2>0 DEF Inv, TypeOK, OpType, Statuses, PageInv, OpInv, RowInv, AtWork, MovedTo
  <2>6. faults' < 2 => DepInv'
    BY <2>0 DEF Inv, TypeOK, OpType, Statuses, DepInv, Runs, OpInv, RowInv, AtWork,
       Closing, MovedTo
  <2> QED
    BY <2>1, <2>2, <2>3, <2>4, <2>5, <2>6 DEF Inv
<1>2. CASE SetFailure(p) /\ GiveUp(p) /\ UNCHANGED <<alive, births>>
  <2>0. /\ op.step = "starting" /\ op.at = p
        /\ Failed(p)
        /\ GivenUp(p)
        /\ UNCHANGED <<alive, births>>
        /\ UNCHANGED <<held, turn, page, crashes, storageFault>>
    BY <1>2, FailureEffect, GiveUpEffect, Writable DEF Inv, TypeOK, OpType, Steps, Kinds, Statuses,
       Activate, At, work, life
  <2>1. TypeOK'
    BY <2>0 DEF Inv, TypeOK, OpType, Statuses, Steps, Kinds, RowType, Failed, GivenUp
  <2>2. RowInv'
    BY <2>0 DEF Inv, TypeOK, OpType, Statuses, RowInv, OpInv, AtWork, Failed, GivenUp
  <2>3. OpInv'
    BY <2>0 DEF Inv, TypeOK, OpType, Statuses, OpInv, RowInv, AtWork, Closing, Failed, GivenUp
  <2>4. LeaseInv'
    BY <2>0 DEF Inv, TypeOK, OpType, Statuses, LeaseInv, OpInv, AtWork, Failed, GivenUp
  <2>5. PageInv'
    BY <2>0, FailedPage DEF Inv, OpInv, AtWork
  <2>6. faults' < 2 => DepInv'
    BY <2>0 DEF Inv, TypeOK, OpType, Statuses, DepInv, Runs, OpInv, RowInv, AtWork,
       Closing, Failed, GivenUp
  <2> QED
    BY <2>1, <2>2, <2>3, <2>4, <2>5, <2>6 DEF Inv
<1> QED
  BY <1>1, <1>2 DEF Activate, NoFault, At

\* The row admits work, or the new activation goes again.
LEMMA OpenedInv ==
  ASSUME Inv, NEW p \in Plugins, Opened(p)
  PROVE  Inv'
<1>1. CASE /\ Commit(p, "enabled", TRUE)
           /\ UNCHANGED alive
           /\ NoFault
           /\ op.kind = "reload"
           /\ op' = Idle
  <2>0. /\ op.step = "started" /\ op.at = p
        /\ Saved(p, "enabled", TRUE)
        /\ op.kind = "reload"
        /\ op' \in OpType
        /\ op'.kind = "enable" /\ op'.at = None /\ op'.step = "idle"
        /\ op'.todo = {} /\ op'.did = {}
        /\ births' = births /\ alive' = alive
        /\ UNCHANGED faults
        /\ UNCHANGED <<held, turn, page, crashes, storageFault>>
    BY <1>1, CommitEffect DEF Inv, TypeOK, OpType, Steps, Kinds, Statuses, Opened, At,
       Idle, NoFault, work, life
  <2>1. TypeOK'
    BY <2>0 DEF Inv, TypeOK, OpType, Statuses, Steps, Kinds, RowType, Saved
  <2>2. RowInv'
    BY <2>0 DEF Inv, TypeOK, OpType, Statuses, RowInv, OpInv, AtWork, Saved
  <2>3. OpInv'
    BY <2>0 DEF Inv, TypeOK, OpType, Statuses, OpInv, RowInv, AtWork, Closing, Saved
  <2>4. LeaseInv'
    BY <2>0 DEF Inv, TypeOK, OpType, Statuses, LeaseInv, OpInv, AtWork, Saved
  <2>5. PageInv'
    BY <2>0 DEF Inv, TypeOK, OpType, Statuses, PageInv, OpInv, RowInv, AtWork, Saved
  <2>6. faults' < 2 => DepInv'
    BY <2>0 DEF Inv, TypeOK, OpType, Statuses, DepInv, Runs, OpInv, RowInv, AtWork,
       Closing, Saved
  <2> QED
    BY <2>1, <2>2, <2>3, <2>4, <2>5, <2>6 DEF Inv
<1>2. CASE /\ Commit(p, "enabled", TRUE)
           /\ UNCHANGED alive
           /\ NoFault
           /\ op.kind # "reload"
           /\ op' = [op EXCEPT !.at = None, !.todo = @ \ {p}, !.did = @ \cup {p}, !.step = "next"]
  <2>0. /\ op.step = "started" /\ op.at = p
        /\ op.kind # "reload"
        /\ Saved(p, "enabled", TRUE)
        /\ op' \in OpType
        /\ op'.kind = op.kind /\ op'.at = None /\ op'.step = "next"
        /\ op'.todo = op.todo \ {p} /\ op'.did = op.did \cup {p}
        /\ births' = births /\ alive' = alive
        /\ UNCHANGED faults
        /\ UNCHANGED <<held, turn, page, crashes, storageFault>>
    BY <1>2, CommitEffect DEF Inv, TypeOK, OpType, Steps, Kinds, Statuses, Opened, At,
       NoFault, work, life
  <2>1. TypeOK'
    BY <2>0 DEF Inv, TypeOK, OpType, Statuses, Steps, Kinds, RowType, Saved
  <2>2. RowInv'
    BY <2>0 DEF Inv, TypeOK, OpType, Statuses, RowInv, OpInv, AtWork, Saved
  <2>3. OpInv'
    <3> USE DEF Saved
    <3>1. op.kind = "enable" /\ row[p].status = "enabling" /\ p \in op.todo
      BY <2>0 DEF Inv, TypeOK, Kinds, OpInv, AtWork, Closing
    <3>2. \A q \in op'.did : q \in Plugins /\ row'[q].status = "enabled"
      BY <2>0, <3>1 DEF Inv, TypeOK, OpInv, Closing
    <3>3. \A q \in op'.todo : q \in Plugins /\ row'[q].status # "enabled"
      BY <2>0, <3>1 DEF Inv, TypeOK, OpInv
    <3> QED
      BY <2>0, <3>1, <3>2, <3>3 DEF OpInv, AtWork, Closing
  <2>4. LeaseInv'
    BY <2>0 DEF Inv, TypeOK, OpType, Statuses, LeaseInv, OpInv, AtWork, Saved
  <2>5. PageInv'
    BY <2>0 DEF Inv, TypeOK, OpType, Statuses, PageInv, OpInv, RowInv, AtWork, Saved
  <2>6. faults' < 2 => DepInv'
    <3> USE DEF Saved
    <3>1. op.kind = "enable" /\ row[p].status = "enabling" /\ p \in op.todo
      BY <2>0 DEF Inv, TypeOK, Kinds, OpInv, AtWork, Closing
    <3>2. ASSUME faults < 2, DepInv
          PROVE  DepInv'
      <4>1. Runs' /\ \A q \in Plugins : p \in Needs[q] => alive'[q] = 0
        BY <2>0, <3>1, <3>2 DEF DepInv, Runs, AtWork
      <4>2. \A q \in op'.todo : \A r \in Needs[q] : r \in op'.todo \/ row'[r].status = "enabled"
        <5>1. \A r \in Plugins : row[r].status = "enabled" => row'[r].status = "enabled"
          BY <2>0
        <5>2. \A q \in op.todo : Needs[q] \subseteq Plugins
          BY DEF Inv, TypeOK
        <5> QED
          BY <2>0, <3>1, <3>2, <5>1, <5>2 DEF DepInv
      <4>3. \A q \in op'.did, r \in Plugins : q \in Needs[r] /\ alive'[r] # 0 => r \in op'.did
        BY <2>0, <3>1, <3>2, <4>1 DEF DepInv
      <4> QED
        BY <2>0, <3>1, <4>1, <4>2, <4>3 DEF DepInv, AtWork, Closing
    <3> QED
      BY <2>0, <3>2 DEF Inv
  <2> QED
    BY <2>1, <2>2, <2>3, <2>4, <2>5, <2>6 DEF Inv
<1>3. CASE SetFailure(p) /\ alive' = [alive EXCEPT ![p] = 0] /\ GiveUp(p)
  <2>0. /\ op.step = "started" /\ op.at = p
        /\ Failed(p)
        /\ GivenUp(p)
        /\ alive' = [alive EXCEPT ![p] = 0] /\ births' = births
        /\ UNCHANGED <<held, turn, page, crashes, storageFault>>
    BY <1>3, FailureEffect, GiveUpEffect, Writable DEF Inv, TypeOK, OpType, Steps, Kinds, Statuses,
       Opened, At, work, life
  <2>1. TypeOK'
    BY <2>0 DEF Inv, TypeOK, OpType, Statuses, Steps, Kinds, RowType, Failed, GivenUp
  <2>2. RowInv'
    BY <2>0 DEF Inv, TypeOK, OpType, Statuses, RowInv, OpInv, AtWork, Failed, GivenUp
  <2>3. OpInv'
    BY <2>0 DEF Inv, TypeOK, OpType, Statuses, OpInv, RowInv, AtWork, Closing, Failed, GivenUp
  <2>4. LeaseInv'
    BY <2>0 DEF Inv, TypeOK, OpType, Statuses, LeaseInv, OpInv, AtWork, Failed, GivenUp
  <2>5. PageInv'
    <3>1. row[p].status # "enabled"
      BY <2>0 DEF Inv, OpInv, AtWork
    <3>2. \A q \in Plugins : q # p => alive'[q] = alive[q]
      BY <2>0 DEF Inv, TypeOK
    <3> QED
      BY <2>0, <3>1, <3>2, FailedPage
  <2>6. faults' < 2 => DepInv'
    BY <2>0 DEF Inv, TypeOK, OpType, Statuses, DepInv, Runs, OpInv, RowInv, AtWork,
       Closing, Failed, GivenUp
  <2> QED
    BY <2>1, <2>2, <2>3, <2>4, <2>5, <2>6 DEF Inv
<1> QED
  BY <1>1, <1>2, <1>3 DEF Opened, NoFault, At

\* What the enable started and needs the plugin is closed before it.
LEMMA RollBackInv ==
  ASSUME Inv, NEW p \in Plugins, RollBack(p)
  PROVE  Inv'
<1>0. /\ op.step = "rolling" /\ p \in op.did /\ \A q \in op.did : p \notin Needs[q]
      /\ MovedTo(p, "closing")
      /\ UNCHANGED <<row, prefs, rev, disk>>
      /\ UNCHANGED <<alive, births>>
      /\ UNCHANGED faults
      /\ UNCHANGED <<held, turn, page, crashes, storageFault>>
  BY GoEffect DEF Inv, TypeOK, OpType, Steps, Kinds, Statuses, RollBack, catalog, work, life
<1>1. TypeOK'
  BY <1>0 DEF Inv, TypeOK, OpType, Statuses, Steps, Kinds, RowType, MovedTo
<1>2. RowInv'
  BY <1>0 DEF Inv, TypeOK, OpType, Statuses, RowInv, OpInv, AtWork, MovedTo
<1>3. OpInv'
  BY <1>0 DEF Inv, TypeOK, OpType, Statuses, OpInv, RowInv, AtWork, Closing, MovedTo
<1>4. LeaseInv'
  BY <1>0 DEF Inv, TypeOK, OpType, Statuses, LeaseInv, OpInv, AtWork, MovedTo
<1>5. PageInv'
  BY <1>0 DEF Inv, TypeOK, OpType, Statuses, PageInv, OpInv, RowInv, AtWork, MovedTo
<1>6. faults' < 2 => DepInv'
  BY <1>0 DEF Inv, TypeOK, OpType, Statuses, DepInv, Runs, OpInv, RowInv, AtWork, Closing,
     MovedTo
<1> QED
  BY <1>1, <1>2, <1>3, <1>4, <1>5, <1>6 DEF Inv

\* Admission is closed; a plugin that stays on in a rollback is the second failure.
LEMMA CloseInv ==
  ASSUME Inv, NEW p \in Plugins, Close(p)
  PROVE  Inv'
<1>1. CASE /\ Commit(p, "disabling", op.kind = "reload")
           /\ Go(p, "draining")
           /\ NoFault
           /\ UNCHANGED <<alive, births>>
  <2>0. /\ op.step = "closing" /\ op.at = p
        /\ Saved(p, "disabling", op.kind = "reload")
        /\ MovedTo(p, "draining")
        /\ UNCHANGED <<alive, births>>
        /\ UNCHANGED faults
        /\ UNCHANGED <<held, turn, page, crashes, storageFault>>
    BY <1>1, CommitEffect, GoEffect DEF Inv, TypeOK, OpType, Steps, Kinds, Statuses,
       Close, At, NoFault, work, life
  <2>1. TypeOK'
    BY <2>0 DEF Inv, TypeOK, OpType, Statuses, Steps, Kinds, RowType, Saved, MovedTo
  <2>2. RowInv'
    BY <2>0 DEF Inv, TypeOK, OpType, Statuses, RowInv, OpInv, AtWork, Saved, MovedTo
  <2>3. OpInv'
    <3> USE DEF Saved, MovedTo
    <3>1. row[p].status = "enabled" /\ alive[p] # 0
      BY <2>0 DEF Inv, OpInv, RowInv, AtWork
    <3>2. op.kind = "enable" =>
            /\ \A q \in op.did : row'[q].status = "enabled" \/ q = p
            /\ \A q \in op.todo : row'[q].status # "enabled"
      BY <2>0, <3>1 DEF Inv, TypeOK, OpInv, Closing
    <3>3. op.kind # "enable" => op.todo = {} /\ op.did = {}
      BY DEF Inv, OpInv
    <3> QED
      BY <2>0, <3>1, <3>2, <3>3 DEF OpInv, AtWork, Closing
  <2>4. LeaseInv'
    BY <2>0 DEF Inv, TypeOK, OpType, Statuses, LeaseInv, OpInv, AtWork, Saved, MovedTo
  <2>5. PageInv'
    BY <2>0 DEF Inv, TypeOK, OpType, Statuses, PageInv, OpInv, RowInv, AtWork, Saved, MovedTo
  <2>6. faults' < 2 => DepInv'
    BY <2>0 DEF Inv, TypeOK, OpType, Statuses, DepInv, Runs, OpInv, RowInv, AtWork,
       Closing, Saved, MovedTo
  <2> QED
    BY <2>1, <2>2, <2>3, <2>4, <2>5, <2>6 DEF Inv
<1>2. CASE Fault /\ GiveUp(p) /\ UNCHANGED catalog
  <2>0. /\ op.step = "closing" /\ op.at = p
        /\ GivenUp(p)
        /\ UNCHANGED <<row, prefs, rev, disk>>
        /\ UNCHANGED <<alive, births>>
        /\ faults' = faults + 1 /\ faults' \in 0 .. MaxFaults
        /\ UNCHANGED <<held, turn, page, crashes, storageFault>>
    BY <1>2, GiveUpEffect DEF Inv, TypeOK, OpType, Steps, Kinds, Statuses, Close, At,
       Fault, catalog, work, life
  <2>1. TypeOK'
    BY <2>0 DEF Inv, TypeOK, OpType, Statuses, Steps, Kinds, RowType, GivenUp
  <2>2. RowInv'
    BY <2>0 DEF Inv, TypeOK, OpType, Statuses, RowInv, OpInv, AtWork, GivenUp
  <2>3. OpInv'
    BY <2>0 DEF Inv, TypeOK, OpType, Statuses, OpInv, RowInv, AtWork, Closing, GivenUp
  <2>4. LeaseInv'
    BY <2>0 DEF Inv, TypeOK, OpType, Statuses, LeaseInv, OpInv, AtWork, GivenUp
  <2>5. PageInv'
    BY <2>0 DEF Inv, TypeOK, OpType, Statuses, PageInv, OpInv, RowInv, AtWork, GivenUp
  <2>6. faults' < 2 => DepInv'
    BY <2>0 DEF Inv, TypeOK, OpType, Statuses, DepInv, Runs, OpInv, RowInv, AtWork,
       Closing, GivenUp
  <2> QED
    BY <2>1, <2>2, <2>3, <2>4, <2>5, <2>6 DEF Inv
<1> QED
  BY <1>1, <1>2 DEF Close, NoFault, At

\* The last lease on the activation is gone.
LEMMA DrainInv ==
  ASSUME Inv, NEW p \in Plugins, Drain(p)
  PROVE  Inv'
<1>0. /\ op.step = "draining" /\ op.at = p
      /\ Drained(p)
      /\ MovedTo(p, "disposing")
      /\ UNCHANGED <<row, prefs, rev, disk>>
      /\ UNCHANGED <<alive, births>>
      /\ UNCHANGED faults
      /\ UNCHANGED <<held, turn, page, crashes, storageFault>>
  BY GoEffect DEF Inv, TypeOK, OpType, Steps, Kinds, Statuses, Drain, At, catalog, work, life
<1>1. TypeOK'
  BY <1>0 DEF Inv, TypeOK, OpType, Statuses, Steps, Kinds, RowType, MovedTo
<1>2. RowInv'
  BY <1>0 DEF Inv, TypeOK, OpType, Statuses, RowInv, OpInv, AtWork, MovedTo
<1>3. OpInv'
  BY <1>0 DEF Inv, TypeOK, OpType, Statuses, OpInv, RowInv, AtWork, Closing, MovedTo
<1>4. LeaseInv'
  <2> USE DEF MovedTo
  <2>1. \A l \in held : l[2] # p
    BY <1>0 DEF Inv, TypeOK, LeaseInv, Drained
  <2> QED
    BY <1>0, <2>1 DEF Inv, LeaseInv
<1>5. PageInv'
  BY <1>0 DEF Inv, TypeOK, OpType, Statuses, PageInv, OpInv, RowInv, AtWork, MovedTo
<1>6. faults' < 2 => DepInv'
  BY <1>0 DEF Inv, TypeOK, OpType, Statuses, DepInv, Runs, OpInv, RowInv, AtWork, Closing,
     MovedTo
<1> QED
  BY <1>1, <1>2, <1>3, <1>4, <1>5, <1>6 DEF Inv

\* The activation goes, with or without a failure.
LEMMA DisposeInv ==
  ASSUME Inv, NEW p \in Plugins, Dispose(p)
  PROVE  Inv'
<1>1. CASE Go(p, "closed") /\ UNCHANGED <<row, prefs, rev, disk>> /\ NoFault
  <2>0. /\ op.step = "disposing" /\ op.at = p
        /\ MovedTo(p, "closed")
        /\ UNCHANGED <<row, prefs, rev, disk>>
        /\ alive' = [alive EXCEPT ![p] = 0] /\ births' = births
        /\ UNCHANGED faults
        /\ UNCHANGED <<held, turn, page, crashes, storageFault>>
    BY <1>1, GoEffect DEF Inv, TypeOK, OpType, Steps, Kinds, Statuses, Dispose, At,
       NoFault, work, life
  <2>1. TypeOK'
    BY <2>0 DEF Inv, TypeOK, OpType, Statuses, Steps, Kinds, RowType, MovedTo
  <2>2. RowInv'
    BY <2>0 DEF Inv, TypeOK, OpType, Statuses, RowInv, OpInv, AtWork, MovedTo
  <2>3. OpInv'
    BY <2>0 DEF Inv, TypeOK, OpType, Statuses, OpInv, RowInv, AtWork, Closing, MovedTo
  <2>4. LeaseInv'
    BY <2>0 DEF Inv, TypeOK, OpType, Statuses, LeaseInv, OpInv, AtWork, MovedTo
  <2>5. PageInv'
    BY <2>0 DEF Inv, TypeOK, OpType, Statuses, PageInv, OpInv, RowInv, AtWork, MovedTo
  <2>6. faults' < 2 => DepInv'
    BY <2>0 DEF Inv, TypeOK, OpType, Statuses, DepInv, Runs, OpInv, RowInv, AtWork,
       Closing, MovedTo
  <2> QED
    BY <2>1, <2>2, <2>3, <2>4, <2>5, <2>6 DEF Inv
<1>2. CASE SetFailure(p) /\ GiveUp(p)
  <2>0. /\ op.step = "disposing" /\ op.at = p
        /\ Failed(p)
        /\ GivenUp(p)
        /\ alive' = [alive EXCEPT ![p] = 0] /\ births' = births
        /\ UNCHANGED <<held, turn, page, crashes, storageFault>>
    BY <1>2, FailureEffect, GiveUpEffect, Writable DEF Inv, TypeOK, OpType, Steps, Kinds, Statuses,
       Dispose, At, work, life
  <2>1. TypeOK'
    BY <2>0 DEF Inv, TypeOK, OpType, Statuses, Steps, Kinds, RowType, Failed, GivenUp
  <2>2. RowInv'
    BY <2>0 DEF Inv, TypeOK, OpType, Statuses, RowInv, OpInv, AtWork, Failed, GivenUp
  <2>3. OpInv'
    BY <2>0 DEF Inv, TypeOK, OpType, Statuses, OpInv, RowInv, AtWork, Closing, Failed, GivenUp
  <2>4. LeaseInv'
    BY <2>0 DEF Inv, TypeOK, OpType, Statuses, LeaseInv, OpInv, AtWork, Failed, GivenUp
  <2>5. PageInv'
    <3>1. row[p].status # "enabled"
      BY <2>0 DEF Inv, OpInv, AtWork
    <3>2. \A q \in Plugins : q # p => alive'[q] = alive[q]
      BY <2>0 DEF Inv, TypeOK
    <3> QED
      BY <2>0, <3>1, <3>2, FailedPage
  <2>6. faults' < 2 => DepInv'
    BY <2>0 DEF Inv, TypeOK, OpType, Statuses, DepInv, Runs, OpInv, RowInv, AtWork,
       Closing, Failed, GivenUp
  <2> QED
    BY <2>1, <2>2, <2>3, <2>4, <2>5, <2>6 DEF Inv
<1> QED
  BY <1>1, <1>2 DEF Dispose, NoFault, At

\* The end of a disable or of a rollback's turn; a reload starts again.
LEMMA ClosedInv ==
  ASSUME Inv, NEW p \in Plugins, Closed(p)
  PROVE  Inv'
<1>1. CASE op.kind = "reload" /\ Commit(p, "enabling", TRUE) /\ Go(p, "starting") /\ NoFault
  <2>0. /\ op.step = "closed" /\ op.at = p
        /\ op.kind = "reload"
        /\ Saved(p, "enabling", TRUE)
        /\ MovedTo(p, "starting")
        /\ UNCHANGED <<alive, births>>
        /\ UNCHANGED faults
        /\ UNCHANGED <<held, turn, page, crashes, storageFault>>
    BY <1>1, CommitEffect, GoEffect DEF Inv, TypeOK, OpType, Steps, Kinds, Statuses,
       Closed, At, NoFault, work, life
  <2>1. TypeOK'
    BY <2>0 DEF Inv, TypeOK, OpType, Statuses, Steps, Kinds, RowType, Saved, MovedTo
  <2>2. RowInv'
    BY <2>0 DEF Inv, TypeOK, OpType, Statuses, RowInv, OpInv, AtWork, Saved, MovedTo
  <2>3. OpInv'
    BY <2>0 DEF Inv, TypeOK, OpType, Statuses, OpInv, RowInv, AtWork, Closing, Saved, MovedTo
  <2>4. LeaseInv'
    BY <2>0 DEF Inv, TypeOK, OpType, Statuses, LeaseInv, OpInv, AtWork, Saved, MovedTo
  <2>5. PageInv'
    BY <2>0 DEF Inv, TypeOK, OpType, Statuses, PageInv, OpInv, RowInv, AtWork, Saved, MovedTo
  <2>6. faults' < 2 => DepInv'
    BY <2>0 DEF Inv, TypeOK, OpType, Statuses, DepInv, Runs, OpInv, RowInv, AtWork,
       Closing, Saved, MovedTo
  <2> QED
    BY <2>1, <2>2, <2>3, <2>4, <2>5, <2>6 DEF Inv
<1>2. CASE op.kind # "reload" /\ Commit(p, "disabled", FALSE) /\ GiveUp(p) /\ NoFault
  <2>0. /\ op.step = "closed" /\ op.at = p
        /\ op.kind # "reload"
        /\ Saved(p, "disabled", FALSE)
        /\ GivenUp(p)
        /\ UNCHANGED <<alive, births>>
        /\ UNCHANGED faults
        /\ UNCHANGED <<held, turn, page, crashes, storageFault>>
    BY <1>2, CommitEffect, GiveUpEffect DEF Inv, TypeOK, OpType, Steps, Kinds, Statuses,
       Closed, At, NoFault, work, life
  <2>1. TypeOK'
    BY <2>0 DEF Inv, TypeOK, OpType, Statuses, Steps, Kinds, RowType, Saved, GivenUp
  <2>2. RowInv'
    BY <2>0 DEF Inv, TypeOK, OpType, Statuses, RowInv, OpInv, AtWork, Saved, GivenUp
  <2>3. OpInv'
    BY <2>0 DEF Inv, TypeOK, OpType, Statuses, OpInv, RowInv, AtWork, Closing, Saved, GivenUp
  <2>4. LeaseInv'
    BY <2>0 DEF Inv, TypeOK, OpType, Statuses, LeaseInv, OpInv, AtWork, Saved, GivenUp
  <2>5. PageInv'
    BY <2>0 DEF Inv, TypeOK, OpType, Statuses, PageInv, OpInv, RowInv, AtWork, Saved, GivenUp
  <2>6. faults' < 2 => DepInv'
    BY <2>0 DEF Inv, TypeOK, OpType, Statuses, DepInv, Runs, OpInv, RowInv, AtWork,
       Closing, Saved, GivenUp
  <2> QED
    BY <2>1, <2>2, <2>3, <2>4, <2>5, <2>6 DEF Inv
<1>3. CASE SetFailure(p) /\ GiveUp(p)
  <2>0. /\ op.step = "closed" /\ op.at = p
        /\ Failed(p)
        /\ GivenUp(p)
        /\ UNCHANGED <<alive, births>>
        /\ UNCHANGED <<held, turn, page, crashes, storageFault>>
    BY <1>3, FailureEffect, GiveUpEffect, Writable DEF Inv, TypeOK, OpType, Steps, Kinds, Statuses,
       Closed, At, work, life
  <2>1. TypeOK'
    BY <2>0 DEF Inv, TypeOK, OpType, Statuses, Steps, Kinds, RowType, Failed, GivenUp
  <2>2. RowInv'
    BY <2>0 DEF Inv, TypeOK, OpType, Statuses, RowInv, OpInv, AtWork, Failed, GivenUp
  <2>3. OpInv'
    BY <2>0 DEF Inv, TypeOK, OpType, Statuses, OpInv, RowInv, AtWork, Closing, Failed, GivenUp
  <2>4. LeaseInv'
    BY <2>0 DEF Inv, TypeOK, OpType, Statuses, LeaseInv, OpInv, AtWork, Failed, GivenUp
  <2>5. PageInv'
    BY <2>0, FailedPage DEF Inv, OpInv, AtWork
  <2>6. faults' < 2 => DepInv'
    BY <2>0 DEF Inv, TypeOK, OpType, Statuses, DepInv, Runs, OpInv, RowInv, AtWork,
       Closing, Failed, GivenUp
  <2> QED
    BY <2>1, <2>2, <2>3, <2>4, <2>5, <2>6 DEF Inv
<1> QED
  BY <1>1, <1>2, <1>3 DEF Closed, NoFault, At

\* The transition ends.
LEMMA EndInv ==
  ASSUME Inv, Enabled \/ RolledBack
  PROVE  Inv'
<1>1. /\ op.step \in {"next", "rolling"} /\ op' = Idle
      /\ UNCHANGED <<row, alive, births, prefs, rev, disk, held, turn, page, faults, life>>
  BY DEF Enabled, RolledBack, catalog, work, life
<1>2. TypeOK'
  BY <1>1 DEF Inv, TypeOK, Idle, Steps, Kinds, life
<1>3. RowInv' /\ OpInv' /\ LeaseInv' /\ PageInv'
  BY <1>1 DEF Inv, RowInv, OpInv, LeaseInv, PageInv, AtWork, Closing, Idle, life
<1>4. faults' < 2 => DepInv'
  BY <1>1 DEF Inv, DepInv, Runs, AtWork, Closing, Idle
<1> QED
  BY <1>2, <1>3, <1>4 DEF Inv

\* Whatever a start finds, nothing of the old process is left.
LEMMA RebootEffect ==
  ASSUME Inv, Reboot
  PROVE  /\ op' = Idle /\ held' = {} /\ turn' = [t \in Turns |-> Asleep] /\ page' = page
         /\ crashes' \in 0 .. MaxCrashes
         /\ OpInv' /\ LeaseInv'
<1>1. /\ op' = Idle /\ held' = {} /\ turn' = [t \in Turns |-> Asleep] /\ page' = page
      /\ crashes' = crashes + 1 /\ crashes < MaxCrashes
  BY DEF Reboot
<1>2. crashes' \in 0 .. MaxCrashes
  BY <1>1 DEF Inv, TypeOK
<1>3. OpInv' /\ LeaseInv'
  BY <1>1 DEF OpInv, LeaseInv, Idle, Asleep, AtWork, Closing
<1> QED
  BY <1>1, <1>2, <1>3

\* A start runs what the file has on, as far as it can.
LEMMA RestartInv ==
  ASSUME Inv, Restart
  PROVE  Inv'
<1>1. PICK on \in SUBSET UNION {Order(p) : p \in disk.on} :
        /\ \A p \in on : Needs[p] \subseteq on
        /\ faults' = faults \/ Fault
        /\ alive' = [p \in Plugins |-> IF p \in on THEN births + 1 ELSE 0]
        /\ row' = [p \in Plugins |->
                     [enabled |-> p \in on,
                      status |-> IF p \in on THEN "enabled"
                                 ELSE IF p \in UNION {Order(q) : q \in disk.on} THEN "error"
                                 ELSE "disabled"]]
        /\ prefs' = on /\ BootRevision(on)
  BY Zenon DEF Restart, NoFault
<1>2. /\ op' = Idle /\ held' = {} /\ turn' = [t \in Turns |-> Asleep] /\ page' = page
      /\ crashes' \in 0 .. MaxCrashes /\ OpInv' /\ LeaseInv'
      /\ births' = births + 1 /\ storageFault' = FALSE
  BY RebootEffect DEF Restart
<1>3. on \subseteq Plugins
  BY DEF Order
<1>4. \A p \in Plugins :
        /\ p \in on => row'[p].status = "enabled" /\ row'[p].enabled /\ alive'[p] = births + 1
        /\ p \notin on => row'[p].status \in {"error", "disabled"} /\ ~row'[p].enabled
                          /\ alive'[p] = 0
  BY <1>1
<1>5. /\ row' \in RowType /\ alive' \in [Plugins -> Nat] /\ births' \in Nat
      /\ faults' \in 0 .. MaxFaults
  BY <1>1, <1>2 DEF Inv, TypeOK, RowType, Statuses, Fault
<1>6. /\ rev' = disk.rev + 1 /\ rev' = disk'.rev /\ disk'.on = on
      /\ disk' \in [on : SUBSET Plugins, rev : Nat] /\ disk.rev \in Nat
  BY <1>1, <1>3 DEF Inv, TypeOK, BootRevision
<1>7. TypeOK'
  <2>1. op' \in OpType /\ turn' \in [Turns -> TurnType]
    BY <1>2 DEF Idle, Asleep, Steps, Kinds, OpType, TurnType
  <2>2. rev' \in Nat /\ rev' <= disk'.rev
    BY <1>6
  <2>3. storageFault' \in BOOLEAN
    BY <1>2
  <2> QED
    BY <1>1, <1>2, <1>3, <1>5, <1>6, <2>1, <2>2, <2>3 DEF Inv, TypeOK, RowType, OpType, TurnType
<1>8. RowInv'
  BY <1>1, <1>2, <1>3, <1>4, <1>6, <1>5 DEF RowInv, Inv, TypeOK
<1>9. PageInv'
  BY <1>2, <1>6 DEF Inv, TypeOK, PageInv
<1>10. DepInv'
  <2>1. Runs'
    BY <1>1, <1>3, <1>4, <1>5 DEF Runs, Inv, TypeOK
  <2> QED
    BY <2>1, <1>2 DEF DepInv, Idle, AtWork, Closing
<1> QED
  BY <1>2, <1>7, <1>8, <1>9, <1>10 DEF Inv

\* A start that fails runs nothing, and the file's revision never goes back.
LEMMA FailedStartInv ==
  ASSUME Inv, StartUnread \/ StartUnsaved
  PROVE  Inv'
<1>1. /\ op' = Idle /\ held' = {} /\ turn' = [t \in Turns |-> Asleep] /\ page' = page
      /\ crashes' \in 0 .. MaxCrashes /\ OpInv' /\ LeaseInv'
  BY RebootEffect DEF StartUnread, StartUnsaved
<1>2. /\ alive' = [p \in Plugins |-> 0] /\ prefs' = {}
      /\ row' = [p \in Plugins |-> [status |-> "error", enabled |-> FALSE]]
      /\ faults' \in 0 .. MaxFaults
  BY DEF StartUnread, StartUnsaved, AllFail, Fault, Inv, TypeOK
<1>3. /\ births' \in Nat
      /\ disk' \in [on : SUBSET Plugins, rev : Nat] /\ disk.rev <= disk'.rev
      /\ storageFault' \in BOOLEAN /\ rev' \in Nat /\ rev' <= disk'.rev
      /\ ~storageFault' => rev' = disk'.rev
      /\ ~storageFault' => disk.rev < rev'
  <2>1. births \in Nat /\ disk \in [on : SUBSET Plugins, rev : Nat]
    BY DEF Inv, TypeOK
  <2>2. CASE StartUnread
    BY <2>1, <2>2 DEF StartUnread
  <2>3. CASE StartUnsaved /\ disk' = [on |-> {}, rev |-> disk.rev + 2]
             /\ rev' = disk.rev + 2 /\ storageFault' = FALSE
    <3>1. births' = births + 1 /\ disk'.rev = disk.rev + 2
          /\ disk' \in [on : SUBSET Plugins, rev : Nat]
      BY <2>1, <2>3 DEF StartUnsaved
    <3>2. disk'.rev \in Nat /\ rev' = disk'.rev /\ disk.rev < rev' /\ births' \in Nat
      BY <2>1, <2>3, <3>1
    <3>3. storageFault' \in BOOLEAN
      BY <2>3
    <3> QED
      BY <2>1, <3>1, <3>2, <3>3
  <2>4. CASE StartUnsaved /\ disk' = [disk EXCEPT !.rev = @ + 1]
             /\ rev' = disk.rev + 1 /\ storageFault' = TRUE
    <3>1. births' = births + 1 /\ disk'.rev = disk.rev + 1
          /\ disk' \in [on : SUBSET Plugins, rev : Nat]
      BY <2>1, <2>4 DEF StartUnsaved
    <3> QED
      BY <2>1, <2>4, <3>1
  <2> QED
    BY <2>2, <2>3, <2>4 DEF StartUnsaved
<1>4. TypeOK'
  <2>1. /\ row' \in RowType /\ op' \in OpType /\ turn' \in [Turns -> TurnType]
        /\ page' \in [rev : Nat, shows : [Plugins -> Nat]] /\ alive' \in [Plugins -> Nat]
    BY <1>1, <1>2 DEF Inv, TypeOK, Statuses, RowType, Idle, Asleep, Steps, Kinds, OpType, TurnType
  <2> QED
    BY <1>1, <1>2, <1>3, <2>1 DEF TypeOK, RowType, OpType, TurnType
<1>5. RowInv'
  BY <1>1, <1>2 DEF RowInv, Idle
<1>6. PageInv'
  <2>1. page.rev \in Nat /\ disk.rev \in Nat /\ disk'.rev \in Nat /\ page.rev <= disk.rev
    BY <1>3 DEF Inv, TypeOK, PageInv
  <2>2. page.rev <= disk'.rev /\ (~storageFault' => page.rev # rev')
    BY <1>3, <2>1
  <2> QED
    BY <1>1, <2>2 DEF PageInv
<1>7. DepInv'
  BY <1>1, <1>2 DEF DepInv, Runs, Idle, AtWork, Closing
<1> QED
  BY <1>1, <1>4, <1>5, <1>6, <1>7 DEF Inv

\* What turns and pages do leaves the catalog and the transition alone.
LEMMA WorkInv ==
  ASSUME Inv, UNCHANGED <<catalog, op, faults, life>>,
         TypeOK', LeaseInv', PageInv'
  PROVE  Inv'
  BY DEF Inv, catalog, life, RowInv, OpInv, DepInv, Runs

\* A turn leases only what admits work.
LEMMA StartTurnInv ==
  ASSUME Inv, NEW t \in Turns, StartTurn(t)
  PROVE  Inv'
<1> DEFINE writers == {<<p, alive[p]>> : p \in {q \in Writers : IsEnabled(q)}}
<1>1. /\ UNCHANGED <<catalog, op, page, faults, life>>
      /\ turn' = [turn EXCEPT ![t] = [at |-> "generating", left |-> writers, asked |-> None]]
      /\ held' = held \cup {<<t, w[1], w[2]>> : w \in writers}
  BY DEF StartTurn, Move
<1>2. \A w \in writers :
        w[1] \in Plugins /\ w[2] \in Nat /\ w[2] = alive[w[1]] /\ w[2] # 0
          /\ row[w[1]].status = "enabled" /\ w \in Plugins \X Nat
  BY DEF Inv, TypeOK, IsEnabled
<1> HIDE DEF writers
<1>3. TypeOK'
  BY <1>1, <1>2 DEF Inv, TypeOK, catalog, life
<1>4. LeaseInv'
  <2>1. \A l \in held' : alive'[l[2]] = l[3] /\ l[3] # 0
    BY <1>1, <1>2 DEF Inv, LeaseInv, catalog, life
  <2>2. op'.step \in {"disposing", "started"} => \A l \in held' : l[2] # op'.at
    BY <1>1, <1>2 DEF Inv, LeaseInv, OpInv, AtWork
  <2>3. \A u \in Turns : \A w \in turn'[u].left : <<u, w[1], w[2]>> \in held'
    BY <1>1, <1>2 DEF Inv, TypeOK, LeaseInv
  <2>4. \A u \in Turns : turn'[u].at \in {"idle", "ending"} => turn'[u].left = {}
    BY <1>1 DEF Inv, TypeOK, LeaseInv
  <2> QED
    BY <2>1, <2>2, <2>3, <2>4 DEF LeaseInv
<1>5. PageInv'
  BY <1>1 DEF Inv, PageInv, catalog, life
<1> QED
  BY <1>1, <1>3, <1>4, <1>5, WorkInv

\* A turn gives up writers, and at the end its leases.
LEMMA MoveInv ==
  ASSUME Inv, NEW t \in Turns, NEW state \in TurnType, Move(t, state),
         UNCHANGED <<catalog, op, page, faults, life>>,
         state.left \subseteq turn[t].left,
         state.at \in {"idle", "ending"} => state.left = {},
         held' = held \/ (state.left = {} /\ held' = {l \in held : l[1] # t})
  PROVE  Inv'
<1>1. turn' = [turn EXCEPT ![t] = state]
  BY DEF Move
<1>2. \A u \in Turns : turn'[u] = IF u = t THEN state ELSE turn[u]
  BY <1>1 DEF Inv, TypeOK
<1>3. TypeOK'
  BY <1>1 DEF Inv, TypeOK, TurnType, catalog, life
<1>4. LeaseInv'
  <2>1. held' \subseteq held
    OBVIOUS
  <2>2. (\A l \in held' : alive'[l[2]] = l[3] /\ l[3] # 0)
          /\ (op'.step \in {"disposing", "started"} => \A l \in held' : l[2] # op'.at)
    BY <2>1 DEF Inv, LeaseInv, catalog, life
  <2>3. \A u \in Turns : \A w \in turn'[u].left : <<u, w[1], w[2]>> \in held'
    BY <1>2 DEF Inv, TypeOK, LeaseInv
  <2>4. \A u \in Turns : turn'[u].at \in {"idle", "ending"} => turn'[u].left = {}
    BY <1>2 DEF Inv, LeaseInv
  <2> QED
    BY <2>2, <2>3, <2>4 DEF LeaseInv
<1>5. PageInv'
  BY DEF Inv, PageInv, catalog, life
<1> QED
  BY <1>3, <1>4, <1>5, WorkInv

LEMMA SettleInv ==
  ASSUME Inv, NEW t \in Turns, Settle(t)
  PROVE  Inv'
<1>0. turn[t] \in TurnType
  BY DEF Inv, TypeOK, TurnType
<1>1. CASE Generated(t)
  <2> DEFINE going == [turn[t] EXCEPT !.at = "settling"]
             ended == [turn[t] EXCEPT !.at = "ending", !.left = {}]
  <2>1. /\ going \in TurnType /\ going.at = "settling" /\ going.left = turn[t].left
        /\ ended \in TurnType /\ ended.left = {}
    BY <1>0 DEF TurnType
  <2>2. (Move(t, going) \/ Move(t, ended)) /\ UNCHANGED <<catalog, op, held, page, faults, life>>
    BY <1>1 DEF Generated
  <2> HIDE DEF going, ended
  <2> QED
    BY <2>1, <2>2, MoveInv
<1>2. CASE Answered(t)
  <2> DEFINE state == [turn[t] EXCEPT !.at = "settling", !.asked = None]
  <2>1. state \in TurnType /\ state.at = "settling" /\ state.left = turn[t].left
    BY <1>0 DEF TurnType
  <2>2. Move(t, state) /\ UNCHANGED <<catalog, op, held, page, faults, life>>
    BY <1>2 DEF Answered
  <2> HIDE DEF state
  <2> QED
    BY <2>1, <2>2, MoveInv
<1>3. CASE Settled(t)
  <2> DEFINE state == [turn[t] EXCEPT !.at = "ending"]
  <2>1. state \in TurnType /\ state.left = turn[t].left /\ turn[t].left = {}
    BY <1>0, <1>3 DEF TurnType, Settled
  <2>2. Move(t, state) /\ UNCHANGED <<catalog, op, held, page, faults, life>>
    BY <1>3 DEF Settled
  <2> HIDE DEF state
  <2> QED
    BY <2>1, <2>2, MoveInv
<1>4. CASE Released(t)
  <2>1. Asleep \in TurnType /\ Asleep.left = {}
    BY DEF Asleep, TurnType
  <2>2. /\ Move(t, Asleep) /\ UNCHANGED <<catalog, op, page, faults, life>>
        /\ held' = {l \in held : l[1] # t}
    BY <1>4 DEF Released
  <2> QED
    BY <2>1, <2>2, MoveInv
<1>5. ASSUME NEW w \in turn[t].left, Ask(t, w)
      PROVE  Inv'
  <2> DEFINE state == [at |-> "asking", left |-> turn[t].left \ {w}, asked |-> w]
  <2>1. state \in TurnType /\ state.at = "asking" /\ state.left \subseteq turn[t].left
    BY <1>0 DEF TurnType
  <2>2. Move(t, state) /\ UNCHANGED <<catalog, op, held, page, faults, life>>
    BY <1>5 DEF Ask
  <2> HIDE DEF state
  <2> QED
    BY <2>1, <2>2, MoveInv
<1>6. ASSUME NEW w \in turn[t].left, Skip(t, w)
      PROVE  Inv'
  <2> DEFINE state == [turn[t] EXCEPT !.left = @ \ {w}]
  <2>1. state \in TurnType /\ state.at = "settling" /\ state.left \subseteq turn[t].left
    BY <1>0, <1>6 DEF TurnType, Skip, Turn
  <2>2. Move(t, state) /\ UNCHANGED <<catalog, op, held, page, faults, life>>
    BY <1>6 DEF Skip
  <2> HIDE DEF state
  <2> QED
    BY <2>1, <2>2, MoveInv
<1> QED
  BY <1>1, <1>2, <1>3, <1>4, <1>5, <1>6 DEF Settle

LEMMA PageLearnsInv ==
  ASSUME Inv, PageLearns
  PROVE  Inv'
<1>1. /\ UNCHANGED <<catalog, op, held, turn, faults, life>>
      /\ page' = [rev |-> rev, shows |-> [p \in Plugins |-> IF IsEnabled(p) THEN alive[p] ELSE 0]]
  BY DEF PageLearns
<1>2. TypeOK'
  BY <1>1 DEF Inv, TypeOK, catalog, life
<1>3. PageInv'
  BY <1>1 DEF Inv, TypeOK, PageInv, IsEnabled, catalog, life
<1>4. LeaseInv'
  BY <1>1 DEF Inv, LeaseInv, catalog, life
<1> QED
  BY <1>1, <1>2, <1>3, <1>4, WorkInv

LEMMA CallInv ==
  ASSUME Inv, NEW c \in Calls,
         EndCall(c) \/ \E p \in Plugins : StartCall(c, p)
  PROVE  Inv'
<1>1. CASE EndCall(c)
  <2>1. UNCHANGED <<catalog, op, turn, page, faults, life>> /\ held' = {l \in held : l[1] # c}
    BY <1>1 DEF EndCall
  <2>2. TypeOK' /\ PageInv'
    BY <2>1 DEF Inv, TypeOK, PageInv, catalog, life
  <2>3. LeaseInv'
    BY <2>1 DEF Inv, LeaseInv, catalog, life
  <2> QED
    BY <2>1, <2>2, <2>3, WorkInv
<1>2. ASSUME NEW p \in Plugins, StartCall(c, p)
      PROVE  Inv'
  <2>1. /\ UNCHANGED <<catalog, op, turn, page, faults, life>>
        /\ held' = held \cup {<<c, p, alive[p]>>}
        /\ row[p].status = "enabled" /\ alive[p] # 0
    BY <1>2 DEF StartCall, IsEnabled
  <2>2. TypeOK' /\ PageInv'
    BY <2>1 DEF Inv, TypeOK, PageInv, catalog, life
  <2>3. op.step \in {"disposing", "started"} => p # op.at
    BY <2>1 DEF Inv, OpInv, AtWork
  <2>4. LeaseInv'
    BY <2>1, <2>3 DEF Inv, LeaseInv, catalog, life
  <2> QED
    BY <2>1, <2>2, <2>4, WorkInv
<1> QED
  BY <1>1, <1>2
-------------------------------------------------------------------------------
LEMMA InitInv == Init => Inv
<1> SUFFICES ASSUME Init PROVE Inv
  OBVIOUS
<1>1. TypeOK
  <2>1. rev \in Nat /\ rev <= disk.rev /\ rev = disk.rev
    BY DEF Init
  <2>2. storageFault \in BOOLEAN
    BY DEF Init
  <2> QED
    BY <2>1, <2>2 DEF Init, TypeOK, Idle, Asleep, Statuses, Steps, Kinds
<1>2. RowInv /\ OpInv /\ LeaseInv /\ PageInv
  BY DEF Init, RowInv, OpInv, LeaseInv, PageInv, Idle, Asleep, AtWork, Closing
<1>3. DepInv
  BY DEF Init, DepInv, Runs, Idle, AtWork, Closing
<1> QED
  BY <1>1, <1>2, <1>3 DEF Inv

LEMMA NextInv == Inv /\ [Next]_vars => Inv'
<1> SUFFICES ASSUME Inv, [Next]_vars PROVE Inv'
  OBVIOUS
<1>1. CASE Client
  BY <1>1, StartEnableInv, StartClosingInv, StartTurnInv, PageLearnsInv, CallInv DEF Client
<1>2. CASE Own \/ Hooks
  BY <1>2, EndInv, OpenNextInv, ActivateInv, OpenedInv, RollBackInv, CloseInv, DrainInv,
     DisposeInv, ClosedInv DEF Own, Hooks
<1>3. CASE Starts
  BY <1>3, RestartInv, FailedStartInv DEF Starts
<1>4. ASSUME NEW t \in Turns, Settle(t) PROVE Inv'
  BY <1>4, SettleInv
<1>5. ASSUME NEW c \in Calls, EndCall(c) PROVE Inv'
  BY <1>5, CallInv
<1>6. CASE UNCHANGED vars
  <2>1. TypeOK' /\ RowInv' /\ OpInv'
    BY <1>6 DEF Inv, TypeOK, RowInv, OpInv, vars, catalog, work, life
  <2>2. LeaseInv' /\ PageInv' /\ (faults' < 2 => DepInv')
    BY <1>6 DEF Inv, LeaseInv, PageInv, DepInv, Runs, vars, catalog, work, life
  <2> QED
    BY <2>1, <2>2 DEF Inv
<1> QED
  BY <1>1, <1>2, <1>3, <1>4, <1>5, <1>6 DEF Next

LEMMA SpecInv == Spec => []Inv
  BY InitInv, NextInv, PTL DEF Spec
-------------------------------------------------------------------------------
(* Rows, activations, transition, leases and pages keep their types, and the *)
(* revision is the file's but after a start with a storage fault, and never  *)
(* above it.                                                                 *)
THEOREM TypeOKHolds == Spec => []TypeOK
<1>1. Inv => TypeOK
  BY DEF Inv
<1> QED
  BY <1>1, SpecInv, PTL

(* No activation is disposed or replaced under the work it admitted.         *)
THEOREM WorkKeepsItsActivationHolds == Spec => []WorkKeepsItsActivation
<1>1. Inv => WorkKeepsItsActivation
  BY DEF Inv, LeaseInv, WorkKeepsItsActivation
<1> QED
  BY <1>1, SpecInv, PTL

(* A row at rest agrees with what runs and with the file, however many steps *)
(* and saves failed.                                                         *)
THEOREM RowsAreTrueHolds == Spec => []RowsAreTrue
<1>1. Inv => RowsAreTrue
  BY DEF Inv, RowInv, RowsAreTrue
<1> QED
  BY <1>1, SpecInv, PTL

(* With one failed step at most, no plugin runs without what it needs.       *)
THEOREM DependenciesRunHolds == Spec => []DependenciesRun
<1>1. Inv => DependenciesRun
  BY DEF Inv, DepInv, Runs, DependenciesRun
<1> QED
  BY <1>1, SpecInv, PTL

(* A fenced call enters the activation its page was looking at, and no other. *)
THEOREM FencedCallsAreCurrentHolds == Spec => FencedCallsAreCurrent
<1>1. ASSUME Inv, [Next]_vars
      PROVE  [\A l \in held' \ held : l[1] \in Calls => page.shows[l[2]] = l[3]]_vars
  <2>1. CASE Client
    <3>1. ASSUME NEW c \in Calls, NEW p \in Plugins, StartCall(c, p)
          PROVE  \A l \in held' \ held : page.shows[l[2]] = l[3]
      BY <1>1, <3>1, EnabledIs DEF StartCall, Inv, RowInv, PageInv
    <3>2. ASSUME NEW t \in Turns, StartTurn(t)
          PROVE  \A l \in held' \ held : l[1] \notin Calls
      BY <3>2 DEF StartTurn
    <3>3. CASE held' = held
      BY <3>3
    <3> QED
      BY <2>1, <3>1, <3>2, <3>3 DEF Client, StartEnable, StartClosing, PageLearns, work, life
  <2>2. CASE Own \/ Hooks \/ Starts
    <3>1. held' \subseteq held
      BY <2>2 DEF Own, Hooks, Starts, Reboot, Restart, StartUnread, StartUnsaved, Enabled,
         RolledBack, OpenNext, Activate, Opened, RollBack, Close, Drain, Dispose, Closed, work
    <3> QED
      BY <3>1
  <2>3. ASSUME NEW t \in Turns, Settle(t)
        PROVE  held' \subseteq held
    BY <2>3 DEF Settle, Generated, Answered, Settled, Released, Ask, Skip
  <2>4. ASSUME NEW c \in Calls, EndCall(c)
        PROVE  held' \subseteq held
    BY <2>4 DEF EndCall
  <2> QED
    BY <1>1, <2>1, <2>2, <2>3, <2>4 DEF Next
<1> QED
  BY <1>1, SpecInv, PTL DEF Spec, FencedCallsAreCurrent

(* A turn asks every writer it started with, the host's own apart.           *)
THEOREM WritersAreAskedHolds == Spec => WritersAreAsked
<1>1. ASSUME Inv, NEW t \in Turns, NEW w \in turn[t].left, w[1] \notin Hosted
      PROVE  ~Skip(t, w)
  <2>1. IsCurrent(w)
    <3>1. <<t, w[1], w[2]>> \in held
      BY <1>1 DEF Inv, LeaseInv
    <3>2. alive[<<t, w[1], w[2]>>[2]] = <<t, w[1], w[2]>>[3]
      BY <1>1, <3>1 DEF Inv, LeaseInv
    <3> QED
      BY <3>2 DEF IsCurrent
  <2>2. Answers(w)
    BY <1>1 DEF Answers
  <2> QED
    BY <2>1, <2>2 DEF Skip
<1>2. Inv /\ [Next]_vars =>
        [\A t \in Turns : \A w \in turn[t].left : w[1] \notin Hosted => ~Skip(t, w)]_vars
  BY <1>1
<1> QED
  BY <1>2, SpecInv, PTL DEF Spec, WritersAreAsked
===============================================================================
