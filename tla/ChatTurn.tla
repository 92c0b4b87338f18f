------------------------------- MODULE ChatTurn -------------------------------
(***************************************************************************)
(* One live conversation of the host: the exclusive generation slot of     *)
(* ChatEntry (claim / begin / finish / abort), and the handlers of the     *)
(* application service that take it: a turn (#start, the driver, #settle,  *)
(* #fail), a manual compaction, a side call, and the arms that rewrite the *)
(* log (edit, delete, branch).  Every await of a handler is a place where  *)
(* another handler may run, so every handler is split there.               *)
(***************************************************************************)
EXTENDS Integers, FiniteSets

CONSTANTS
  Requests,   \* the client requests that may arrive
  Offered,    \* per request: the kinds its client may choose in this instance
  MaxFaults,  \* bound: how many saves or list reads of a settle may fail
  None        \* no controller, no pending row, no request

TurnKinds == {"send", "regenerate", "continue", "impersonate"}
EditKinds == {"rewrite", "delete", "branch"}
Kinds == TurnKinds \cup EditKinds \cup {"compact", "side"}

ASSUME ChatTurnAssumption ==
  /\ Offered \in [Requests -> SUBSET Kinds]
  /\ MaxFaults \in Nat
  /\ None \notin Requests
  /\ None \notin Requests \X {"claim", "begin", "side"}

(***************************************************************************)
(* An AbortController is named by the request that made it and the call    *)
(* that made it.                                                           *)
(***************************************************************************)
Controllers == Requests \X {"claim", "begin", "side"}

VARIABLES
  slot,      \* ChatEntry.#abort: the controller holding the chat, or None
  claimed,   \* ChatEntry.#claimed: the holder is a claim nothing adopted yet
  pending,   \* ChatEntry.pending: whose row streams, and whether it has text
  sideCalls, \* ChatEntry.#sideCalls
  stopped,   \* the controllers that were aborted
  live,      \* FALSE once the store let the entry go (delete, restore)
  log,       \* ChatEntry.session: the user lines and replies it holds
  session,   \* how often `rebuild` replaced ChatEntry.session
  kind,      \* what each request asks for
  pc,        \* where each request is
  ctl,       \* the signal a generation runs under
  turn,      \* the turn a generation was announced for
  home,      \* the session a generation was handed: [session, turn]
  seen,      \* the lines an edit read before its await, and those it removes
  outcome,   \* what the generation ended with
  frames,    \* the frames broadcast for each request
  calls,     \* provider requests sent, by request and purpose
  told,      \* requests that held the chat when Stop was pressed
  faults     \* failed saves and list reads so far

entry == <<slot, claimed, pending, sideCalls, stopped, live>>
conversation == <<log, session>>
handler == <<kind, pc, ctl, turn, home, seen, outcome>>
observed == <<frames, calls, told, faults>>
vars == <<entry, conversation, handler, observed>>

-------------------------------------------------------------------------------
(* The log. A line is [turn, user, by]; the greeting is by None.             *)

Line == [turn : Nat, user : BOOLEAN, by : Requests \cup {None}]
UserLine(t, r) == [turn |-> t, user |-> TRUE, by |-> r]
Reply(t, r) == [turn |-> t, user |-> FALSE, by |-> r]

RepliedTurns(lines) == {l.turn : l \in {x \in lines : ~x.user}}

\* The highest turn the log has opened, -1 when it has none.
LastTurn(lines) ==
  IF lines = {} THEN -1
  ELSE CHOOSE t \in {l.turn : l \in lines} : \A l \in lines : l.turn <= t

\* importChat: a reply line closes its turn, user lines gather in the open one.
Import(lines) ==
  {[l EXCEPT !.turn = Cardinality({t \in RepliedTurns(lines) : t < l.turn})] :
     l \in lines}

\* A chat-file line: one user line, or a turn's reply with all its swipes.
FileLines(lines) ==
  {{l} : l \in {x \in lines : x.user}}
    \cup {{l \in lines : ~l.user /\ l.turn = t} : t \in RepliedTurns(lines)}
-------------------------------------------------------------------------------
(* Where a request can be.                                                   *)

\* At "thrown" the request was answered with an error, and still has the slot.
Holding == {"compacting", "thrown", "preparing", "streaming", "settling"}
Settling == {"settling", "saving", "announcing"}
Places == Holding \cup Settling
            \cup {"new", "failsaving", "snapshotting", "side", "done", "refused"}

Holds(r) == pc[r] \in Holding
Goto(r, place) == pc' = [pc EXCEPT ![r] = place]

\* The chat's slot and the requests around it.
SlotTypeOK ==
  /\ slot \in Controllers \cup {None}
  /\ claimed \in BOOLEAN
  /\ pending \in [req : Requests, text : BOOLEAN] \cup {None}
  /\ sideCalls \subseteq Controllers
  /\ stopped \subseteq Controllers
  /\ live \in BOOLEAN
  /\ kind \in [Requests -> Kinds \cup {None}]
  /\ pc \in [Requests -> Places]
  /\ ctl \in [Requests -> Controllers \cup {None}]
  /\ outcome \in [Requests -> {"none", "completed", "aborted"}]
  /\ calls \subseteq Requests \X {"summary", "turn", "side"}
  /\ told \subseteq Requests
  /\ faults \in 0 .. MaxFaults

\* The conversation, and what the handlers remember of it.
LogTypeOK ==
  /\ log \subseteq Line
  /\ session \in Nat
  /\ turn \in [Requests -> Nat]
  /\ home \in [Requests -> [session : Nat, turn : Int]]
  /\ seen \in [Requests -> [lines : SUBSET Line, gone : SUBSET Line]]
  /\ frames \in [Requests -> [start : BOOLEAN, end : 0 .. 2, error : 0 .. 2]]

TypeOK == SlotTypeOK /\ LogTypeOK

Init ==
  /\ slot = None /\ claimed = FALSE /\ pending = None
  /\ sideCalls = {} /\ stopped = {} /\ live = TRUE
  /\ log = {Reply(0, None)} /\ session = 0
  /\ kind = [r \in Requests |-> None]
  /\ pc = [r \in Requests |-> "new"]
  /\ ctl = [r \in Requests |-> None]
  /\ turn = [r \in Requests |-> 0]
  /\ home = [r \in Requests |-> [session |-> 0, turn |-> 0]]
  /\ seen = [r \in Requests |-> [lines |-> {}, gone |-> {}]]
  /\ outcome = [r \in Requests |-> "none"]
  /\ frames = [r \in Requests |-> [start |-> FALSE, end |-> 0, error |-> 0]]
  /\ calls = {} /\ told = {} /\ faults = 0
-------------------------------------------------------------------------------
(* ChatEntry: the slot.                                                      *)

\* Faulty variant: the claim does not look whether the chat is held.
ClaimUnchecked(r) == slot' = <<r, "claim">> /\ claimed' = TRUE

\* claim(): the slot is taken before a turn exists.
Claim(r) ==
  /\ slot = None
  /\ slot' = <<r, "claim">>
  /\ claimed' = TRUE

\* The release a claim answers with: a no-op once `begin` has adopted it.
Release(r) ==
  IF claimed /\ slot = <<r, "claim">>
  THEN slot' = None /\ claimed' = FALSE
  ELSE UNCHANGED <<slot, claimed>>

Adopting(r) == claimed /\ slot = <<r, "claim">>

\* Faulty variant: the claim is replaced by a fresh controller, not adopted.
FreshSignal(r) == <<r, "begin">>

\* The signal a turn runs under: the claim's own, Stop already in it or not.
Signal(r) == IF slot = None THEN <<r, "begin">> ELSE slot

\* begin(turn, claimed): adopt the caller's claim, or take a free slot.
BeginSlot(r) ==
  /\ slot = None \/ Adopting(r)
  /\ slot' = Signal(r)
  /\ claimed' = FALSE
  \* A continue's buffer opens on the text being continued.
  /\ pending' = [req |-> r, text |-> kind[r] = "continue"]
  /\ ctl' = [ctl EXCEPT ![r] = Signal(r)]

\* Faulty variant: the slot is left behind.
FinishKeepsSlot == pending' = None /\ UNCHANGED <<slot, claimed>>

\* finish(): the slot is cleared whoever holds it.
Finish == slot' = None /\ claimed' = FALSE /\ pending' = None

\* abort(): every side call, and the holder; the slot stays held.
Abort ==
  /\ stopped' = stopped \cup sideCalls \cup ({slot} \ {None})
  /\ sideCalls' = {}
  /\ told' = told \cup {r \in Requests : Holds(r)}
-------------------------------------------------------------------------------
(* #start: validation and the claim, then the awaited pre-turn compaction.   *)

RequestTurn(k) ==
  IF k \in {"send", "impersonate"} THEN LastTurn(log) + 1 ELSE LastTurn(log)

Valid(k) ==
  /\ RequestTurn(k) >= 0
  /\ k = "continue" => LastTurn(log) \in RepliedTurns(log)

\* The auto-compaction may be due, and then its summary is a provider call.
StartTurn(r) ==
  /\ pc[r] = "new" /\ live
  /\ \E k \in TurnKinds \cap Offered[r], due \in BOOLEAN :
       /\ Valid(k)
       /\ Claim(r)
       /\ kind' = [kind EXCEPT ![r] = k]
       /\ turn' = [turn EXCEPT ![r] = RequestTurn(k)]
       /\ calls' = IF due THEN calls \cup {<<r, "summary">>} ELSE calls
  /\ Goto(r, "compacting")
  /\ UNCHANGED <<pending, sideCalls, stopped, live, conversation, ctl, home,
                 seen, outcome, frames, told, faults>>

\* chat.compact: idle, then claimed for the whole summary call.
StartCompact(r) ==
  /\ pc[r] = "new" /\ live /\ "compact" \in Offered[r]
  /\ Claim(r)
  /\ kind' = [kind EXCEPT ![r] = "compact"]
  /\ calls' = calls \cup {<<r, "summary">>}
  /\ Goto(r, "compacting")
  /\ UNCHANGED <<pending, sideCalls, stopped, live, conversation, ctl, turn,
                 home, seen, outcome, frames, told, faults>>

\* chat.compact is over, however its summary call ended; or a turn's own
\* compaction threw, before the catch it has around that call.  The claim is
\* released.
CompactDone(r) ==
  /\ pc[r] = "compacting"
  /\ Release(r)
  /\ Goto(r, "done")
  /\ UNCHANGED <<pending, sideCalls, stopped, live, conversation, kind, ctl,
                 turn, home, seen, outcome, observed>>

\* Refused before anything changed: no such chat, busy, or nothing to reroll.
Refuse(r) ==
  /\ pc[r] = "new"
  /\ \E k \in Offered[r] :
       /\ \/ ~live
          \/ k # "side" /\ slot # None
          \/ k \in TurnKinds /\ ~Valid(k)
       /\ kind' = [kind EXCEPT ![r] = k]
  /\ Goto(r, "refused")
  /\ UNCHANGED <<entry, conversation, ctl, turn, home, seen, outcome, observed>>

\* The compaction is over: begin the turn, hand the session to the driver,
\* which appends a send's user line at once, and announce the stream.
Begin(r) ==
  /\ pc[r] = "compacting" /\ kind[r] \in TurnKinds
  /\ BeginSlot(r)
  /\ LET opened == LastTurn(log) + 1
         at == IF kind[r] \in {"send", "impersonate"} THEN opened ELSE LastTurn(log)
     IN /\ log' = IF kind[r] = "send" THEN log \cup {UserLine(opened, r)} ELSE log
        /\ home' = [home EXCEPT ![r] = [session |-> session, turn |-> at]]
  /\ frames' = [frames EXCEPT ![r].start = TRUE]
  /\ Goto(r, "preparing")
  /\ UNCHANGED <<sideCalls, stopped, live, session, kind, turn, seen, outcome,
                 calls, told, faults>>

\* A synchronous throw between `begin` and the driver's promise (a macro of the
\* utility prompts, a script over the reader's text, a lease): the catch gives
\* the leases back and rethrows, and nobody calls `finish`.
StartThrows(r) ==
  /\ pc[r] = "compacting" /\ kind[r] \in TurnKinds
  /\ BeginSlot(r)
  /\ Goto(r, "thrown")
  /\ UNCHANGED <<sideCalls, stopped, live, conversation, kind, turn, home, seen,
                 outcome, observed>>

\* `begin` throws busy: the slot was cleared and taken during the compaction.
BeginRefused(r) ==
  /\ pc[r] = "compacting" /\ kind[r] \in TurnKinds
  /\ slot # None /\ ~Adopting(r)
  /\ Goto(r, "refused")
  /\ UNCHANGED <<entry, conversation, kind, ctl, turn, home, seen, outcome, observed>>
-------------------------------------------------------------------------------
(* The driver and the provider.                                              *)

\* #stream: an aborted signal sends nothing; a driver that has no turn or no
\* reply to work on fails before it composes a request.
SendRequest(r) ==
  /\ pc[r] = "preparing"
  /\ ctl[r] \notin stopped
  /\ kind[r] # "send" => home[r].turn >= 0
  /\ calls' = calls \cup {<<r, "turn">>}
  /\ Goto(r, "streaming")
  /\ UNCHANGED <<entry, conversation, kind, ctl, turn, home, seen, outcome,
                 frames, told, faults>>

\* A delta is folded into whatever row the entry holds pending.
Text(r) ==
  /\ pc[r] = "streaming" /\ pending # None /\ ~pending.text
  /\ pending' = [pending EXCEPT !.text = TRUE]
  /\ UNCHANGED <<slot, claimed, sideCalls, stopped, live, conversation, handler,
                 observed>>

\* The reply is appended to the session the driver was handed.
StreamCompletes(r) ==
  /\ pc[r] = "streaming"
  /\ log' = IF home[r].session # session THEN log
            ELSE IF kind[r] = "impersonate"
                 THEN log \cup {UserLine(LastTurn(log) + 1, r)}
                 ELSE log \cup {Reply(home[r].turn, r)}
  /\ outcome' = [outcome EXCEPT ![r] = "completed"]
  /\ Goto(r, "settling")
  /\ UNCHANGED <<entry, session, kind, ctl, turn, home, seen, observed>>

Unfinished(r) == pc[r] \in {"preparing", "streaming"}
Partial == pending # None /\ pending.text

\* #fail after Stop with text on the row: the partial settles like a reply.
\* It is recorded on the session the entry has now.
StoppedWithText(r) ==
  /\ Unfinished(r)
  /\ ctl[r] \in stopped /\ Partial
  /\ log' = log \cup {IF kind[r] = "impersonate"
                       THEN UserLine(LastTurn(log) + 1, r)
                       ELSE Reply(turn[r], r)}
  /\ outcome' = [outcome EXCEPT ![r] = "aborted"]
  /\ Goto(r, "settling")
  /\ UNCHANGED <<entry, session, kind, ctl, turn, home, seen, observed>>

\* #fail with nothing to keep: a provider error, a timeout, or an early Stop.
StreamFails(r) ==
  /\ Unfinished(r)
  /\ ~(ctl[r] \in stopped /\ Partial)
  /\ Finish
  /\ Goto(r, "failsaving")
  /\ UNCHANGED <<sideCalls, stopped, live, conversation, kind, ctl, turn, home,
                 seen, outcome, observed>>

\* The save of #fail: its failure is reported and changes nothing else.
FailSaved(r) ==
  /\ pc[r] = "failsaving"
  /\ frames' = [frames EXCEPT ![r].error = @ + 1]
  /\ Goto(r, "done")
  /\ UNCHANGED <<entry, conversation, kind, ctl, turn, home, seen, outcome,
                 calls, told, faults>>
-------------------------------------------------------------------------------
(* #settle.                                                                  *)

\* The writers are in; the stored text may differ from the generated one, and
\* then the log is rebuilt.  The slot is released before the save.
Settled(r) ==
  /\ pc[r] = "settling"
  /\ \E rewritten \in BOOLEAN :
       IF rewritten /\ LastTurn(log) \in RepliedTurns(log)
       THEN log' = Import(log) /\ session' = session + 1
       ELSE UNCHANGED conversation
  /\ Finish
  /\ Goto(r, "saving")
  /\ UNCHANGED <<sideCalls, stopped, live, kind, ctl, turn, home, seen, outcome,
                 observed>>

\* Saved, or refused by the store because the entry was let go.
Saved(r) ==
  /\ pc[r] = "saving"
  /\ frames' = [frames EXCEPT ![r].end = @ + 1]
  /\ Goto(r, "announcing")
  /\ UNCHANGED <<entry, conversation, kind, ctl, turn, home, seen, outcome,
                 calls, told, faults>>

Announced(r) ==
  /\ pc[r] = "announcing"
  /\ Goto(r, "done")
  /\ UNCHANGED <<entry, conversation, kind, ctl, turn, home, seen, outcome, observed>>

\* Faulty variants: the catch reports nothing, or whatever went out before.
CatchSilent(r) == frames
CatchAlways(r) == [frames EXCEPT ![r].error = @ + 1]

\* The catch of #settle reports the failure unless stream.end already went.
CatchFrames(r) ==
  IF pc[r] = "announcing" THEN frames ELSE [frames EXCEPT ![r].error = @ + 1]

\* It also finishes the entry again, whoever holds it by now.
SettleThrows(r) ==
  /\ pc[r] \in Settling
  /\ faults < MaxFaults
  /\ faults' = faults + 1
  /\ Finish
  /\ frames' = CatchFrames(r)
  /\ Goto(r, "done")
  /\ UNCHANGED <<sideCalls, stopped, live, conversation, kind, ctl, turn, home,
                 seen, outcome, calls, told>>
-------------------------------------------------------------------------------
(* Stop, delete, side calls.                                                 *)

\* chat.abort.
Stop ==
  /\ slot # None \/ sideCalls # {}
  /\ Abort
  /\ UNCHANGED <<slot, claimed, pending, live, conversation, handler, frames,
                 calls, faults>>

\* chat.delete, backup.restore: abort, and the store lets the entry go.
LetGo ==
  /\ live
  /\ live' = FALSE
  /\ Abort
  /\ UNCHANGED <<slot, claimed, pending, conversation, handler, frames, calls,
                 faults>>

StartSide(r) ==
  /\ pc[r] = "new" /\ live /\ "side" \in Offered[r]
  /\ kind' = [kind EXCEPT ![r] = "side"]
  /\ ctl' = [ctl EXCEPT ![r] = <<r, "side">>]
  /\ sideCalls' = sideCalls \cup {<<r, "side">>}
  /\ Goto(r, "side")
  /\ UNCHANGED <<slot, claimed, pending, stopped, live, conversation, turn, home,
                 seen, outcome, observed>>

\* The side request goes out unless its signal was aborted first.
SideSends(r) ==
  /\ pc[r] = "side" /\ ctl[r] \notin stopped /\ <<r, "side">> \notin calls
  /\ calls' = calls \cup {<<r, "side">>}
  /\ UNCHANGED <<entry, conversation, handler, frames, told, faults>>

\* Answered, failed or stopped: the registration ends with the call.
SideDone(r) ==
  /\ pc[r] = "side"
  /\ <<r, "side">> \in calls \/ ctl[r] \in stopped
  /\ sideCalls' = sideCalls \ {ctl[r]}
  /\ Goto(r, "done")
  /\ UNCHANGED <<slot, claimed, pending, stopped, live, conversation, kind, ctl,
                 turn, home, seen, outcome, observed>>
-------------------------------------------------------------------------------
(* The arms that rewrite the log: idle is checked once, before the await.    *)

\* chat.deleteMessage and chat.branch capture the lines before they wait;
\* script.setChatMessages reads them after its snapshot.
StartEdit(r) ==
  /\ pc[r] = "new" /\ live
  /\ slot = None
  /\ \E k \in EditKinds \cap Offered[r] :
       \E gone \in IF k = "delete" THEN FileLines(log) ELSE {{}} :
         /\ kind' = [kind EXCEPT ![r] = k]
         /\ seen' = [seen EXCEPT ![r] =
              [lines |-> IF k = "rewrite" THEN {} ELSE log, gone |-> gone]]
  /\ Goto(r, "snapshotting")
  /\ UNCHANGED <<entry, conversation, ctl, turn, home, outcome, observed>>

Rebuild(r) ==
  /\ pc[r] = "snapshotting"
  /\ log' = IF kind[r] = "rewrite" THEN Import(log)
            ELSE Import(seen[r].lines \ seen[r].gone)
  /\ session' = session + 1
  /\ Goto(r, "done")
  /\ UNCHANGED <<entry, kind, ctl, turn, home, seen, outcome, observed>>

\* A snapshot that cannot be written stops the edit.
SnapshotFails(r) ==
  /\ pc[r] = "snapshotting"
  /\ Goto(r, "refused")
  /\ UNCHANGED <<entry, conversation, kind, ctl, turn, home, seen, outcome, observed>>
-------------------------------------------------------------------------------
Arrive(r) == StartTurn(r) \/ StartCompact(r) \/ StartSide(r) \/ StartEdit(r) \/ Refuse(r)

\* What the host and the provider do once a request is accepted.
Work(r) ==
  \/ CompactDone(r) \/ Begin(r) \/ StartThrows(r) \/ BeginRefused(r)
  \/ SendRequest(r) \/ Text(r)
  \/ StreamCompletes(r) \/ StoppedWithText(r) \/ StreamFails(r) \/ FailSaved(r)
  \/ Settled(r) \/ Saved(r) \/ Announced(r) \/ SettleThrows(r)
  \/ SideSends(r) \/ SideDone(r) \/ Rebuild(r) \/ SnapshotFails(r)

Next == Stop \/ LetGo \/ \E r \in Requests : Arrive(r) \/ Work(r)

Spec == Init /\ [][Next]_vars

(***************************************************************************)
(* Only accepted work is fair: every await of the host is bounded (the     *)
(* adapter's connect and idle budgets, the writers' timeout, the file      *)
(* system), while a reader need never send, stop or delete anything.       *)
(***************************************************************************)
FairSpec == Spec /\ \A r \in Requests : WF_vars(Work(r))
-------------------------------------------------------------------------------
(* What the slot promises.                                                   *)

\* ChatEntry.begin and claim answer busy while a turn is in flight: as long as
\* no settle has failed, at most one request is between its claim and finish.
OneGeneration ==
  faults = 0 =>
    \A r, s \in Requests : Holds(r) /\ Holds(s) => r = s

\* `pending` is only ever the row of the generation that holds the chat, and a
\* claim (a compaction running before a turn) never shows one.
PendingIsTheHolders ==
  faults = 0 =>
    /\ pending # None => Holds(pending.req) /\ ctl[pending.req] = slot /\ ~claimed
    /\ claimed => pending = None

\* Every announced stream ends with exactly one terminal frame, a storage
\* failure after stream.end included, and nothing ends that never started.
OneTerminalFrame ==
  \A r \in Requests :
    LET ends == frames[r].end + frames[r].error IN
    /\ ends <= 1
    /\ ends = 1 => frames[r].start
    /\ pc[r] = "done" /\ frames[r].start => ends = 1

\* A Stop pressed while a request holds the chat, during its compaction
\* included, leaves it sending no turn to the provider; and no turn is sent
\* for a conversation that was deleted or restored under it.
StoppedTurnsSendNothing ==
  [][faults = 0 =>
       \A r \in Requests :
         <<r, "turn">> \in calls' \ calls => r \notin told /\ live]_vars

Completes(r) == faults = 0 /\ outcome[r] = "none" /\ outcome'[r] = "completed"

Recorded(r) == \E l \in log' : l.by = r /\ (kind[r] # "impersonate" <=> ~l.user)

\* A generation that ran to completion has its text in the conversation the
\* host shows and saves, as long as nobody edits that conversation.
ReplyRecorded ==
  [][(\A s \in Requests : kind[s] \notin EditKinds) =>
       \A r \in Requests : Completes(r) => Recorded(r)]_vars

\* An edit is refused while a turn is in flight, so that it cannot race one:
\* the reply is recorded whatever else the host was asked for.
EditsLoseNoReply == [][\A r \in Requests : Completes(r) => Recorded(r)]_vars

\* Every stream a page was told of is eventually closed for it.
EveryStreamEnds ==
  \A r \in Requests :
    frames[r].start ~> frames[r].end + frames[r].error = 1

\* Whatever holds the chat gives it back, however its compaction, its stream,
\* its writers or its save end: only a start that threw between `begin` and the
\* driver leaves the chat busy for good.
SlotIsFreed == []<>(slot = None \/ \E r \in Requests : pc[r] = "thrown")

\* What the clients see of it all: who has the chat, whose turns were sent, and
\* each request's stream by the terminal frames that went out.
Holder == IF slot = None \/ faults > 0 THEN None ELSE slot[1]
Sent == {r \in Requests : <<r, "turn">> \in calls}
StreamOf(f) ==
  CASE ~f.start -> "none"
    [] f.start /\ f.end + f.error = 0 -> "open"
    [] f.start /\ f.end + f.error = 1 -> "closed"
    [] OTHER -> "closed twice"
Streams == [r \in Requests |-> StreamOf(frames[r])]

Promise == INSTANCE ChatPromise WITH
  holder <- Holder, gone <- ~live, sent <- Sent, stream <- Streams, exact <- faults = 0

\* The handlers, with all their awaits, keep what the clients are promised: one
\* request at a time from its claim on, its stream opened while it holds the
\* chat and closed exactly once when it no longer does, nothing sent once
\* stopped.
KeepsThePromise == Promise!Spec
===============================================================================
