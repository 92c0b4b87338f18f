------------------------------- MODULE PageSync -------------------------------
(***************************************************************************)
(* One page and one chat of the host: the frames pushed over the event     *)
(* socket, the socket's drops and reconnects, and the calls whose answers  *)
(* replace what the page shows from the side: chat.open, chat.resync, and  *)
(* the page's own swipes, edits, deletions and renames.  A view is named   *)
(* by how often the chat had changed when it was made.  ChatTurn is the    *)
(* host's side in full; here a turn is its start, its deltas and its end.  *)
(***************************************************************************)
EXTENDS Naturals, Sequences

CONSTANTS
  Opens,     \* the calls of chat.open the page may make
  MaxTurns,  \* bound: generations the host runs
  MaxEdits,  \* bound: other changes of the chat, by this page or another
  MaxQueue,  \* bound: frames in the socket before a delta waits
  MaxDrops,  \* bound: how often the socket drops
  MaxFails,  \* bound: saves of the host and calls of the page that fail
  None       \* no view, no turn

ASSUME PageSyncAssumption ==
  /\ None \notin Nat
  /\ MaxTurns \in Nat /\ MaxEdits \in Nat /\ MaxQueue \in Nat
  /\ MaxDrops \in Nat /\ MaxFails \in Nat

VARIABLES
  version, \* host: how often the log changed
  gen,     \* host: the turn that is generating, or None
  last,    \* host: the highest turn there is
  closing, \* host: changes whose save is awaited before they are broadcast
  untold,  \* host: a change whose save failed is in no view it has broadcast
  link,    \* the socket: "up", "lost" (its close is on the way), "down", "opening"
  channel, \* the socket: frames the page has not handled
  open,    \* page: the chat is the open one
  view,    \* page: the view it shows
  stream,  \* page: the turn it shows as generating
  timer,   \* page: the silence timer is armed
  sync,    \* page: the resync in flight
  opening, \* page: each chat.open, and its answer
  answers, \* page: answers on their way, of its edits (a view) and renames (None)
  hole,    \* page: something was missed or undone that nothing will ask about
  turns, edits, drops, fails

hostState == <<version, gen, last, closing, untold, turns, edits>>
socket == <<link, channel, drops>>
page == <<open, view, stream, timer>>
vars == <<hostState, socket, page, sync, opening, answers, hole, fails>>

Versions == 0 .. 2 * MaxTurns + MaxEdits
Turns == 0 .. MaxTurns

\* What `before` and the answer of a resync hold; the two `moved` fields say
\* whether the page's object was replaced since.
NoSync ==
  [at |-> "none", hadView |-> FALSE, stream |-> None, viewMoved |-> FALSE,
   streamMoved |-> FALSE, view |-> None, gen |-> None]

Frames ==
  [type : {"start", "text", "error"}, turn : Turns, view : {None}]
    \cup [type : {"end"}, turn : Turns, view : Versions]
    \cup [type : {"updated"}, turn : {None}, view : Versions]

\* Changes of the chat that are no turn's: somebody else's edit, the page's
\* swipe, edit or deletion, the page's rename.
Changes == {"edit", "mine", "rename"}

\* Changes whose save is awaited, resyncs in flight, and calls of chat.open.
Closings == [what : {"end", "error"}, turn : Turns] \cup [what : Changes, turn : {None}]
Syncs ==
  [at : {"none", "asked", "answered"}, hadView : BOOLEAN, stream : Turns \cup {None},
   viewMoved : BOOLEAN, streamMoved : BOOLEAN, view : Versions \cup {None},
   gen : Turns \cup {None}]
OpenCalls == [at : {"new", "asked", "answered", "done"}, view : Versions \cup {None}]

TypeOK ==
  /\ version \in Versions /\ gen \in Turns \cup {None} /\ last \in Turns
  /\ closing \subseteq Closings /\ untold \in BOOLEAN
  /\ link \in {"up", "lost", "down", "opening"} /\ channel \in Seq(Frames)
  /\ open \in BOOLEAN /\ timer \in BOOLEAN /\ hole \in BOOLEAN
  /\ view \in Versions \cup {None} /\ stream \in Turns \cup {None}
  /\ ~open => view = None /\ stream = None
  /\ sync \in Syncs /\ opening \in [Opens -> OpenCalls] /\ answers \subseteq Versions \cup {None}
  /\ turns \in 0 .. MaxTurns /\ edits \in 0 .. MaxEdits
  /\ drops \in 0 .. MaxDrops /\ fails \in 0 .. MaxFails

Init ==
  /\ version = 0 /\ gen = None /\ last = 0 /\ closing = {} /\ untold = FALSE
  /\ link = "up" /\ channel = << >>
  /\ open = FALSE /\ view = None /\ stream = None /\ timer = FALSE
  /\ sync = NoSync /\ opening = [o \in Opens |-> [at |-> "new", view |-> None]]
  /\ answers = {} /\ hole = FALSE
  /\ turns = 0 /\ edits = 0 /\ drops = 0 /\ fails = 0
-------------------------------------------------------------------------------
(* The host.  A frame goes to a page that is attached, in order.             *)

Frame(type, t, v) == [type |-> type, turn |-> t, view |-> v]

Broadcast(frames) ==
  /\ channel' = IF link \in {"up", "opening"} THEN channel \o frames ELSE channel
  /\ UNCHANGED <<link, drops>>

HostOnly == UNCHANGED <<page, sync, opening, hole>>

\* A send adds its user line, which no frame carries until the turn ends; a
\* regenerate or a continue works on the last turn.
HostStarts ==
  /\ gen = None /\ turns < MaxTurns
  /\ turns' = turns + 1
  /\ \/ last' = last + 1 /\ version' = version + 1
     \/ UNCHANGED <<last, version>>
  /\ gen' = last'
  /\ Broadcast(<<Frame("start", last', None)>>)
  /\ UNCHANGED <<closing, untold, edits, answers, fails>> /\ HostOnly

HostWrites ==
  /\ gen # None /\ Len(channel) < MaxQueue
  /\ Broadcast(<<Frame("text", gen, None)>>)
  /\ UNCHANGED <<hostState, answers, fails>> /\ HostOnly

\* The slot is free before the save the last frame waits for.
HostEnds ==
  /\ gen # None
  /\ \/ version' = version + 1 /\ closing' = closing \cup {[what |-> "end", turn |-> gen]}
     \/ UNCHANGED version /\ closing' = closing \cup {[what |-> "error", turn |-> gen]}
  /\ gen' = None
  /\ UNCHANGED <<last, untold, turns, edits, socket, answers, fails>> /\ HostOnly

\* The log or the title is changed before the save is awaited.
HostEdits(what) ==
  /\ edits < MaxEdits /\ [what |-> what, turn |-> None] \notin closing
  /\ what = "mine" => open
  /\ edits' = edits + 1 /\ version' = version + 1
  /\ closing' = closing \cup {[what |-> what, turn |-> None]}
  /\ UNCHANGED <<gen, last, untold, turns, socket, answers, fails>> /\ HostOnly

\* stream.end with the view; when the save failed, chat.updated with it and the
\* error.  The stream.error of a failed generation brings no view, and a change
\* of the chat whose save failed is announced to nobody.
FramesFor(c, saved) ==
  CASE c.what \in Changes -> IF saved THEN <<Frame("updated", None, version)>> ELSE << >>
    [] c.what = "error" -> <<Frame("error", c.turn, None)>>
    [] c.what = "end" ->
         IF saved THEN <<Frame("end", c.turn, version)>>
         ELSE <<Frame("updated", None, version), Frame("error", c.turn, None)>>

\* The call that asked for a change is answered with the view that was
\* broadcast, a rename without one, or it rejects.
AnswersFor(c, saved) ==
  CASE saved /\ c.what = "mine" -> {version}
    [] saved /\ c.what = "rename" -> {None}
    [] OTHER -> {}

HostAnnounces(c, saved) ==
  /\ \/ saved /\ UNCHANGED fails
     \/ ~saved /\ c.what # "error" /\ fails < MaxFails /\ fails' = fails + 1
  /\ closing' = closing \ {c}
  /\ Broadcast(FramesFor(c, saved))
  /\ answers' = answers \cup AnswersFor(c, saved)
  /\ untold' = CASE c.what = "error" -> untold
                 [] c.what = "end" -> FALSE
                 [] c.what \in Changes -> ~saved
  /\ UNCHANGED <<version, gen, last, turns, edits>> /\ HostOnly

HostSaves == \E c \in closing, saved \in BOOLEAN : HostAnnounces(c, saved)
-------------------------------------------------------------------------------
(* The page's store.  Whoever replaces `view` or `stream` moves it under a   *)
(* resync in flight; a new stream object arms the timer, none disarms it.    *)

Show(v, s) ==
  /\ view' = v /\ stream' = s
  /\ UNCHANGED open

Rearm == timer' = (stream' # None)

\* setState gives a fresh object for every view and every stream; undefined
\* over undefined is no change.
Moved(viewSet, streamSet) ==
  [sync EXCEPT !.viewMoved = @ \/ viewSet, !.streamMoved = @ \/ streamSet]

Touch(viewSet, streamSet) ==
  LET changed == streamSet /\ ~(stream = None /\ stream' = None)
  IN /\ IF changed THEN Rearm ELSE UNCHANGED timer
     /\ sync' = IF sync.at = "none" THEN sync ELSE Moved(viewSet, changed)

\* A frame for a chat that is not open is dropped.
ForOpenChat == open

Deliver ==
  /\ link \in {"up", "lost"} /\ channel # << >>
  /\ channel' = Tail(channel)
  /\ LET f == Head(channel) IN
     \/ ~ForOpenChat /\ UNCHANGED <<page, sync, hole>>
     \/ /\ ForOpenChat /\ f.type \in {"start", "text"}
        /\ Show(view, f.turn) /\ Touch(FALSE, TRUE) /\ UNCHANGED hole
     \/ /\ ForOpenChat /\ f.type = "end"
        /\ Show(f.view, None) /\ Touch(TRUE, TRUE) /\ hole' = FALSE
     \/ /\ ForOpenChat /\ f.type = "error"
        /\ Show(view, None) /\ Touch(FALSE, TRUE) /\ hole' = TRUE
     \/ /\ ForOpenChat /\ f.type = "updated"
        /\ Show(f.view, stream) /\ Touch(TRUE, FALSE) /\ hole' = FALSE
  /\ UNCHANGED <<hostState, link, drops, opening, answers, fails>>

\* openChat and closeChat.
OpenChat(o) ==
  /\ opening[o].at = "new"
  /\ opening' = [opening EXCEPT ![o].at = "asked"]
  /\ open' = TRUE /\ view' = None /\ stream' = None /\ timer' = FALSE
  /\ sync' = IF sync.at = "none" THEN sync ELSE Moved(view # None, stream # None)
  /\ hole' = FALSE
  /\ UNCHANGED <<hostState, socket, answers, fails>>

CloseChat ==
  /\ open
  /\ open' = FALSE /\ view' = None /\ stream' = None /\ timer' = FALSE
  /\ sync' = IF sync.at = "none" THEN sync ELSE Moved(view # None, stream # None)
  /\ hole' = FALSE
  /\ UNCHANGED <<hostState, socket, opening, answers, fails>>

HostAnswersOpen(o) ==
  /\ opening[o].at = "asked"
  /\ opening' = [opening EXCEPT ![o] = [at |-> "answered", view |-> version]]
  /\ UNCHANGED <<hostState, socket, page, sync, answers, hole, fails>>

\* The answer is taken whatever the frames brought since it was made, and a
\* resync in flight takes it for something newer than its own answer.
Opened(o) ==
  /\ opening[o].at = "answered"
  /\ opening' = [opening EXCEPT ![o] = [at |-> "done", view |-> None]]
  /\ IF open
     THEN /\ Show(opening[o].view, stream) /\ Touch(TRUE, FALSE)
          /\ hole' = (hole \/ view # None \/ sync.at # "none")
     ELSE UNCHANGED <<page, sync, hole>>
  /\ UNCHANGED <<hostState, socket, answers, fails>>

\* The reader is told, and what the page shows stays as it is.
OpenFails(o) ==
  /\ opening[o].at \in {"asked", "answered"} /\ fails < MaxFails
  /\ fails' = fails + 1
  /\ opening' = [opening EXCEPT ![o] = [at |-> "done", view |-> None]]
  /\ hole' = (hole \/ open)
  /\ UNCHANGED <<hostState, socket, page, sync, answers>>

\* swipe, editMessage and deleteMessage take the answer's view as openChat does.
Edited(v) ==
  /\ v # None
  /\ IF open
     THEN /\ Show(v, stream) /\ Touch(TRUE, FALSE)
          /\ hole' = (hole \/ (view # None /\ v < view) \/ sync.at # "none")
     ELSE UNCHANGED <<page, sync, hole>>

\* renameChat puts the title into a copy of the view it shows.
Renamed(v) ==
  /\ v = None
  /\ IF open /\ view # None
     THEN /\ Show(view, stream) /\ Touch(TRUE, FALSE)
          /\ hole' = (hole \/ sync.at # "none")
     ELSE UNCHANGED <<page, sync, hole>>

Answered(v) ==
  /\ answers' = answers \ {v}
  /\ Edited(v) \/ Renamed(v)
  /\ UNCHANGED <<hostState, socket, opening, fails>>

\* The reader is told; the frame, if it comes, brings the change.
AnswerFails(v) ==
  /\ fails < MaxFails
  /\ fails' = fails + 1
  /\ answers' = answers \ {v}
  /\ UNCHANGED <<hostState, socket, page, sync, opening, hole>>
-------------------------------------------------------------------------------
(* resync: one at a time; whoever asks during it waits for the same answer.  *)

\* Faulty variant: nobody asks.
AskNothing == UNCHANGED <<sync, hole>>

Ask ==
  IF sync.at = "none" /\ open
  THEN /\ sync' = [NoSync EXCEPT !.at = "asked", !.hadView = (view # None),
                                 !.stream = stream]
       /\ hole' = FALSE
  ELSE UNCHANGED <<sync, hole>>

Silence ==
  /\ timer /\ timer' = FALSE
  /\ Ask
  /\ UNCHANGED <<hostState, socket, open, view, stream, opening, answers, fails>>

\* The view and the turn are read in one step.
HostAnswersSync ==
  /\ sync.at = "asked"
  /\ sync' = [sync EXCEPT !.at = "answered", !.view = version, !.gen = gen]
  /\ UNCHANGED <<hostState, socket, page, opening, answers, hole, fails>>

\* Faulty variant: the answer is taken whatever moved.
AnyPage == open

\* The page still holds the objects it held when it asked.
Unmoved ==
  /\ open
  /\ IF sync.hadView THEN ~sync.viewMoved ELSE view = None
  /\ IF sync.stream # None THEN ~sync.streamMoved ELSE stream = None

\* Faulty variant: a resync that ended does not look whether to ask again.
EndSyncOnly == sync' = NoSync /\ UNCHANGED timer

EndSync == sync' = NoSync /\ Rearm

\* A turn the page never heard of starts a buffer; one it shows keeps its own.
Resynced ==
  /\ sync.at = "answered"
  /\ IF Unmoved /\ ~(sync.gen # None /\ sync.gen = sync.stream)
     THEN Show(sync.view, sync.gen) ELSE UNCHANGED <<open, view, stream>>
  /\ EndSync
  /\ UNCHANGED <<hostState, socket, opening, answers, hole, fails>>

\* With no stream shown there is no next silence.
SyncFails ==
  /\ sync.at # "none" /\ fails < MaxFails
  /\ fails' = fails + 1
  /\ UNCHANGED <<open, view, stream>>
  /\ hole' = (hole \/ (open /\ stream = None))
  /\ EndSync
  /\ UNCHANGED <<hostState, socket, opening, answers>>
-------------------------------------------------------------------------------
(* The socket: a drop loses what the page has not got yet; the client        *)
(* reconnects, and the page resyncs when its socket opens.                   *)

LinkOnly == UNCHANGED <<hostState, open, view, stream, timer, opening, answers, fails>>

Drop ==
  /\ link \in {"up", "opening"} /\ drops < MaxDrops
  /\ drops' = drops + 1
  /\ \/ /\ link = "up" /\ link' = "lost"
        /\ \E k \in 0 .. Len(channel) : channel' = SubSeq(channel, 1, k)
     \/ link = "opening" /\ link' = "down" /\ channel' = << >>
  /\ LinkOnly /\ UNCHANGED <<sync, hole>>

Closed ==
  /\ link = "lost" /\ channel = << >>
  /\ link' = "down"
  /\ UNCHANGED <<channel, drops, sync, hole>> /\ LinkOnly

Reconnect ==
  /\ link = "down" /\ link' = "opening"
  /\ UNCHANGED <<channel, drops, sync, hole>> /\ LinkOnly

\* A resync in flight was asked before this gap closed, and answers for it too.
Connected ==
  /\ link = "opening" /\ link' = "up"
  /\ IF open /\ sync.at # "none"
     THEN hole' = TRUE /\ UNCHANGED sync
     ELSE Ask
  /\ UNCHANGED <<channel, drops>> /\ LinkOnly
-------------------------------------------------------------------------------
Host ==
  \/ HostStarts \/ HostWrites \/ HostEnds \/ HostSaves
  \/ \E what \in Changes : HostEdits(what)

Answers ==
  \/ HostAnswersSync \/ Resynced
  \/ \E o \in Opens : HostAnswersOpen(o) \/ Opened(o)
  \/ \E v \in answers : Answered(v)

Next ==
  \/ Host \/ Deliver \/ Answers \/ Silence
  \/ \E o \in Opens : OpenChat(o) \/ OpenFails(o)
  \/ \E v \in answers : AnswerFails(v)
  \/ CloseChat \/ SyncFails
  \/ Drop \/ Closed \/ Reconnect \/ Connected

Spec == Init /\ [][Next]_vars

\* Saves, frames, calls and the page's timer come to their end, and the client
\* keeps reconnecting (a resync and a socket are in one of their steps at a time,
\* so one fairness each will do).  Nobody has to send, edit or open anything, and no
\* generation has to finish.
FairSpec ==
  /\ Spec
  /\ WF_vars(HostSaves) /\ WF_vars(Deliver) /\ WF_vars(Silence)
  /\ WF_vars(HostAnswersSync \/ Resynced) /\ WF_vars(Closed \/ Reconnect \/ Connected)
-------------------------------------------------------------------------------
(* What the page promises its reader.                                        *)

HostQuiet == gen = None /\ closing = {}

\* Nothing is on its way to the page.
Settled ==
  /\ open /\ HostQuiet
  /\ link = "up" /\ channel = << >>
  /\ sync.at = "none" /\ answers = {}
  /\ \A o \in Opens : opening[o].at \in {"new", "done"}

\* Once nothing is on its way, the page shows the host's view and no Stop,
\* through lost frames and reconnects, but for the holes the code leaves.  At the
\* host (untold): a change whose save failed, until the next view is broadcast.
\* At the page (hole), until the next view comes or the next resync is asked: a
\* failed turn's line; an open answered late, or not at all; an edit's answer
\* that is older than what the page shows, or that, like a rename, makes it drop
\* a resync's answer; a reconnect that joined an older resync or whose call failed.
CaughtUp ==
  Settled /\ ~timer /\ ~hole /\ ~untold => view = version /\ stream = None

\* A reply shown as generating is always being watched, so Stop cannot stay.
Watched == stream # None => timer \/ sync.at # "none"

\* What the page shows of a chat never goes back: what the socket delivered
\* while a call was in flight is at least as new as the call's answer.
ViewNeverGoesBack == [][view # None /\ view' # None => view' >= view]_vars

\* An answer of chat.resync never puts an older view over a newer one.
ResyncNeverGoesBack ==
  [][sync.at = "answered" /\ sync'.at = "none" /\ view # None => view' >= view]_vars

\* No page keeps showing a reply as generating that no host is generating.
CaretClears == []<>(stream = None \/ ~HostQuiet)
===============================================================================
