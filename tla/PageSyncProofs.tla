---------------------------- MODULE PageSyncProofs ----------------------------
(***************************************************************************)
(* What the page's socket and its resync keep, for any number of turns,    *)
(* edits, drops, failed calls and opens: a reply shown as generating is    *)
(* watched, no resync puts an older view over a newer one, and a page that *)
(* has heard everything shows what the host has.                           *)
(***************************************************************************)
EXTENDS PageSync, SequenceTheorems, TLAPS

Views == Nat \cup {None}

FrameType == [type : {"start", "text", "error", "end", "updated"}, turn : Views, view : Views]

\* The page's calls and the resync in flight.
SyncType ==
  [at : {"none", "asked", "answered"}, hadView : BOOLEAN, stream : Views, viewMoved : BOOLEAN,
   streamMoved : BOOLEAN, view : Views, gen : Views]
OpenType == [at : {"new", "asked", "answered", "done"}, view : Views]

HostType ==
  /\ version \in Nat /\ gen \in Views /\ last \in Nat
  /\ closing \subseteq [what : {"end", "error"} \cup Changes, turn : Views]
  /\ untold \in BOOLEAN
  /\ turns \in Nat /\ edits \in Nat
SocketType ==
  /\ link \in {"up", "lost", "down", "opening"} /\ channel \in Seq(FrameType)
  /\ drops \in Nat
PageType ==
  /\ open \in BOOLEAN /\ timer \in BOOLEAN /\ hole \in BOOLEAN
  /\ view \in Views /\ stream \in Views
  /\ ~open => view = None /\ stream = None
  /\ sync \in SyncType /\ opening \in [Opens -> OpenType] /\ answers \subseteq Views
  /\ fails \in Nat

Typed == HostType /\ SocketType /\ PageType

\* No view is newer than the host's.
FromTheHost ==
  /\ view # None => view <= version
  /\ \A i \in 1 .. Len(channel) :
       channel[i].type \in {"end", "updated"} =>
         channel[i].view \in Nat /\ channel[i].view <= version
  /\ \A o \in Opens : opening[o].at = "answered" =>
       opening[o].view \in Nat /\ opening[o].view <= version
  /\ sync.at = "answered" => sync.view \in Nat /\ sync.view <= version
  /\ \A v \in answers : v # None => v <= version

\* An answer is at least as new as the view that was there when it was asked
\* for, as long as that view is still the one shown.
AnswersLater ==
  sync.at = "answered" /\ sync.hadView /\ ~sync.viewMoved /\ view # None => view <= sync.view

Inv == Typed /\ Watched /\ FromTheHost /\ AnswersLater

\* A frame that says how the chat stands, or that makes a hole.
Tells(f) == f.type = "error" \/ (f.type \in {"end", "updated"} /\ f.view = version)

\* While nothing goes on at the host and it has told all, the last frame the socket holds is such a
\* frame; between two connections it holds none.
LastFrameTells ==
  /\ link = "down" => channel = << >>
  /\ HostQuiet /\ ~untold /\ link \in {"up", "opening"} /\ channel # << >> =>
       Tells(channel[Len(channel)])

\* A resync whose answer is, or will be, the host's view, on a page it fits.
SyncTells ==
  /\ sync.at # "none" /\ Unmoved
  /\ sync.at = "answered" => sync.view = version /\ sync.gen = None

\* Where a connected page without a hole gets the host's view from.
Coming ==
  open /\ ~hole /\ HostQuiet /\ ~untold /\ link = "up" =>
    \/ view = version
    \/ channel # << >>
    \/ timer /\ sync.at = "none"
    \/ SyncTells
    \/ \E o \in Opens : \/ opening[o].at = "asked"
                        \/ opening[o].at = "answered" /\ opening[o].view = version

USE PageSyncAssumption DEF PageSyncAssumption
-------------------------------------------------------------------------------
LEMMA InitInv == Init => Inv
<1> SUFFICES ASSUME Init PROVE Inv
  OBVIOUS
<1>1. HostType /\ SocketType
  <2>1. untold \in BOOLEAN /\ closing = {}
    BY DEF Init
  <2> QED
    BY <2>1 DEF Init, HostType, SocketType, Views
<1>2. PageType
  BY DEF Init, PageType, Views, NoSync, SyncType, OpenType
<1>3. Watched /\ FromTheHost /\ AnswersLater
  BY DEF Init, Watched, FromTheHost, AnswersLater, NoSync
<1> QED
  BY <1>1, <1>2, <1>3 DEF Inv, Typed

\* A good run of frames: each is well typed, and no view is newer than v.
Good(frames, v) ==
  /\ frames \in Seq(FrameType)
  /\ \A i \in 1 .. Len(frames) :
       frames[i].type \in {"end", "updated"} => frames[i].view \in Nat /\ frames[i].view <= v

LEMMA GoodLater ==
  ASSUME NEW frames, NEW v \in Nat, NEW w \in Nat, v <= w, Good(frames, v)
  PROVE  Good(frames, w)
BY DEF Good

LEMMA GoodAppended ==
  ASSUME NEW v \in Nat, NEW s, NEW t, Good(s, v), Good(t, v)
  PROVE  Good(s \o t, v)
<1>1. s \o t \in Seq(FrameType) /\ Len(s \o t) = Len(s) + Len(t)
  BY DEF Good
<1>2. \A i \in 1 .. Len(s) + Len(t) :
        (s \o t)[i] = IF i <= Len(s) THEN s[i] ELSE t[i - Len(s)]
  BY DEF Good
<1> QED
  BY <1>1, <1>2 DEF Good

LEMMA GoodTail ==
  ASSUME NEW v \in Nat, NEW s, Good(s, v), s # << >>
  PROVE  Good(Tail(s), v)
BY DEF Good

LEMMA GoodHead ==
  ASSUME NEW v \in Nat, NEW s, Good(s, v), s # << >>
  PROVE  /\ Head(s) \in FrameType
         /\ Head(s).type \in {"end", "updated"} => Head(s).view \in Nat /\ Head(s).view <= v
BY DEF Good

LEMMA GoodPrefix ==
  ASSUME NEW v \in Nat, NEW s, Good(s, v), NEW k \in 0 .. Len(s)
  PROVE  Good(SubSeq(s, 1, k), v)
BY DEF Good

\* The parts of the invariant about the channel, as one.
LEMMA ChannelIsGood == ASSUME Inv PROVE version \in Nat /\ Good(channel, version)
BY DEF Inv, Typed, HostType, SocketType, FromTheHost, Good
-------------------------------------------------------------------------------
\* The host's log only changes forward.
LEMMA HostMovesOn ==
  ASSUME Inv, Host
  PROVE  HostType' /\ version' >= version
<1> USE DEF Inv, Typed, HostType, Views
<1>1. CASE HostStarts
  BY <1>1 DEF HostStarts
<1>2. CASE HostWrites
  BY <1>2 DEF HostWrites, hostState
<1>3. CASE HostEnds
  BY <1>3 DEF HostEnds
<1>4. CASE \E what \in Changes : HostEdits(what)
  BY <1>4 DEF HostEdits, Changes
<1>5. CASE HostSaves
  <2>1. PICK c \in closing, saved \in BOOLEAN : HostAnnounces(c, saved)
    BY <1>5 DEF HostSaves
  <2>2. untold' \in BOOLEAN
    BY <2>1 DEF HostAnnounces
  <2>3. UNCHANGED <<version, gen, last, turns, edits>> /\ closing' \subseteq closing
    BY <2>1 DEF HostAnnounces
  <2> QED
    BY <2>2, <2>3
<1> QED
  BY <1>1, <1>2, <1>3, <1>4, <1>5 DEF Host

\* What it sends has no newer view than its log.
LEMMA HostSends ==
  ASSUME Inv, Host
  PROVE  /\ UNCHANGED <<link, drops>>
         /\ Good(channel', version')
<1>1. /\ version \in Nat /\ version' \in Nat /\ version <= version'
      /\ Good(channel, version')
  <2>1. HostType' /\ version' >= version
    BY HostMovesOn
  <2> QED
    BY <2>1, ChannelIsGood, GoodLater DEF HostType
<1>2. ASSUME NEW frames, Good(frames, version'), Broadcast(frames)
      PROVE  UNCHANGED <<link, drops>> /\ Good(channel', version')
  BY <1>1, <1>2, GoodAppended DEF Broadcast
<1>3. CASE HostStarts
  <2>1. Good(<<Frame("start", last', None)>>, version')
    BY HostMovesOn DEF Good, Frame, FrameType, Views, HostType
  <2> QED
    BY <1>2, <1>3, <2>1 DEF HostStarts
<1>4. CASE HostWrites
  <2>1. Good(<<Frame("text", gen, None)>>, version')
    BY DEF Good, Frame, FrameType, Views, HostType, Inv, Typed
  <2> QED
    BY <1>2, <1>4, <2>1 DEF HostWrites
<1>5. CASE HostEnds \/ \E what \in Changes : HostEdits(what)
  BY <1>1, <1>5 DEF HostEnds, HostEdits, socket
<1>6. CASE HostSaves
  <2>1. PICK c \in closing, saved \in BOOLEAN : HostAnnounces(c, saved)
    BY <1>6 DEF HostSaves
  <2>2. Broadcast(FramesFor(c, saved))
    BY <2>1 DEF HostAnnounces
  <2>3. version' = version
    BY <2>1 DEF HostAnnounces
  <2>4. c.what \in {"end", "error"} \cup Changes /\ c.turn \in Views
    BY DEF Inv, Typed, HostType
  <2> DEFINE End == Frame("end", c.turn, version)
             Err == Frame("error", c.turn, None)
             Upd == Frame("updated", None, version)
  <2>5. /\ End \in FrameType /\ Err \in FrameType /\ Upd \in FrameType
        /\ End.view = version /\ Upd.view = version
        /\ Err.type = "error"
    BY <1>1, <2>4 DEF Frame, FrameType, Views
  <2>6. \E frames \in {<< >>, <<Upd>>, <<Err>>, <<End>>, <<Upd, Err>>} : Broadcast(frames)
    BY <2>2, <2>4 DEF FramesFor, Changes
  <2> HIDE DEF End, Err, Upd
  <2>7. /\ Good(<<Upd>>, version) /\ Good(<<Err>>, version) /\ Good(<<End>>, version)
        /\ Good(<< >>, version)
    BY <1>1, <2>5 DEF Good
  <2>8. Good(<<Upd, Err>>, version)
    BY <1>1, <2>5 DEF Good
  <2> QED
    BY <1>2, <2>3, <2>6, <2>7, <2>8
<1> QED
  BY <1>3, <1>4, <1>5, <1>6 DEF Host

\* It answers with the view its log has.
LEMMA HostAnswers ==
  ASSUME Inv, Host
  PROVE  answers' \subseteq Views /\ (\A v \in answers' : v # None => v <= version') /\ fails' \in Nat
<1>1. /\ version \in Nat /\ version' \in Nat /\ version <= version'
      /\ answers \subseteq Views /\ (\A v \in answers : v # None => v <= version)
      /\ fails \in Nat
  BY HostMovesOn DEF Inv, Typed, HostType, PageType, FromTheHost
<1>2. \A v \in answers : v # None => v <= version'
  BY <1>1 DEF Views
<1>3. CASE answers' = answers /\ fails' = fails
  BY <1>1, <1>2, <1>3
<1>4. CASE HostSaves
  <2>1. PICK c \in closing, saved \in BOOLEAN : HostAnnounces(c, saved)
    BY <1>4 DEF HostSaves
  <2>2. /\ answers' = answers \cup AnswersFor(c, saved) /\ version' = version
        /\ fails' = fails \/ fails' = fails + 1
    BY <2>1 DEF HostAnnounces
  <2>3. \A v \in AnswersFor(c, saved) : v = version \/ v = None
    BY DEF AnswersFor
  <2>4. fails' \in Nat
    BY <1>1, <2>2
  <2>5. \A v \in answers' : v \in Views /\ (v # None => v <= version')
    BY <1>1, <2>2, <2>3 DEF Views
  <2> QED
    BY <2>4, <2>5
<1> QED
  BY <1>3, <1>4 DEF Host, HostStarts, HostWrites, HostEnds, HostEdits

LEMMA HostInv ==
  ASSUME Inv, Host
  PROVE  Inv'
<1>1. UNCHANGED <<open, view, stream, timer, sync, opening, hole>>
  BY DEF Host, HostStarts, HostWrites, HostEnds, HostEdits, HostSaves, HostAnnounces, HostOnly,
     page
<1>2. HostType' /\ version' >= version /\ UNCHANGED <<link, drops>> /\ Good(channel', version')
  BY HostMovesOn, HostSends
<1>3. Typed'
  BY <1>1, <1>2, HostAnswers DEF Inv, Typed, SocketType, PageType, Good
<1>4. FromTheHost'
  <2>1. \A n \in Nat : n <= version => n <= version'
    BY <1>2 DEF Inv, Typed, HostType
  <2>2. view' # None => view' <= version'
    BY <1>1, <2>1 DEF Inv, FromTheHost, Typed, PageType, Views
  <2>3. \A o \in Opens : opening'[o].at = "answered" =>
          opening'[o].view \in Nat /\ opening'[o].view <= version'
    BY <1>1, <2>1 DEF Inv, FromTheHost
  <2>4. sync'.at = "answered" => sync'.view \in Nat /\ sync'.view <= version'
    BY <1>1, <2>1 DEF Inv, FromTheHost
  <2> QED
    BY <1>2, <2>2, <2>3, <2>4, HostAnswers DEF FromTheHost, Good
<1>5. Watched' /\ AnswersLater'
  BY <1>1 DEF Inv, Watched, AnswersLater
<1> QED
  BY <1>3, <1>4, <1>5 DEF Inv
-------------------------------------------------------------------------------
(* The page.  Every step of it either leaves a resync in flight its view or  *)
(* marks it moved; these are the facts each step is reduced to.              *)

\* What the page shows, keeps or replaces; an unmarked resync sees no change.
Marked ==
  /\ sync' \in SyncType /\ sync'.at = sync.at
  /\ \/ sync' = sync
     \/ \E b, c \in BOOLEAN : sync' = Moved(b, c)
  /\ sync.at # "none" /\ view' # view /\ view' # None => sync'.viewMoved

LEMMA PageStep ==
  ASSUME Inv, UNCHANGED hostState, link' \in {"up", "lost", "down", "opening"},
         drops' \in Nat, Good(channel', version), open' \in BOOLEAN, timer' \in BOOLEAN,
         hole' \in BOOLEAN, view' \in Views, stream' \in Views,
         ~open' => view' = None /\ stream' = None,
         Marked, opening' \in [Opens -> OpenType], fails' \in Nat, answers' \subseteq answers,
         view' # None => view' <= version,
         \A o \in Opens : opening'[o].at = "answered" =>
           opening'[o].view \in Nat /\ opening'[o].view <= version,
         stream' # None => timer' \/ sync.at # "none"
  PROVE  Inv'
<1> USE DEF hostState
<1>1. HostType' /\ version' = version
  BY DEF Inv, Typed, HostType
<1>2. SocketType' /\ PageType'
  <2>1. answers' \subseteq Views
    BY DEF Inv, Typed, PageType
  <2> QED
    BY <2>1 DEF SocketType, PageType, Good, Marked
<1>3. sync'.at = sync.at /\ sync'.hadView = sync.hadView /\ sync'.view = sync.view
  BY DEF Marked, Moved, Inv, Typed, PageType, SyncType
<1>4. FromTheHost'
  BY <1>1, <1>3 DEF Inv, FromTheHost, Good
<1>5. Watched'
  BY <1>3 DEF Watched
<1>6. AnswersLater'
  <2>1. SUFFICES ASSUME sync'.at = "answered", sync'.hadView, ~sync'.viewMoved, view' # None
                 PROVE  view' <= sync'.view
    BY DEF AnswersLater
  <2>2. view' = view
    BY <1>3, <2>1 DEF Marked
  <2>3. ~sync.viewMoved
    BY <2>1 DEF Marked, Moved, Inv, Typed, PageType, SyncType
  <2> QED
    BY <1>3, <2>1, <2>2, <2>3 DEF Inv, AnswersLater
<1> QED
  BY <1>1, <1>2, <1>4, <1>5, <1>6 DEF Inv, Typed

\* Touch marks the resync for what it was told was set.
LEMMA TouchMarks ==
  ASSUME Inv, NEW b \in BOOLEAN, NEW c \in BOOLEAN, Touch(b, c), view' # view => b
  PROVE  /\ Marked /\ timer' \in BOOLEAN
         /\ c /\ stream' # None => timer'
         /\ stream' = stream /\ ~c => timer' = timer
<1> DEFINE changed == c /\ ~(stream = None /\ stream' = None)
<1>1. changed \in BOOLEAN /\ timer \in BOOLEAN /\ sync \in SyncType
  BY DEF Inv, Typed, PageType
<1>2. sync' = IF sync.at = "none" THEN sync ELSE Moved(b, changed)
  BY DEF Touch
<1>3. timer' \in BOOLEAN /\ (c /\ stream' # None => timer') /\ (~c => timer' = timer)
  <2>1. CASE changed
    BY <2>1 DEF Touch, Rearm
  <2>2. CASE ~changed
    BY <1>1, <2>2 DEF Touch
  <2> QED
    BY <2>1, <2>2
<1> HIDE DEF changed
<1>4. Moved(b, changed) \in SyncType /\ Moved(b, changed).at = sync.at
  BY <1>1 DEF Moved, SyncType
<1>5. b => Moved(b, changed).viewMoved
  BY <1>1 DEF Moved, SyncType
<1> QED
  BY <1>1, <1>2, <1>3, <1>4, <1>5 DEF Marked
-------------------------------------------------------------------------------
(* One lemma per step of the page or of its socket.                          *)

\* What the invariant says before a step, as the lemmas on the steps cite it.
LEMMA Before ==
  ASSUME Inv
  PROVE  /\ version \in Nat /\ Good(channel, version)
         /\ link \in {"up", "lost", "down", "opening"} /\ drops \in Nat /\ fails \in Nat
         /\ open \in BOOLEAN /\ timer \in BOOLEAN /\ hole \in BOOLEAN
         /\ view \in Views /\ stream \in Views
         /\ ~open => view = None /\ stream = None
         /\ sync \in SyncType /\ opening \in [Opens -> OpenType]
         /\ view # None => view <= version
         /\ \A o \in Opens : opening[o].at = "answered" =>
              opening[o].view \in Nat /\ opening[o].view <= version
         /\ stream # None => timer \/ sync.at # "none"
BY ChannelIsGood DEF Inv, Typed, HostType, SocketType, PageType, FromTheHost, Watched

LEMMA DeliverInv ==
  ASSUME Inv, Deliver
  PROVE  Inv'
<1> USE Before
<1>1. /\ UNCHANGED <<hostState, link, drops, opening, answers, fails>>
      /\ channel # << >> /\ channel' = Tail(channel) /\ Good(channel', version)
  BY GoodTail DEF Deliver
<1> DEFINE f == Head(channel)
<1>2. /\ f \in FrameType
      /\ f.type \in {"end", "updated"} => f.view \in Nat /\ f.view <= version
  BY <1>1, GoodHead
<1>3. CASE UNCHANGED <<page, sync, hole>>
  <2>1. Marked
    BY <1>3 DEF Marked, page
  <2> QED
    BY <1>1, <1>3, <2>1, PageStep DEF page
<1>4. CASE /\ ForOpenChat /\ f.type \in {"start", "text"}
           /\ Show(view, f.turn) /\ Touch(FALSE, TRUE) /\ UNCHANGED hole
  <2>1. Marked /\ timer' \in BOOLEAN /\ (stream' # None => timer')
    BY <1>4, TouchMarks DEF Show
  <2> QED
    BY <1>1, <1>2, <1>4, <2>1, PageStep DEF Show, ForOpenChat, FrameType
<1>5. CASE /\ ForOpenChat /\ f.type = "end"
           /\ Show(f.view, None) /\ Touch(TRUE, TRUE) /\ hole' = FALSE
  <2>1. Marked /\ timer' \in BOOLEAN /\ (stream' # None => timer')
    BY <1>5, TouchMarks DEF Show
  <2> QED
    BY <1>1, <1>2, <1>5, <2>1, PageStep DEF Show, ForOpenChat, FrameType, Views
<1>6. CASE /\ ForOpenChat /\ f.type = "error"
           /\ Show(view, None) /\ Touch(FALSE, TRUE) /\ hole' = TRUE
  <2>1. Marked /\ timer' \in BOOLEAN /\ (stream' # None => timer')
    BY <1>6, TouchMarks DEF Show
  <2> QED
    BY <1>1, <1>2, <1>6, <2>1, PageStep DEF Show, ForOpenChat, Views
<1>7. CASE /\ ForOpenChat /\ f.type = "updated"
           /\ Show(f.view, stream) /\ Touch(TRUE, FALSE) /\ hole' = FALSE
  <2>1. Marked /\ timer' \in BOOLEAN /\ timer' = timer
    BY <1>7, TouchMarks DEF Show
  <2> QED
    BY <1>1, <1>2, <1>7, <2>1, PageStep DEF Show, ForOpenChat, FrameType
<1> QED
  BY <1>3, <1>4, <1>5, <1>6, <1>7 DEF Deliver

\* Opening or closing a chat clears what is shown.
LEMMA ClearedIsMarked ==
  ASSUME Inv, view' = None,
         sync' = IF sync.at = "none" THEN sync ELSE Moved(view # None, stream # None)
  PROVE  Marked
<1> DEFINE b == view # None
           c == stream # None
<1>1. b \in BOOLEAN /\ c \in BOOLEAN /\ sync \in SyncType
  BY DEF Inv, Typed, PageType
<1>2. sync' = IF sync.at = "none" THEN sync ELSE Moved(b, c)
  OBVIOUS
<1> HIDE DEF b, c
<1>3. Moved(b, c) \in SyncType /\ Moved(b, c).at = sync.at
  BY <1>1 DEF Moved, SyncType
<1> QED
  BY <1>1, <1>2, <1>3 DEF Marked

LEMMA OpenChatInv ==
  ASSUME Inv, NEW o \in Opens, OpenChat(o)
  PROVE  Inv'
<1> USE Before
<1>1. Marked
  BY ClearedIsMarked DEF OpenChat
<1>2. /\ opening' \in [Opens -> OpenType]
      /\ \A q \in Opens : opening'[q].at = "answered" =>
           opening'[q].view \in Nat /\ opening'[q].view <= version
  BY DEF OpenChat, OpenType
<1> QED
  BY <1>1, <1>2, PageStep DEF OpenChat, socket, Views

LEMMA CloseChatInv ==
  ASSUME Inv, CloseChat
  PROVE  Inv'
<1> USE Before
<1>1. Marked
  BY ClearedIsMarked DEF CloseChat
<1> QED
  BY <1>1, PageStep DEF CloseChat, socket, Views

LEMMA HostAnswersOpenInv ==
  ASSUME Inv, NEW o \in Opens, HostAnswersOpen(o)
  PROVE  Inv'
<1> USE Before
<1>1. Marked
  BY DEF HostAnswersOpen, Marked, page
<1>2. /\ opening' \in [Opens -> OpenType]
      /\ \A q \in Opens : opening'[q].at = "answered" =>
           opening'[q].view \in Nat /\ opening'[q].view <= version
  BY DEF HostAnswersOpen, OpenType, Views
<1> QED
  BY <1>1, <1>2, PageStep DEF HostAnswersOpen, socket, page

LEMMA OpenedInv ==
  ASSUME Inv, NEW o \in Opens, Opened(o)
  PROVE  Inv'
<1> USE Before
<1>1. /\ opening' \in [Opens -> OpenType]
      /\ \A q \in Opens : opening'[q].at = "answered" =>
           opening'[q].view \in Nat /\ opening'[q].view <= version
  BY DEF Opened, OpenType, Views
<1>2. opening[o].view \in Nat /\ opening[o].view <= version
  BY DEF Opened
<1>3. CASE open
  <2>1. /\ Show(opening[o].view, stream) /\ Touch(TRUE, FALSE)
        /\ hole' = (hole \/ view # None \/ sync.at # "none")
    BY <1>3 DEF Opened
  <2>2. Marked /\ timer' \in BOOLEAN /\ timer' = timer
    BY <2>1, TouchMarks DEF Show
  <2> QED
    BY <1>1, <1>2, <1>3, <2>1, <2>2, PageStep DEF Opened, Show, socket, Views
<1>4. CASE ~open
  <2>1. UNCHANGED <<page, sync, hole>>
    BY <1>4 DEF Opened
  <2>2. Marked
    BY <2>1 DEF Marked, page
  <2> QED
    BY <1>1, <2>1, <2>2, PageStep DEF Opened, socket, page
<1> QED
  BY <1>3, <1>4

LEMMA AnsweredInv ==
  ASSUME Inv, NEW v \in answers, Answered(v)
  PROVE  Inv'
<1> USE Before
<1>1. UNCHANGED <<hostState, socket, opening, fails>> /\ answers' \subseteq answers
  BY DEF Answered
<1>2. v \in Views /\ (v # None => v <= version)
  BY DEF Inv, Typed, PageType, FromTheHost
<1>3. CASE UNCHANGED <<page, sync, hole>>
  <2>1. Marked
    BY <1>3 DEF Marked, page
  <2> QED
    BY <1>1, <1>3, <2>1, PageStep DEF socket, page
<1>4. CASE /\ open /\ Touch(TRUE, FALSE) /\ hole' \in BOOLEAN
           /\ Show(v, stream) \/ Show(view, stream)
  <2>1. Marked /\ timer' \in BOOLEAN /\ timer' = timer
    BY <1>4, TouchMarks DEF Show
  <2>2. view' \in Views /\ (view' # None => view' <= version)
    BY <1>2, <1>4 DEF Show, Views
  <2> QED
    BY <1>1, <1>4, <2>1, <2>2, PageStep DEF Show, socket
<1> QED
  BY <1>3, <1>4 DEF Answered, Edited, Renamed

LEMMA AnswerFailsInv ==
  ASSUME Inv, NEW v \in answers, AnswerFails(v)
  PROVE  Inv'
<1> USE Before
<1>1. Marked
  BY DEF AnswerFails, Marked, page
<1> QED
  BY <1>1, PageStep DEF AnswerFails, socket, page

LEMMA OpenFailsInv ==
  ASSUME Inv, NEW o \in Opens, OpenFails(o)
  PROVE  Inv'
<1> USE Before
<1>1. Marked
  BY DEF OpenFails, Marked, page
<1>2. /\ opening' \in [Opens -> OpenType]
      /\ \A q \in Opens : opening'[q].at = "answered" =>
           opening'[q].view \in Nat /\ opening'[q].view <= version
  BY DEF OpenFails, OpenType, Views
<1> QED
  BY <1>1, <1>2, PageStep DEF OpenFails, socket, page
-------------------------------------------------------------------------------
(* The resync and the socket.                                                *)

\* Whoever asks starts a resync or finds one in flight.
LEMMA AskStarts ==
  ASSUME Inv, Ask
  PROVE  /\ sync' \in SyncType /\ hole' \in BOOLEAN
         /\ \/ sync' = sync
            \/ sync.at = "none" /\ sync'.at = "asked"
         /\ open => sync'.at # "none"
<1>1. CASE sync.at = "none" /\ open
  <2> DEFINE hv == view # None
  <2>1. hv \in BOOLEAN
    OBVIOUS
  <2>2. sync' = [NoSync EXCEPT !.at = "asked", !.hadView = hv, !.stream = stream] /\ hole' = FALSE
    BY <1>1 DEF Ask
  <2> HIDE DEF hv
  <2> QED
    BY <1>1, <2>1, <2>2, Before DEF NoSync, SyncType, Views
<1>2. CASE ~(sync.at = "none" /\ open)
  BY <1>2, Before DEF Ask, SyncType
<1> QED
  BY <1>1, <1>2

\* A step that shows nothing else and keeps or starts a resync.
LEMMA SyncStep ==
  ASSUME Inv, UNCHANGED <<hostState, open, view, stream, opening, answers>>,
         link' \in {"up", "lost", "down", "opening"}, drops' \in Nat, Good(channel', version),
         timer' \in BOOLEAN, hole' \in BOOLEAN, fails' \in Nat,
         sync' \in SyncType, sync' = sync \/ sync'.at # "answered",
         stream # None => timer' \/ sync'.at # "none"
  PROVE  Inv'
<1> USE Before DEF hostState
<1>1. HostType' /\ SocketType' /\ PageType'
  BY DEF Inv, Typed, HostType, SocketType, PageType, Good
<1>2. FromTheHost'
  BY DEF Inv, FromTheHost, Good
<1>3. Watched' /\ AnswersLater'
  BY DEF Inv, Watched, AnswersLater
<1> QED
  BY <1>1, <1>2, <1>3 DEF Inv, Typed

LEMMA SilenceInv ==
  ASSUME Inv, Silence
  PROVE  Inv'
<1>1. /\ sync' \in SyncType /\ hole' \in BOOLEAN
      /\ sync' = sync \/ sync'.at # "answered"
      /\ open => sync'.at # "none"
  BY AskStarts DEF Silence
<1> QED
  BY <1>1, Before, SyncStep DEF Silence, socket

LEMMA ConnectedInv ==
  ASSUME Inv, Connected
  PROVE  Inv'
<1> USE Before
<1>1. /\ sync' \in SyncType /\ hole' \in BOOLEAN
      /\ sync' = sync \/ sync'.at # "answered"
      /\ open => sync'.at # "none"
  <2>1. CASE open /\ sync.at # "none"
    BY <2>1 DEF Connected
  <2>2. CASE ~(open /\ sync.at # "none")
    BY <2>2, AskStarts DEF Connected
  <2> QED
    BY <2>1, <2>2
<1> QED
  BY <1>1, SyncStep DEF Connected, LinkOnly

LEMMA LinkInv ==
  ASSUME Inv, Drop \/ Closed \/ Reconnect
  PROVE  Inv'
<1> USE Before
<1>1. CASE Drop
  <2>1. Good(channel', version)
    <3>1. CASE link = "up"
      BY <1>1, <3>1, GoodPrefix DEF Drop
    <3>2. CASE channel' = << >>
      BY <3>2 DEF Good
    <3> QED
      BY <1>1, <3>1, <3>2 DEF Drop
  <2> QED
    BY <1>1, <2>1, SyncStep DEF Drop, LinkOnly
<1>2. CASE Closed
  BY <1>2, SyncStep DEF Closed, LinkOnly
<1>3. CASE Reconnect
  BY <1>3, SyncStep DEF Reconnect, LinkOnly
<1> QED
  BY <1>1, <1>2, <1>3

\* The answer is as new as the log, so as any view the page can be showing.
LEMMA HostAnswersSyncInv ==
  ASSUME Inv, HostAnswersSync
  PROVE  Inv'
<1> USE Before
<1>1. UNCHANGED <<hostState, socket, page, opening, answers, hole, fails>>
  BY DEF HostAnswersSync
<1>2. gen \in Views
  BY DEF Inv, Typed, HostType
<1>3. /\ sync' \in SyncType /\ sync'.at = "answered" /\ sync'.view = version
  BY <1>2 DEF HostAnswersSync, SyncType, Views
<1>4. HostType' /\ SocketType' /\ PageType'
  BY <1>1, <1>3 DEF Inv, Typed, HostType, SocketType, PageType, hostState, socket, page
<1>5. FromTheHost'
  BY <1>1, <1>3 DEF Inv, FromTheHost, hostState, socket, page
<1>6. Watched' /\ AnswersLater'
  BY <1>1, <1>3 DEF Inv, Watched, AnswersLater, hostState, page
<1> QED
  BY <1>4, <1>5, <1>6 DEF Inv, Typed

\* What the answer puts on the page, or leaves there, is never older.
LEMMA ResyncedShows ==
  ASSUME Inv, Resynced
  PROVE  /\ sync' = NoSync /\ timer' = (stream' # None)
         /\ UNCHANGED <<hostState, socket, opening, answers, hole, fails>>
         /\ open' = open /\ view' \in Views /\ stream' \in Views
         /\ ~open => view' = None /\ stream' = None
         /\ view' # None => view' <= version
         /\ view # None => view' # None /\ view' >= view
<1> USE Before
<1>1. /\ sync.at = "answered" /\ sync' = NoSync /\ timer' = (stream' # None)
      /\ UNCHANGED <<hostState, socket, opening, answers, hole, fails>>
  BY DEF Resynced, EndSync, Rearm
<1>2. sync.view \in Nat /\ sync.view <= version /\ sync.gen \in Views
  BY <1>1 DEF Inv, FromTheHost, Typed, PageType, SyncType
<1>3. CASE UNCHANGED <<open, view, stream>>
  BY <1>1, <1>3 DEF Views
<1>4. CASE Unmoved /\ Show(sync.view, sync.gen)
  <2>1. view # None => view <= sync.view
    BY <1>1, <1>4 DEF Unmoved, Inv, AnswersLater
  <2> QED
    BY <1>1, <1>2, <1>4, <2>1 DEF Show, Unmoved, Views
<1> QED
  BY <1>3, <1>4 DEF Resynced

\* A resync that ended arms the timer when a reply is still shown.
LEMMA SyncEndsInv ==
  ASSUME Inv, Resynced \/ SyncFails
  PROVE  Inv'
<1> USE Before
<1>1. /\ sync' = NoSync /\ timer' = (stream' # None)
      /\ UNCHANGED <<hostState, socket, opening, answers>>
      /\ open' = open /\ view' \in Views /\ stream' \in Views
      /\ ~open => view' = None /\ stream' = None
      /\ view' # None => view' <= version
      /\ hole' \in BOOLEAN /\ fails' \in Nat
  <2>1. CASE Resynced
    BY <2>1, ResyncedShows
  <2>2. CASE SyncFails
    <3>1. hole' \in BOOLEAN
      BY <2>2 DEF SyncFails
    <3> QED
      BY <2>2, <3>1 DEF SyncFails, EndSync, Rearm
  <2> QED
    BY <2>1, <2>2
<1>2. sync' \in SyncType /\ sync'.at = "none"
  BY <1>1 DEF NoSync, SyncType, Views
<1>3. HostType' /\ SocketType' /\ version' = version /\ channel' = channel
  BY <1>1 DEF Inv, Typed, HostType, SocketType, hostState, socket
<1>4. timer' \in BOOLEAN
  BY <1>1
<1>5. PageType'
  <2>1. answers' \subseteq Views
    BY <1>1 DEF Inv, Typed, PageType
  <2> QED
    BY <1>1, <1>2, <1>4, <2>1 DEF PageType
<1>6. FromTheHost' /\ Watched' /\ AnswersLater'
  BY <1>1, <1>2, <1>3 DEF Inv, FromTheHost, Watched, AnswersLater, Good
<1> QED
  BY <1>3, <1>5, <1>6 DEF Inv, Typed
-------------------------------------------------------------------------------
LEMMA NextInv ==
  ASSUME Inv, [Next]_vars
  PROVE  Inv'
<1>1. CASE Host
  BY <1>1, HostInv
<1>2. CASE Deliver
  BY <1>2, DeliverInv
<1>3. CASE Answers
  BY <1>3, HostAnswersSyncInv, SyncEndsInv, HostAnswersOpenInv, OpenedInv, AnsweredInv
  DEF Answers
<1>4. CASE Silence
  BY <1>4, SilenceInv
<1>5. CASE \E o \in Opens : OpenChat(o) \/ OpenFails(o)
  BY <1>5, OpenChatInv, OpenFailsInv
<1>6. CASE CloseChat
  BY <1>6, CloseChatInv
<1>7. CASE SyncFails
  BY <1>7, SyncEndsInv
<1>8. CASE Drop \/ Closed \/ Reconnect
  BY <1>8, LinkInv
<1>9. CASE Connected
  BY <1>9, ConnectedInv
<1>10. CASE UNCHANGED vars
  BY <1>10 DEF vars, hostState, socket, page, Inv, Typed, HostType, SocketType, PageType,
       FromTheHost, Watched, AnswersLater
<1>11. CASE \E v \in answers : AnswerFails(v)
  BY <1>11, AnswerFailsInv
<1> QED
  BY <1>1, <1>2, <1>3, <1>4, <1>5, <1>6, <1>7, <1>8, <1>9, <1>10, <1>11 DEF Next

LEMMA SpecInv == Spec => []Inv
<1>1. Inv /\ [Next]_vars => Inv'
  BY NextInv
<1> QED
  BY InitInv, <1>1, PTL DEF Spec

\* A reply the page shows as generating always has its silence timer armed or a
\* resync in flight, so its Stop button cannot stay for ever.
THEOREM WatchedHolds == Spec => []Watched
<1>1. Inv => Watched
  BY DEF Inv
<1> QED
  BY SpecInv, <1>1, PTL

\* No answer of chat.resync puts an older view over a newer one, whatever frames,
\* opens and closes came while it was in flight.
THEOREM ResyncNeverGoesBackHolds == Spec => ResyncNeverGoesBack
<1> DEFINE Step == sync.at = "answered" /\ sync'.at = "none" /\ view # None => view' >= view
<1>1. ASSUME Inv, [Next]_vars
      PROVE  Step
  <2> SUFFICES ASSUME sync.at = "answered", sync'.at = "none", view # None
               PROVE  view' >= view
    OBVIOUS
  <2>1. CASE Resynced
    BY <1>1, <2>1, ResyncedShows
  <2>2. CASE SyncFails
    BY <1>1, <2>2, Before DEF SyncFails, Views
  <2>3. CASE Host \/ Drop \/ Closed \/ Reconnect \/ UNCHANGED vars
    BY <2>3 DEF Host, HostStarts, HostWrites, HostEnds, HostEdits, HostSaves, HostAnnounces,
       HostOnly, Drop, Closed, Reconnect, vars
  <2>4. CASE HostAnswersSync \/ Silence \/ Connected
    BY <2>4 DEF HostAnswersSync, Silence, Connected, Ask
  <2>5. CASE \/ Deliver \/ CloseChat
             \/ \E o \in Opens :
                  OpenChat(o) \/ OpenFails(o) \/ HostAnswersOpen(o) \/ Opened(o)
             \/ \E v \in answers : Answered(v) \/ AnswerFails(v)
    <3>1. sync' = sync \/ \E b, c : sync' = Moved(b, c)
      BY <2>5 DEF Deliver, Touch, CloseChat, OpenChat, OpenFails, HostAnswersOpen, Opened,
         Answered, Edited, Renamed, AnswerFails
    <3>2. \A b, c : Moved(b, c).at = sync.at
      BY <1>1, Before DEF Moved, SyncType
    <3> QED
      BY <3>1, <3>2
  <2> QED
    BY <1>1, <2>1, <2>2, <2>3, <2>4, <2>5 DEF Next, Answers
<1> QED
  BY SpecInv, <1>1, PTL DEF Spec, ResyncNeverGoesBack
-------------------------------------------------------------------------------
(* How a page without a hole comes to show the host's view.                  *)

Tidy == LastFrameTells /\ Coming

LEMMA InitTidy == Init => Tidy
BY DEF Init, Tidy, LastFrameTells, Coming

\* The last of some appended frames is the last one.
LEMMA LastAppended ==
  ASSUME NEW S, NEW s \in Seq(S), NEW t \in Seq(S), t # << >>
  PROVE  s \o t # << >> /\ (s \o t)[Len(s \o t)] = t[Len(t)]
<1>1. Len(t) >= 1 /\ Len(s \o t) = Len(s) + Len(t)
  OBVIOUS
<1>2. (s \o t)[Len(s) + Len(t)] = t[Len(t)]
  BY <1>1
<1> QED
  BY <1>1, <1>2

\* Only an announcement brings the host to rest, and it is a frame that tells.
LEMMA HostTidy ==
  ASSUME Inv, Tidy, Host
  PROVE  Tidy'
<1>1. UNCHANGED <<open, view, stream, timer, sync, opening, hole>>
  BY DEF Host, HostStarts, HostWrites, HostEnds, HostEdits, HostSaves, HostAnnounces, HostOnly,
     page
<1>2. link' = link /\ (link = "down" => channel' = channel)
  BY DEF Host, HostStarts, HostWrites, HostEnds, HostEdits, HostSaves, HostAnnounces, Broadcast,
     socket
<1>3. CASE HostStarts \/ HostWrites
  <2>1. ~HostQuiet'
    BY <1>3 DEF HostStarts, HostWrites, HostQuiet, hostState, Inv, Typed, HostType
  <2> QED
    BY <1>2, <2>1 DEF Tidy, LastFrameTells, Coming
<1>4. CASE HostEnds \/ \E what \in Changes : HostEdits(what)
  <2>1. ~HostQuiet'
    BY <1>4 DEF HostEnds, HostEdits, HostQuiet
  <2> QED
    BY <1>2, <2>1 DEF Tidy, LastFrameTells, Coming
<1>5. CASE HostSaves
  <2> PICK c \in closing, saved \in BOOLEAN : HostAnnounces(c, saved)
    BY <1>5 DEF HostSaves
  <2>1. version' = version
    BY DEF HostAnnounces
  <2> DEFINE frames == FramesFor(c, saved)
  <2>3. Broadcast(frames) /\ (frames = << >> => untold')
    <3>1. Broadcast(frames)
      BY DEF HostAnnounces
    <3>2. ASSUME frames = << >> PROVE c.what \in Changes /\ ~saved
      <4>1. c.what \in {"end", "error"} \cup Changes
        BY DEF Inv, Typed, HostType
      <4> QED
        BY <3>2, <4>1 DEF FramesFor, Frame
    <3>3. c.what \in Changes /\ ~saved => untold'
      BY DEF HostAnnounces, Changes
    <3> QED
      BY <3>1, <3>2, <3>3
  <2>4. c.what \in {"end", "error"} \cup Changes /\ c.turn \in Views /\ version \in Nat
    BY DEF Inv, Typed, HostType
  <2> DEFINE End == Frame("end", c.turn, version)
             Err == Frame("error", c.turn, None)
             Upd == Frame("updated", None, version)
  <2>5. /\ End \in FrameType /\ Err \in FrameType /\ Upd \in FrameType
        /\ Tells(End) /\ Tells(Err) /\ Tells(Upd)
    BY <2>4 DEF Frame, FrameType, Views, Tells
  <2>6. \/ frames = << >> \/ frames = <<Upd>> \/ frames = <<Err>>
        \/ frames = <<End>> \/ frames = <<Upd, Err>>
    BY <2>3, <2>4 DEF FramesFor, Changes
  <2> HIDE DEF End, Err, Upd, frames
  <2>7. frames # << >> => frames \in Seq(FrameType) /\ Tells(frames[Len(frames)])
    <3>1. ASSUME NEW f \in FrameType, Tells(f), frames = <<f>>
          PROVE  frames \in Seq(FrameType) /\ frames # << >> /\ Tells(frames[Len(frames)])
      BY <3>1
    <3>2. ASSUME frames = <<Upd, Err>>
          PROVE  frames \in Seq(FrameType) /\ frames # << >> /\ Tells(frames[Len(frames)])
      <4>1. frames \in Seq(FrameType) /\ frames # << >>
        BY <2>5, <3>2
      <4>2. frames[Len(frames)] = Err
        BY ONLY <3>2
      <4> QED
        BY <2>5, <4>1, <4>2
    <3> QED
      BY <2>5, <2>6, <3>1, <3>2
  <2>8. CASE link \in {"up", "opening"} /\ frames # << >>
    <3>1. channel' = channel \o frames
      BY <2>3, <2>8 DEF Broadcast
    <3>2. channel' # << >> /\ channel'[Len(channel')] = frames[Len(frames)]
      BY <2>7, <2>8, <3>1, LastAppended DEF Inv, Typed, SocketType
    <3>3. Tells(channel'[Len(channel')])
      BY <2>7, <2>8, <3>2
    <3> QED
      BY <1>2, <2>1, <2>8, <3>2, <3>3 DEF Tidy, LastFrameTells, Coming, Tells
  <2>9. CASE link \notin {"up", "opening"}
    BY <1>2, <2>9 DEF Tidy, LastFrameTells, Coming
  <2>10. CASE frames = << >>
    BY <1>2, <2>3, <2>10 DEF Tidy, LastFrameTells, Coming
  <2> QED
    BY <2>8, <2>9, <2>10
<1> QED
  BY <1>3, <1>4, <1>5 DEF Host

\* The frame that empties the socket of a host at rest brings its view, or it is
\* the line of a failed turn.
LEMMA DeliverTidy ==
  ASSUME Inv, Tidy, Deliver
  PROVE  Tidy'
<1>1. /\ UNCHANGED <<hostState, link>> /\ link \in {"up", "lost"}
      /\ channel # << >> /\ channel' = Tail(channel) /\ channel \in Seq(FrameType)
  BY DEF Deliver, Inv, Typed, SocketType
<1>2. /\ channel' # << >> => channel'[Len(channel')] = channel[Len(channel)]
      /\ channel' = << >> => Head(channel) = channel[Len(channel)]
  BY <1>1
<1>3. LastFrameTells'
  BY <1>1, <1>2 DEF Tidy, LastFrameTells, HostQuiet, Tells, hostState
<1>4. ASSUME open', ~hole', HostQuiet', ~untold', link' = "up", channel' = << >>
      PROVE  view' = version'
  <2>1. version' = version /\ HostQuiet /\ ~untold /\ link = "up"
    BY <1>1, <1>4 DEF HostQuiet, hostState
  <2> DEFINE f == Head(channel)
  <2>2. Tells(f)
    BY <1>1, <1>2, <1>4, <2>1 DEF Tidy, LastFrameTells
  <2>3. f.type = "error" \/ (f.type \in {"end", "updated"} /\ f.view = version)
    BY <2>2 DEF Tells
  <2>4. ForOpenChat
    BY <1>4 DEF Deliver, ForOpenChat, page, Show
  <2>5. f.type \notin {"start", "text"}
    BY <2>3
  <2> QED
    BY <1>4, <2>1, <2>3, <2>4, <2>5 DEF Deliver, Show
<1> QED
  BY <1>3, <1>4 DEF Tidy, Coming
-------------------------------------------------------------------------------
(* A step of the page alone leaves the host and the socket as they are.      *)

LEMMA PageTidy ==
  ASSUME Tidy, UNCHANGED <<hostState, link, channel>>,
         open' /\ ~hole' /\ HostQuiet /\ ~untold /\ link = "up" /\ channel = << >> =>
           \/ view' = version
           \/ timer' /\ sync'.at = "none"
           \/ SyncTells'
           \/ \E o \in Opens : \/ opening'[o].at = "asked"
                               \/ opening'[o].at = "answered" /\ opening'[o].view = version
  PROVE  Tidy'
<1>1. version' = version /\ untold' = untold /\ HostQuiet' = HostQuiet
  BY DEF hostState, HostQuiet
<1>2. LastFrameTells'
  BY <1>1 DEF Tidy, LastFrameTells, Tells
<1>3. Coming'
  BY <1>1 DEF Coming
<1> QED
  BY <1>2, <1>3 DEF Tidy

LEMMA OpensTidy ==
  ASSUME Inv, Tidy, NEW o \in Opens, OpenChat(o) \/ HostAnswersOpen(o) \/ Opened(o) \/ OpenFails(o)
  PROVE  Tidy'
<1> USE Before
<1>1. UNCHANGED <<hostState, link, channel>>
  BY DEF OpenChat, HostAnswersOpen, Opened, OpenFails, socket
<1>2. CASE OpenChat(o)
  <2>1. opening'[o].at = "asked"
    BY <1>2 DEF OpenChat, OpenType
  <2> QED
    BY <1>1, <2>1, PageTidy
<1>3. CASE HostAnswersOpen(o)
  <2>1. /\ opening'[o].at = "answered" /\ opening'[o].view = version
        /\ \A q \in Opens \ {o} : opening'[q] = opening[q]
    BY <1>3 DEF HostAnswersOpen, OpenType
  <2> QED
    BY <1>1, <2>1, PageTidy
<1>4. CASE Opened(o)
  <2>1. opening[o].at = "answered" /\ \A q \in Opens \ {o} : opening'[q] = opening[q]
    BY <1>4 DEF Opened, OpenType
  <2>2. ASSUME open', ~hole', HostQuiet, ~untold, link = "up", channel = << >>
        PROVE  \/ view' = version
               \/ timer' /\ sync'.at = "none"
               \/ \E q \in Opens : \/ opening'[q].at = "asked"
                                   \/ opening'[q].at = "answered" /\ opening'[q].view = version
    <3>1. open
      BY <1>4, <2>2 DEF Opened, page
    <3>2. /\ Show(opening[o].view, stream) /\ Touch(TRUE, FALSE)
          /\ ~hole /\ view = None /\ sync.at = "none"
      BY <1>4, <2>2, <3>1 DEF Opened
    <3>3. view' = opening[o].view /\ timer' = timer /\ sync' = sync
      BY <3>2 DEF Show, Touch
    <3>4. \/ timer
          \/ \E q \in Opens : \/ opening[q].at = "asked"
                              \/ opening[q].at = "answered" /\ opening[q].view = version
      BY <2>2, <3>1, <3>2 DEF Tidy, Coming, SyncTells
    <3> QED
      BY <2>1, <3>2, <3>3, <3>4
  <2> QED
    BY <1>1, <2>2, PageTidy
<1>5. CASE OpenFails(o)
  BY <1>1, <1>5, PageTidy DEF OpenFails, page
<1> QED
  BY <1>2, <1>3, <1>4, <1>5

\* An edit's answer that is no older than what is shown, and that no resync was
\* in flight to lose its answer for, takes nothing away.
LEMMA AnswersTidy ==
  ASSUME Inv, Tidy, NEW v \in answers, Answered(v) \/ AnswerFails(v)
  PROVE  Tidy'
<1> USE Before
<1>1. UNCHANGED <<hostState, link, channel, opening>>
  BY DEF Answered, AnswerFails, socket
<1>2. CASE UNCHANGED <<page, sync, hole>>
  <2>1. SyncTells => SyncTells'
    BY <1>1, <1>2 DEF SyncTells, Unmoved, page, hostState
  <2> QED
    BY <1>1, <1>2, <2>1, PageTidy DEF Tidy, Coming, page
<1>3. CASE /\ open /\ Touch(TRUE, FALSE)
           /\ \/ /\ v # None /\ Show(v, stream)
                 /\ hole' = (hole \/ (view # None /\ v < view) \/ sync.at # "none")
              \/ Show(view, stream) /\ hole' = (hole \/ sync.at # "none")
  <2>1. ASSUME open', ~hole', HostQuiet, ~untold, link = "up", channel = << >>
        PROVE  \/ view' = version
               \/ timer' /\ sync'.at = "none"
               \/ \E q \in Opens : \/ opening'[q].at = "asked"
                                   \/ opening'[q].at = "answered" /\ opening'[q].view = version
    <3>1. ~hole /\ sync.at = "none" /\ timer' = timer /\ sync' = sync
      BY <1>3, <2>1 DEF Touch, Show
    <3>2. \/ view = version
          \/ timer
          \/ \E q \in Opens : \/ opening[q].at = "asked"
                              \/ opening[q].at = "answered" /\ opening[q].view = version
      BY <1>3, <2>1, <3>1 DEF Tidy, Coming, SyncTells
    <3>3. view = version => view' = version
      <4>1. v \in Views /\ (v # None => v \in Nat /\ v <= version) /\ version \in Nat
        BY DEF Inv, Typed, PageType, FromTheHost, Views
      <4>2. CASE Show(view, stream)
        BY <4>2 DEF Show
      <4>3. CASE /\ v # None /\ Show(v, stream)
                 /\ hole' = (hole \/ (view # None /\ v < view) \/ sync.at # "none")
        <5>1. ~(view # None /\ v < view)
          BY <2>1, <4>3
        <5>2. view' = v
          BY <4>3 DEF Show
        <5>3. ASSUME view = version PROVE v = version
          <6>1. version # None
            BY <4>1
          <6>2. ~(v < version)
            BY <5>1, <5>3, <6>1
          <6> QED
            BY <4>1, <4>3, <6>2
        <5> QED
          BY <5>2, <5>3
      <4> QED
        BY <1>3, <4>2, <4>3
    <3> QED
      BY <1>1, <3>1, <3>2, <3>3
  <2> QED
    BY <1>1, <2>1, PageTidy
<1> QED
  BY <1>2, <1>3 DEF Answered, Edited, Renamed, AnswerFails

LEMMA CloseTidy ==
  ASSUME Inv, Tidy, CloseChat
  PROVE  Tidy'
BY PageTidy DEF CloseChat, socket

\* What is asked of a page is about what it shows.
LEMMA AskTells ==
  ASSUME Inv, Ask, sync.at = "none", open, UNCHANGED <<open, view, stream>>
  PROVE  SyncTells'
<1> DEFINE hv == view # None
<1>1. sync' = [NoSync EXCEPT !.at = "asked", !.hadView = hv, !.stream = stream]
  BY DEF Ask
<1>2. hv \in BOOLEAN
  OBVIOUS
<1>3. /\ sync'.at = "asked" /\ sync'.stream = stream /\ ~sync'.viewMoved /\ ~sync'.streamMoved
      /\ sync'.hadView = hv
  <2> HIDE DEF hv
  <2> QED
    BY <1>1, <1>2 DEF NoSync
<1> QED
  BY <1>3 DEF SyncTells, Unmoved

LEMMA SilenceTidy ==
  ASSUME Inv, Tidy, Silence
  PROVE  Tidy'
<1> USE Before
<1>1. UNCHANGED <<hostState, link, channel, open, view, stream, opening>>
  BY DEF Silence, socket
<1>2. CASE sync.at = "none" /\ open
  BY <1>1, <1>2, AskTells, PageTidy DEF Silence
<1>3. CASE ~(sync.at = "none" /\ open)
  <2>1. UNCHANGED <<sync, hole>>
    BY <1>3 DEF Silence, Ask
  <2> QED
    <3>1. SyncTells => SyncTells'
      BY <1>1, <2>1 DEF SyncTells, Unmoved, hostState
    <3>2. open' /\ ~hole' => sync.at # "none" /\ open /\ ~hole
      BY <1>1, <1>3, <2>1
    <3> QED
      BY <1>1, <3>1, <3>2, PageTidy DEF Tidy, Coming
<1> QED
  BY <1>2, <1>3

LEMMA HostAnswersSyncTidy ==
  ASSUME Inv, Tidy, HostAnswersSync
  PROVE  Tidy'
<1> USE Before
<1>1. /\ UNCHANGED <<hostState, link, channel, open, view, stream, timer, opening, hole>>
      /\ sync.at = "asked"
  BY DEF HostAnswersSync, socket, page
<1>2. /\ sync'.at = "answered" /\ sync'.view = version /\ sync'.gen = gen
      /\ sync'.hadView = sync.hadView /\ sync'.viewMoved = sync.viewMoved
      /\ sync'.stream = sync.stream /\ sync'.streamMoved = sync.streamMoved
  BY DEF HostAnswersSync, SyncType
<1>3. SyncTells /\ HostQuiet => SyncTells'
  BY <1>1, <1>2 DEF SyncTells, Unmoved, HostQuiet, hostState
<1> QED
  BY <1>1, <1>3, PageTidy DEF Tidy, Coming

\* The answer is taken, and is the host's view; a failed call leaves the timer
\* of the reply that is shown, or a hole.
LEMMA SyncEndsTidy ==
  ASSUME Inv, Tidy, Resynced \/ SyncFails
  PROVE  Tidy'
<1> USE Before
<1>1. /\ UNCHANGED <<hostState, link, channel, open, opening>>
      /\ sync'.at = "none" /\ sync.at # "none" /\ timer' = (stream' # None)
  BY DEF Resynced, SyncFails, EndSync, Rearm, Show, NoSync, socket
<1>2. ASSUME open', ~hole', HostQuiet, ~untold, link = "up", channel = << >>,
             ~ \E o \in Opens : \/ opening'[o].at = "asked"
                                \/ opening'[o].at = "answered" /\ opening'[o].view = version
      PROVE  view' = version \/ timer'
  <2>1. ~hole /\ open
    BY <1>1, <1>2 DEF Resynced, SyncFails
  <2>2. view = version \/ SyncTells
    BY <1>1, <1>2, <2>1 DEF Tidy, Coming
  <2>3. CASE Resynced
    <3>1. CASE view = version
      <4>1. view' >= view /\ view' <= version' /\ view' \in Nat /\ version' = version
        BY <1>1, <2>3, <3>1, ResyncedShows DEF hostState, Views
      <4> QED
        BY <3>1, <4>1
    <3>2. CASE SyncTells
      <4>1. Unmoved /\ sync.gen = None /\ sync.view = version
        BY <2>3, <3>2 DEF SyncTells, Resynced
      <4> QED
        BY <2>3, <4>1 DEF Resynced, Show
    <3> QED
      BY <2>2, <3>1, <3>2
  <2>4. CASE SyncFails
    BY <1>1, <1>2, <2>1, <2>4 DEF SyncFails
  <2> QED
    BY <2>3, <2>4
<1> QED
  BY <1>1, <1>2, PageTidy
-------------------------------------------------------------------------------
\* A page that connects asks, or knows it may have missed something.
LEMMA LinkTidy ==
  ASSUME Inv, Tidy, Drop \/ Closed \/ Reconnect \/ Connected
  PROVE  Tidy'
<1> USE Before
<1>1. UNCHANGED <<hostState, open, view, stream, timer, opening>>
  BY DEF Drop, Closed, Reconnect, Connected, LinkOnly
<1>2. version' = version /\ untold' = untold /\ HostQuiet' = HostQuiet
  BY <1>1 DEF hostState, HostQuiet
<1>3. CASE Drop \/ Closed \/ Reconnect
  <2>1. link' # "up" /\ (link' = "down" => channel' = << >>)
        /\ (link' \in {"up", "opening"} => channel' = << >>)
    BY <1>3 DEF Drop, Closed, Reconnect, Tidy, LastFrameTells
  <2> QED
    BY <2>1 DEF Tidy, LastFrameTells, Coming
<1>4. CASE Connected
  <2>1. link = "opening" /\ link' = "up" /\ channel' = channel
    BY <1>4 DEF Connected
  <2>2. LastFrameTells'
    BY <1>2, <2>1 DEF Tidy, LastFrameTells, Tells
  <2>3. CASE open /\ sync.at # "none"
    BY <1>4, <2>2, <2>3 DEF Connected, Tidy, Coming
  <2>4. CASE open /\ sync.at = "none"
    BY <1>1, <1>4, <2>2, <2>4, AskTells DEF Connected, Tidy, Coming
  <2>5. CASE ~open
    BY <1>1, <2>2, <2>5 DEF Tidy, Coming
  <2> QED
    BY <2>3, <2>4, <2>5
<1> QED
  BY <1>3, <1>4

LEMMA NextTidy ==
  ASSUME Inv, Tidy, [Next]_vars
  PROVE  Tidy'
<1>1. CASE UNCHANGED vars
  BY <1>1 DEF vars, hostState, socket, page, Tidy, LastFrameTells, Coming, HostQuiet, Tells,
     SyncTells, Unmoved
<1> QED
  BY <1>1, HostTidy, DeliverTidy, OpensTidy, AnswersTidy, CloseTidy, SilenceTidy,
     HostAnswersSyncTidy, SyncEndsTidy, LinkTidy DEF Next, Answers

\* Once nothing is on its way to the page, it shows the host's view and no Stop,
\* whatever was lost on the way, but for the holes CaughtUp names.
THEOREM CaughtUpHolds == Spec => []CaughtUp
<1>1. Inv /\ Tidy => CaughtUp
  <2> SUFFICES ASSUME Inv, Tidy, Settled, ~timer, ~hole, ~untold
               PROVE  view = version /\ stream = None
    BY DEF CaughtUp
  <2>1. stream = None
    BY DEF Inv, Watched, Settled
  <2>2. view = version
    BY DEF Tidy, Coming, Settled, SyncTells
  <2> QED
    BY <2>1, <2>2
<1>2. Tidy /\ []Inv /\ [][Next]_vars => []Tidy
  BY NextTidy, PTL
<1> QED
  BY InitTidy, SpecInv, <1>1, <1>2, PTL DEF Spec
-------------------------------------------------------------------------------
(* Types: every view there is, is one the host's log had, and no turn or     *)
(* change goes uncounted.                                                    *)

HostTyped ==
  /\ version \in Versions /\ gen \in Turns \cup {None} /\ last \in Turns
  /\ closing \subseteq Closings /\ untold \in BOOLEAN
  /\ turns \in 0 .. MaxTurns /\ edits \in 0 .. MaxEdits
SocketTyped ==
  /\ link \in {"up", "lost", "down", "opening"} /\ channel \in Seq(Frames)
  /\ drops \in 0 .. MaxDrops
ShownTyped ==
  /\ open \in BOOLEAN /\ timer \in BOOLEAN /\ hole \in BOOLEAN
  /\ view \in Versions \cup {None} /\ stream \in Turns \cup {None}
  /\ ~open => view = None /\ stream = None
CallsTyped ==
  /\ sync \in Syncs /\ opening \in [Opens -> OpenCalls] /\ answers \subseteq Versions \cup {None}
  /\ fails \in 0 .. MaxFails

Strict == HostTyped /\ SocketTyped /\ ShownTyped /\ CallsTyped

LEMMA StrictParts == TypeOK <=> Strict
BY DEF TypeOK, Strict, HostTyped, SocketTyped, ShownTyped, CallsTyped

\* A turn changes the log at its start and at its end, an edit once.
Count(v, g, l, t, e) ==
  /\ v \in Nat /\ l \in Nat /\ t \in Nat /\ e \in Nat
  /\ l <= t /\ t <= MaxTurns /\ e <= MaxEdits
  /\ g # None => g \in Nat /\ g <= l
  /\ IF g = None THEN v <= 2 * t + e ELSE v + 1 <= 2 * t + e

Counted == Count(version, gen, last, turns, edits)

LEMMA CountBounds ==
  ASSUME NEW v, NEW g, NEW l, NEW t, NEW e, Count(v, g, l, t, e)
  PROVE  /\ v \in Versions /\ l \in Turns /\ g \in Turns \cup {None}
         /\ t \in 0 .. MaxTurns /\ e \in 0 .. MaxEdits
BY DEF Count, Versions, Turns

LEMMA CountStarts ==
  ASSUME NEW v, NEW l, NEW t, NEW e, Count(v, None, l, t, e), t < MaxTurns
  PROVE  Count(v + 1, l + 1, l + 1, t + 1, e) /\ Count(v, l, l, t + 1, e)
BY DEF Count

LEMMA CountEnds ==
  ASSUME NEW v, NEW g, NEW l, NEW t, NEW e, Count(v, g, l, t, e), g # None
  PROVE  Count(v + 1, None, l, t, e) /\ Count(v, None, l, t, e)
BY DEF Count

LEMMA CountEdits ==
  ASSUME NEW v, NEW g, NEW l, NEW t, NEW e, Count(v, g, l, t, e), e < MaxEdits
  PROVE  Count(v + 1, g, l, t, e + 1)
BY DEF Count

LEMMA InitStrict == Init => Strict /\ Counted
<1> SUFFICES ASSUME Init
             PROVE  Strict /\ Counted
  OBVIOUS
<1>1. Counted
  BY DEF Init, Counted, Count
<1>2. HostTyped
  <2>1. untold \in BOOLEAN /\ closing = {}
    BY DEF Init
  <2> QED
    BY <2>1 DEF Init, HostTyped, Versions, Turns
<1>3. SocketTyped
  <2>1. << >> \in Seq(Frames)
    OBVIOUS
  <2> QED
    BY <2>1 DEF Init, SocketTyped
<1>4. ShownTyped
  BY DEF Init, ShownTyped
<1>5. CallsTyped
  BY DEF Init, CallsTyped, Syncs, OpenCalls, NoSync
<1> QED
  BY <1>1, <1>2, <1>3, <1>4, <1>5 DEF Strict

LEMMA HostCounts ==
  ASSUME Strict, Counted, Host
  PROVE  HostTyped' /\ Counted'
<1>1. /\ gen \in Turns \cup {None} /\ closing \subseteq Closings
      /\ Count(version, gen, last, turns, edits) /\ untold \in BOOLEAN
  BY DEF Strict, HostTyped, Counted
<1>2. ASSUME closing' \subseteq Closings, untold' \in BOOLEAN, NEW v, NEW g, NEW l, NEW t, NEW e,
             Count(v, g, l, t, e),
             version' = v /\ gen' = g /\ last' = l /\ turns' = t /\ edits' = e
      PROVE  HostTyped' /\ Counted'
  <2>1. /\ v \in Versions /\ l \in Turns /\ g \in Turns \cup {None}
        /\ t \in 0 .. MaxTurns /\ e \in 0 .. MaxEdits
    BY <1>2, CountBounds
  <2> QED
    BY <1>2, <2>1 DEF HostTyped, Counted
<1>3. CASE HostStarts
  <2>1. /\ gen = None /\ turns < MaxTurns /\ turns' = turns + 1 /\ gen' = last'
        /\ \/ last' = last + 1 /\ version' = version + 1
           \/ UNCHANGED <<last, version>>
        /\ UNCHANGED <<closing, untold, edits>>
    BY <1>3 DEF HostStarts
  <2>2. /\ Count(version + 1, last + 1, last + 1, turns + 1, edits)
        /\ Count(version, last, last, turns + 1, edits)
    BY <1>1, <2>1, CountStarts
  <2>3. CASE last' = last + 1 /\ version' = version + 1
    BY <1>1, <1>2, <2>1, <2>2, <2>3
  <2>4. CASE UNCHANGED <<last, version>>
    BY <1>1, <1>2, <2>1, <2>2, <2>4
  <2> QED
    BY <2>1, <2>3, <2>4
<1>4. CASE HostWrites \/ HostSaves
  <2>1. /\ UNCHANGED <<version, gen, last, turns, edits>> /\ closing' \subseteq Closings
        /\ untold' \in BOOLEAN
    <3>1. CASE HostWrites
      BY <1>1, <3>1 DEF HostWrites, hostState
    <3>2. CASE HostSaves
      <4>1. PICK c \in closing, saved \in BOOLEAN : HostAnnounces(c, saved)
        BY <3>2 DEF HostSaves
      <4>2. untold' \in BOOLEAN
        <5>1. c.what \in {"end", "error"} \cup Changes
          BY <1>1, <4>1 DEF Closings
        <5> QED
          BY <1>1, <4>1, <5>1 DEF HostAnnounces
      <4>3. UNCHANGED <<version, gen, last, turns, edits>> /\ closing' \subseteq closing
        BY <4>1 DEF HostAnnounces
      <4> QED
        BY <1>1, <4>2, <4>3
    <3> QED
      BY <1>4, <3>1, <3>2
  <2> QED
    BY <1>1, <1>2, <2>1
<1>5. CASE HostEnds
  <2>1. /\ gen # None /\ gen' = None /\ (version' = version + 1 \/ version' = version)
        /\ UNCHANGED <<last, untold, turns, edits>>
    BY <1>5 DEF HostEnds
  <2>2. closing' \subseteq Closings
    BY <1>1, <1>5 DEF HostEnds, Closings
  <2>3. /\ Count(version + 1, None, last, turns, edits)
        /\ Count(version, None, last, turns, edits)
    BY <1>1, <2>1, CountEnds
  <2> QED
    BY <1>1, <1>2, <2>1, <2>2, <2>3
<1>6. CASE \E what \in Changes : HostEdits(what)
  <2>1. /\ edits' = edits + 1 /\ edits < MaxEdits /\ version' = version + 1
        /\ UNCHANGED <<gen, last, untold, turns>>
    BY <1>6 DEF HostEdits
  <2>2. closing' \subseteq Closings
    BY <1>1, <1>6 DEF HostEdits, Closings
  <2>3. Count(version + 1, gen, last, turns, edits + 1)
    BY <1>1, <2>1, CountEdits
  <2> QED
    BY <1>1, <1>2, <2>1, <2>2, <2>3
<1> QED
  BY <1>3, <1>4, <1>5, <1>6 DEF Host

LEMMA Singleton ==
  ASSUME NEW S, NEW x \in S
  PROVE  <<x>> \in Seq(S)
OBVIOUS

LEMMA HostStrict ==
  ASSUME Strict, Counted, Host
  PROVE  Strict'
<1>1. UNCHANGED <<open, view, stream, timer, sync, opening, hole>>
  BY DEF Host, HostStarts, HostWrites, HostEnds, HostEdits, HostSaves, HostAnnounces, HostOnly,
     page
<1>2. HostTyped' /\ Counted'
  BY HostCounts
<1>3. ASSUME NEW frames \in Seq(Frames), Broadcast(frames)
      PROVE  SocketTyped'
  BY <1>3 DEF Broadcast, Strict, SocketTyped
<1>4. SocketTyped'
  <2>1. CASE HostStarts
    <3>1. <<Frame("start", last', None)>> \in Seq(Frames)
      BY <1>2 DEF Frame, Frames, HostTyped
    <3> QED
      BY <1>3, <2>1, <3>1 DEF HostStarts
  <2>2. CASE HostWrites
    <3>1. <<Frame("text", gen, None)>> \in Seq(Frames)
      BY <2>2 DEF HostWrites, Frame, Frames, Strict, HostTyped
    <3> QED
      BY <1>3, <2>2, <3>1 DEF HostWrites
  <2>3. CASE HostEnds \/ \E what \in Changes : HostEdits(what)
    BY <2>3 DEF HostEnds, HostEdits, socket, Strict, SocketTyped
  <2>4. CASE HostSaves
    <3>1. PICK c \in closing, saved \in BOOLEAN : HostAnnounces(c, saved)
      BY <2>4 DEF HostSaves
    <3> DEFINE frames == FramesFor(c, saved)
    <3>2. Broadcast(frames)
      BY <3>1 DEF HostAnnounces
    <3>3. /\ c.what \in {"end", "error"} \cup Changes /\ (c.what \notin Changes => c.turn \in Turns)
          /\ version \in Versions
      BY DEF Strict, HostTyped, Closings, Changes
    <3>4. CASE c.what \in Changes
      <4>1. frames = <<Frame("updated", None, version)>> \/ frames = << >>
        BY <3>2, <3>4 DEF FramesFor, Changes
      <4>2. Frame("updated", None, version) \in Frames
        BY <3>3 DEF Frame, Frames
      <4>3. << >> \in Seq(Frames)
        OBVIOUS
      <4> QED
        BY <1>3, <3>2, <4>1, <4>2, <4>3, Singleton
    <3>5. CASE c.what = "error"
      <4>1. frames = <<Frame("error", c.turn, None)>>
        BY <3>2, <3>5 DEF FramesFor, Changes
      <4>2. Frame("error", c.turn, None) \in Frames
        BY <3>3, <3>5 DEF Frame, Frames, Changes
      <4> QED
        BY <1>3, <3>2, <4>1, <4>2, Singleton
    <3>6. CASE c.what = "end"
      <4>1. \/ frames = <<Frame("end", c.turn, version)>>
            \/ frames = <<Frame("updated", None, version), Frame("error", c.turn, None)>>
        BY <3>2, <3>6 DEF FramesFor, Changes
      <4>2. /\ Frame("end", c.turn, version) \in Frames
            /\ Frame("updated", None, version) \in Frames
            /\ Frame("error", c.turn, None) \in Frames
        BY <3>3, <3>6 DEF Frame, Frames, Changes
      <4> QED
        <5> DEFINE e == Frame("end", c.turn, version)
                   u == Frame("updated", None, version)
                   r == Frame("error", c.turn, None)
        <5>1. e \in Frames /\ u \in Frames /\ r \in Frames /\ (frames = <<e>> \/ frames = <<u, r>>)
          BY <4>1, <4>2
        <5> HIDE DEF e, u, r
        <5>2. <<e>> \in Seq(Frames) /\ <<u, r>> \in Seq(Frames)
          BY <5>1
        <5>3. frames \in Seq(Frames)
          BY <5>1, <5>2
        <5> QED
          BY <1>3, <3>2, <5>3
    <3> QED
      BY <3>3, <3>4, <3>5, <3>6
  <2> QED
    BY <2>1, <2>2, <2>3, <2>4 DEF Host
<1>5. answers' \subseteq Versions \cup {None} /\ fails' \in 0 .. MaxFails
  <2>1. /\ answers \subseteq Versions \cup {None} /\ fails \in 0 .. MaxFails
        /\ version \in Versions
    BY DEF Strict, HostTyped, CallsTyped
  <2>2. CASE answers' = answers /\ fails' = fails
    BY <2>1, <2>2
  <2>3. CASE HostSaves
    <3>1. PICK c \in closing, saved \in BOOLEAN : HostAnnounces(c, saved)
      BY <2>3 DEF HostSaves
    <3>2. answers' = answers \cup AnswersFor(c, saved) /\ AnswersFor(c, saved) \subseteq {version, None}
      BY <3>1 DEF HostAnnounces, AnswersFor
    <3>3. fails' = fails \/ (fails < MaxFails /\ fails' = fails + 1)
      BY <3>1 DEF HostAnnounces
    <3> QED
      BY <2>1, <3>2, <3>3
  <2> QED
    BY <2>2, <2>3 DEF Host, HostStarts, HostWrites, HostEnds, HostEdits
<1> QED
  BY <1>1, <1>2, <1>4, <1>5 DEF Strict, ShownTyped, CallsTyped

\* Marking a resync as moved keeps it one.
LEMMA MovedStrict ==
  ASSUME sync \in Syncs, NEW b \in BOOLEAN, NEW c \in BOOLEAN
  PROVE  Moved(b, c) \in Syncs
BY DEF Moved, Syncs

LEMMA TouchStrict ==
  ASSUME Strict, NEW b \in BOOLEAN, NEW c \in BOOLEAN, Touch(b, c)
  PROVE  timer' \in BOOLEAN /\ sync' \in Syncs
<1> DEFINE changed == c /\ ~(stream = None /\ stream' = None)
<1>1. changed \in BOOLEAN /\ timer \in BOOLEAN /\ sync \in Syncs
  BY DEF Strict, ShownTyped, CallsTyped
<1>2. sync' = IF sync.at = "none" THEN sync ELSE Moved(b, changed)
  BY DEF Touch
<1>3. timer' = (stream' # None) \/ timer' = timer
  BY DEF Touch, Rearm
<1> HIDE DEF changed
<1> QED
  BY <1>1, <1>2, <1>3, MovedStrict

\* What a step of the page alone has to keep.
LEMMA PageStrict ==
  ASSUME Strict, UNCHANGED <<hostState, link, drops>>, channel' \in Seq(Frames),
         ShownTyped', CallsTyped'
  PROVE  Strict'
BY DEF Strict, HostTyped, SocketTyped, hostState

LEMMA DeliverStrict ==
  ASSUME Strict, Deliver
  PROVE  Strict'
<1>1. /\ UNCHANGED <<hostState, link, drops, opening, answers, fails>>
      /\ channel' \in Seq(Frames) /\ Head(channel) \in Frames
  BY DEF Deliver, Strict, SocketTyped
<1> DEFINE f == Head(channel)
<1>2. /\ f.type \in {"start", "text", "error", "end"} => f.turn \in Turns
      /\ f.type \in {"end", "updated"} => f.view \in Versions
  BY <1>1 DEF Frames
<1>3. CASE ~ForOpenChat /\ UNCHANGED <<page, sync, hole>>
  BY <1>1, <1>3, PageStrict DEF Strict, ShownTyped, CallsTyped, page
<1>4. CASE ForOpenChat
  <2>1. timer' \in BOOLEAN /\ sync' \in Syncs
    BY <1>4, TouchStrict DEF Deliver
  <2>2. /\ open' = open /\ open /\ hole' \in BOOLEAN
        /\ view' \in Versions \cup {None} /\ stream' \in Turns \cup {None}
    BY <1>2, <1>4 DEF Deliver, Show, ForOpenChat, Strict, ShownTyped
  <2> QED
    BY <1>1, <2>1, <2>2, PageStrict DEF Strict, ShownTyped, CallsTyped
<1> QED
  BY <1>3, <1>4 DEF Deliver

\* Opening or closing a chat marks the resync for what it cleared.
LEMMA ClearedStrict ==
  ASSUME Strict,
         sync' = IF sync.at = "none" THEN sync ELSE Moved(view # None, stream # None)
  PROVE  sync' \in Syncs
<1> DEFINE b == view # None
           c == stream # None
<1>1. b \in BOOLEAN /\ c \in BOOLEAN /\ sync \in Syncs
  BY DEF Strict, CallsTyped
<1>2. sync' = IF sync.at = "none" THEN sync ELSE Moved(b, c)
  OBVIOUS
<1> HIDE DEF b, c
<1> QED
  BY <1>1, <1>2, MovedStrict

LEMMA OpensStrict ==
  ASSUME Strict, NEW o \in Opens, OpenChat(o) \/ HostAnswersOpen(o) \/ Opened(o) \/ OpenFails(o)
  PROVE  Strict'
<1> USE DEF Strict
<1>1. UNCHANGED <<hostState, link, drops, channel, answers>> /\ channel' \in Seq(Frames)
  BY DEF OpenChat, HostAnswersOpen, Opened, OpenFails, socket, SocketTyped
<1>2. opening' \in [Opens -> OpenCalls]
  <2>1. ASSUME NEW a \in {"asked", "answered", "done"}, NEW v \in Versions \cup {None},
               opening' = [opening EXCEPT ![o] = [at |-> a, view |-> v]]
        PROVE  opening' \in [Opens -> OpenCalls]
    BY <2>1 DEF CallsTyped, OpenCalls
  <2>2. opening' = [opening EXCEPT ![o].at = "asked"] => opening' \in [Opens -> OpenCalls]
    BY DEF CallsTyped, OpenCalls
  <2>3. version \in Versions
    BY DEF HostTyped
  <2> QED
    BY <2>1, <2>2, <2>3 DEF OpenChat, HostAnswersOpen, Opened, OpenFails
<1>3. CASE OpenChat(o)
  BY <1>1, <1>2, <1>3, ClearedStrict, PageStrict DEF OpenChat, ShownTyped, CallsTyped
<1>4. CASE HostAnswersOpen(o)
  BY <1>1, <1>2, <1>4, PageStrict DEF HostAnswersOpen, ShownTyped, CallsTyped, page
<1>5. CASE Opened(o)
  <2>1. opening[o].view \in Versions \cup {None} /\ fails' \in 0 .. MaxFails
    BY <1>5 DEF Opened, CallsTyped, OpenCalls
  <2>2. CASE open
    <3>1. Show(opening[o].view, stream) /\ Touch(TRUE, FALSE) /\ hole' \in BOOLEAN
      BY <1>5, <2>2 DEF Opened
    <3>2. timer' \in BOOLEAN /\ sync' \in Syncs
      BY <3>1, TouchStrict
    <3> QED
      BY <1>1, <1>2, <2>1, <2>2, <3>1, <3>2, PageStrict DEF Show, ShownTyped, CallsTyped
  <2>3. CASE ~open
    BY <1>1, <1>2, <1>5, <2>1, <2>3, PageStrict DEF Opened, page, ShownTyped, CallsTyped
  <2> QED
    BY <2>2, <2>3
<1>6. CASE OpenFails(o)
  <2>1. fails' \in 0 .. MaxFails /\ hole' \in BOOLEAN
    BY <1>6 DEF OpenFails, CallsTyped
  <2> QED
    BY <1>1, <1>2, <1>6, <2>1, PageStrict DEF OpenFails, page, ShownTyped, CallsTyped
<1> QED
  BY <1>3, <1>4, <1>5, <1>6

LEMMA AnswersStrict ==
  ASSUME Strict, NEW v \in answers, Answered(v) \/ AnswerFails(v)
  PROVE  Strict'
<1> USE DEF Strict
<1>1. /\ UNCHANGED <<hostState, link, drops, channel, opening>> /\ channel' \in Seq(Frames)
      /\ fails' \in 0 .. MaxFails /\ answers' \subseteq Versions \cup {None}
      /\ v \in Versions \cup {None}
  BY DEF Answered, AnswerFails, socket, SocketTyped, CallsTyped
<1>2. CASE UNCHANGED <<page, sync, hole>>
  BY <1>1, <1>2, PageStrict DEF page, ShownTyped, CallsTyped
<1>3. CASE /\ open /\ Touch(TRUE, FALSE) /\ hole' \in BOOLEAN
           /\ Show(v, stream) \/ Show(view, stream)
  <2>1. timer' \in BOOLEAN /\ sync' \in Syncs
    BY <1>3, TouchStrict
  <2> QED
    BY <1>1, <1>3, <2>1, PageStrict DEF Show, ShownTyped, CallsTyped
<1> QED
  BY <1>2, <1>3 DEF Answered, Edited, Renamed, AnswerFails

LEMMA CloseStrict ==
  ASSUME Strict, CloseChat
  PROVE  Strict'
BY ClearedStrict, PageStrict
DEF CloseChat, socket, Strict, SocketTyped, ShownTyped, CallsTyped

\* Whoever asks.
LEMMA AskStrict ==
  ASSUME Strict, Ask
  PROVE  sync' \in Syncs /\ hole' \in BOOLEAN
<1> DEFINE hv == view # None
<1>1. hv \in BOOLEAN
  OBVIOUS
<1>2. \/ sync' = [NoSync EXCEPT !.at = "asked", !.hadView = hv, !.stream = stream] /\ hole' = FALSE
      \/ UNCHANGED <<sync, hole>>
  BY DEF Ask
<1> HIDE DEF hv
<1> QED
  BY <1>1, <1>2 DEF NoSync, Syncs, Strict, ShownTyped, CallsTyped

LEMMA SyncsStrict ==
  ASSUME Strict, Silence \/ HostAnswersSync \/ Resynced \/ SyncFails
  PROVE  Strict'
<1> USE DEF Strict
<1>1. UNCHANGED <<hostState, link, drops, channel, opening, answers>> /\ channel' \in Seq(Frames)
  BY DEF Silence, HostAnswersSync, Resynced, SyncFails, socket, SocketTyped
<1>2. CASE Silence
  BY <1>1, <1>2, AskStrict, PageStrict DEF Silence, ShownTyped, CallsTyped
<1>3. CASE HostAnswersSync
  <2>1. sync' \in Syncs
    BY <1>3 DEF HostAnswersSync, Syncs, CallsTyped, HostTyped
  <2> QED
    BY <1>1, <1>3, <2>1, PageStrict DEF HostAnswersSync, page, ShownTyped, CallsTyped
<1>4. CASE Resynced \/ SyncFails
  <2>1. sync' \in Syncs /\ timer' \in BOOLEAN
    <3>1. sync' = NoSync /\ timer' = (stream' # None)
      BY <1>4 DEF Resynced, SyncFails, EndSync, Rearm
    <3>2. NoSync \in Syncs
      BY DEF NoSync, Syncs
    <3> QED
      BY <3>1, <3>2
  <2>2. fails' \in 0 .. MaxFails /\ hole' \in BOOLEAN
    BY <1>4 DEF Resynced, SyncFails, ShownTyped, CallsTyped
  <2>3. /\ open' = open /\ view' \in Versions \cup {None} /\ stream' \in Turns \cup {None}
        /\ ~open => view' = None /\ stream' = None
    BY <1>4 DEF Resynced, SyncFails, Unmoved, Show, ShownTyped, CallsTyped, Syncs
  <2> QED
    BY <1>1, <2>1, <2>2, <2>3, PageStrict DEF ShownTyped, CallsTyped
<1> QED
  BY <1>2, <1>3, <1>4

LEMMA LinkStrict ==
  ASSUME Strict, Drop \/ Closed \/ Reconnect \/ Connected
  PROVE  Strict'
<1> USE DEF Strict
<1>1. UNCHANGED <<hostState, open, view, stream, timer, opening, answers, fails>>
  BY DEF Drop, Closed, Reconnect, Connected, LinkOnly
<1>2. SocketTyped'
  <2>1. CASE Drop
    <3>1. drops' \in 0 .. MaxDrops /\ link' \in {"lost", "down"}
      <4>1. drops \in Nat /\ drops < MaxDrops /\ drops' = drops + 1
        BY <2>1 DEF Drop, SocketTyped
      <4> QED
        BY <2>1, <4>1 DEF Drop
    <3>2. channel \in Seq(Frames)
      BY DEF SocketTyped
    <3>3. \A k \in 0 .. Len(channel) : SubSeq(channel, 1, k) \in Seq(Frames)
      BY <3>2
    <3>4. channel' \in Seq(Frames)
      <4>1. << >> \in Seq(Frames)
        OBVIOUS
      <4> QED
        BY <2>1, <3>3, <4>1 DEF Drop
    <3> QED
      BY <3>1, <3>4 DEF SocketTyped
  <2>2. CASE Closed \/ Reconnect \/ Connected
    BY <2>2 DEF Closed, Reconnect, Connected, SocketTyped
  <2> QED
    BY <2>1, <2>2
<1>3. sync' \in Syncs /\ hole' \in BOOLEAN
  BY AskStrict DEF Drop, Closed, Reconnect, Connected, ShownTyped, CallsTyped
<1> QED
  BY <1>1, <1>2, <1>3 DEF HostTyped, ShownTyped, CallsTyped, hostState

LEMMA NextStrict ==
  ASSUME Strict, Counted, [Next]_vars
  PROVE  Strict' /\ Counted'
<1>1. CASE Host
  BY <1>1, HostCounts, HostStrict
<1>2. CASE ~Host /\ ~UNCHANGED vars
  <2>1. UNCHANGED hostState
    BY <1>2 DEF Next, Answers, Answered, AnswerFails, Deliver, HostAnswersSync, Resynced, HostAnswersOpen, Opened,
       Silence, OpenChat, OpenFails, CloseChat, SyncFails, Drop, Closed, Reconnect, Connected,
       LinkOnly
  <2>2. Counted'
    BY <2>1 DEF Counted, hostState
  <2> QED
    BY <1>2, <2>2, DeliverStrict, OpensStrict, AnswersStrict, CloseStrict, SyncsStrict, LinkStrict
    DEF Next, Answers
<1>3. CASE UNCHANGED vars
  BY <1>3 DEF vars, hostState, socket, page, Strict, HostTyped, SocketTyped, ShownTyped,
     CallsTyped, Counted
<1> QED
  BY <1>1, <1>2, <1>3

\* Views, turns and frames are of the log as it was counted: none is made up.
THEOREM TypeOKHolds == Spec => []TypeOK
<1>1. Strict => TypeOK
  BY StrictParts
<1> QED
  BY InitStrict, NextStrict, <1>1, PTL DEF Spec
===============================================================================
