-------------------------------- MODULE Swipes --------------------------------
(***************************************************************************)
(* Alternate replies ("swipes") over the append-only session log of one    *)
(* conversation: every reading of a turn is an event of the log, and the   *)
(* surface, which is what the model is sent, carries one of them per turn. *)
(***************************************************************************)
EXTENDS Integers, Sequences

CONSTANTS
  Greetings,  \* how many greetings a card may have
  MaxEvents   \* bound: the longest log that is explored

ASSUME SwipesAssumption == Greetings \subseteq Nat /\ MaxEvents \in Nat

VARIABLES
  session,  \* the log and its surface: [log, surface]
  made      \* how many texts were written so far; a text is its number

vars == <<session, made>>
-------------------------------------------------------------------------------
(* The log. An event's seq is its position; the surface is a list of seqs.   *)

Event == [type : {"user", "reply", "select"}, turn : Nat, text : Nat,
          of : Nat, at : Nat]
User(t, x) == [type |-> "user", turn |-> t, text |-> x, of |-> 0, at |-> 0]
Reply(t, x) == [type |-> "reply", turn |-> t, text |-> x, of |-> 0, at |-> 0]
Pick(t, of, at) == [type |-> "select", turn |-> t, text |-> 0, of |-> of, at |-> at]

Newest(S) == CHOOSE i \in S : \A j \in S : j <= i

\* assistantEventsOfTurn, and the selections recorded for a turn.
Replies(s, t) == {i \in DOMAIN s.log : s.log[i].type = "reply" /\ s.log[i].turn = t}
Picks(s, t) == {i \in DOMAIN s.log : s.log[i].type = "select" /\ s.log[i].turn = t}

\* materializedSeqs: appearances of an earlier reading, not readings themselves.
Materialized(s, t) == {s.log[i].at : i \in Picks(s, t)}

\* listCandidates, oldest first by seq.
Candidates(s, t) == Replies(s, t) \ Materialized(s, t)

\* Faulty variant: the recorded selections are not looked at.
SelectedNewest(s, t) == Newest(Candidates(s, t))

\* selectedCandidate: the last selection wins; with none, the newest reading.
Selected(s, t) ==
  IF Picks(s, t) # {} /\ s.log[Newest(Picks(s, t))].of \in Candidates(s, t)
  THEN s.log[Newest(Picks(s, t))].of
  ELSE Newest(Candidates(s, t))

\* surfaceSeqOfTurn, by position on the surface.
Nodes(s, t) == {p \in DOMAIN s.surface : s.surface[p] \in Replies(s, t)}

LastTurn(s) ==
  IF s.log = << >> THEN -1
  ELSE Newest({s.log[i].turn : i \in DOMAIN s.log})
-------------------------------------------------------------------------------
(* Session.append with its surface operation.                                *)

Surfaced(s, e) ==
  [log |-> Append(s.log, e), surface |-> Append(s.surface, Len(s.log) + 1)]

Shadowing(s, e, p) ==
  [log |-> Append(s.log, e), surface |-> [s.surface EXCEPT ![p] = Len(s.log) + 1]]

\* Faulty variant: the new reading is put behind the one it supersedes.
AppendUnshadowed(s, t, x) == Surfaced(s, Reply(t, x))

AppendCandidate(s, t, x) ==
  IF Nodes(s, t) = {} THEN Surfaced(s, Reply(t, x))
  ELSE Shadowing(s, Reply(t, x), Newest(Nodes(s, t)))

\* Faulty variant: the new appearance goes to the end.
SelectAtEnd(s, t, c) ==
  LET rest == [s EXCEPT !.surface = SelectSeq(@, LAMBDA n : n \notin Replies(s, t))]
      shown == Surfaced(rest, Reply(t, s.log[c].text))
  IN [shown EXCEPT !.log = Append(@, Pick(t, c, Len(shown.log)))]

\* selectCandidate, once it has something to do: surface nodes are shadowed,
\* never revived, so the chosen text is appended again.
Select(s, t, c) ==
  LET shown == Shadowing(s, Reply(t, s.log[c].text), Newest(Nodes(s, t)))
  IN [shown EXCEPT !.log = Append(@, Pick(t, c, Len(shown.log)))]

\* seedGreeting: one reading per greeting, the first put back in front.
Seeded(k) ==
  [log |-> [i \in 1 .. k |-> Reply(0, i)]
             \o (IF k > 1 THEN <<Reply(0, 1), Pick(0, 1, k + 1)>> ELSE << >>),
   surface |-> IF k = 0 THEN << >> ELSE IF k = 1 THEN <<1>> ELSE <<k + 1>>]
-------------------------------------------------------------------------------
TypeOK ==
  /\ session \in [log : Seq(Event), surface : Seq(Nat)]
  /\ \A p \in DOMAIN session.surface : session.surface[p] \in DOMAIN session.log
  /\ made \in Nat

Init ==
  \E k \in Greetings : session = Seeded(k) /\ made = k

Room == Len(session.log) + 2 <= MaxEvents

\* driver.send and recordImpersonation: a user line opens a turn.
OpenTurn ==
  /\ Room
  /\ session' = Surfaced(session, User(LastTurn(session) + 1, made + 1))
  /\ made' = made + 1

\* The reply of a send, a regenerate, a continue, or a stopped partial.
Generate ==
  /\ Room
  /\ LastTurn(session) >= 0
  /\ session' = AppendCandidate(session, LastTurn(session), made + 1)
  /\ made' = made + 1

\* chat.swipe: any turn; choosing the current reading does nothing.
Swipe(t) ==
  /\ Room
  /\ Nodes(session, t) # {}
  /\ \E c \in Candidates(session, t) :
       /\ c # Selected(session, t)
       /\ session' = Select(session, t, c)
  /\ UNCHANGED made

Next == OpenTurn \/ Generate \/ \E t \in 0 .. LastTurn(session) : Swipe(t)

Spec == Init /\ [][Next]_vars
-------------------------------------------------------------------------------
(* What the log promises.                                                    *)

\* The model sees exactly one reply per turn that has one, however often the
\* turn was rerolled or swiped.
OneReplyPerTurn ==
  \A i \in DOMAIN session.log :
    session.log[i].type = "reply" =>
      \E p \in Nodes(session, session.log[i].turn) :
        Nodes(session, session.log[i].turn) = {p}

\* The surface is in conversation order: a swipe of an old turn replaces its
\* reply in place and moves no later turn.
SurfaceInOrder ==
  \A p, q \in DOMAIN session.surface :
    p <= q => session.log[session.surface[p]].turn <= session.log[session.surface[q]].turn

\* Until a turn is rerolled after a swipe, the reading the page lists as
\* selected is the one the model is sent.
SelectionShown ==
  \A t \in 0 .. LastTurn(session) :
    \A p \in Nodes(session, t) :
      (Picks(session, t) = {}
         \/ \A i \in Replies(session, t) : i < Newest(Picks(session, t)))
        => session.log[session.surface[p]].text
             = session.log[Selected(session, t)].text

\* A continue or a reroll of a turn nobody swiped leaves every earlier reading
\* swipable, whatever is trimmed from the new one.
EarlierReadingsStay ==
  [][Picks(session, LastTurn(session)) = {} =>
     \A t \in 0 .. LastTurn(session) :
       \A c \in Candidates(session, t) :
         \E u \in 0 .. LastTurn(session') : \E d \in Candidates(session', u) :
           session'.log[d].text = session.log[c].text]_vars
===============================================================================
