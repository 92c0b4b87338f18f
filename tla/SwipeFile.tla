------------------------------- MODULE SwipeFile -------------------------------
(***************************************************************************)
(* The chat file: a session log written as SillyTavern lines (one line per *)
(* user message, one per turn's reply with all its readings) and read back *)
(* into a fresh log.  Loading a conversation, every edit, and a reply that *)
(* is trimmed before it is stored go through this projection.              *)
(***************************************************************************)
EXTENDS Swipes, FiniteSets

\* A line: whose it is, its readings in order, and swipe_id counted from 0.
FileLine(user, swipes, id) == [user |-> user, swipes |-> swipes, id |-> id]

EmptySession == [log |-> << >>, surface |-> << >>]

\* Events of the log, oldest first.
InOrder(S) ==
  [k \in 1 .. Cardinality(S) |-> CHOOSE i \in S : Cardinality({j \in S : j <= i}) = k]

SwipeId(s, t) == Cardinality({i \in Candidates(s, t) : i < Selected(s, t)})

\* exportMessages: one line per turn, where its first reading stands.
Heads(s) ==
  {i \in DOMAIN s.log :
     \/ s.log[i].type = "user"
     \/ s.log[i].type = "reply" /\ \A j \in Replies(s, s.log[i].turn) : i <= j}

LineAt(s, i) ==
  LET t == s.log[i].turn
      swipes == InOrder(Candidates(s, t))
  IN IF s.log[i].type = "user" THEN FileLine(TRUE, <<s.log[i].text>>, 0)
     ELSE FileLine(FALSE, [k \in DOMAIN swipes |-> s.log[swipes[k]].text], SwipeId(s, t))

Export(s) ==
  LET heads == InOrder(Heads(s)) IN [k \in DOMAIN heads |-> LineAt(s, heads[k])]
-------------------------------------------------------------------------------
\* The session after each reading of a line: they become candidates, in order.
Growing(s, t, texts) ==
  LET grown[k \in 0 .. Len(texts)] ==
        IF k = 0 THEN s ELSE AppendCandidate(grown[k - 1], t, texts[k])
  IN grown

WithReadings(s, t, texts) == Growing(s, t, texts)[Len(texts)]

\* Faulty variant: swipe_id is not read.
ImportLineUnselected(read, line) ==
  IF line.user THEN [read EXCEPT !.s = Surfaced(@, User(read.turn, line.swipes[1]))]
  ELSE [s |-> WithReadings(read.s, read.turn, line.swipes), turn |-> read.turn + 1]

\* One line of importChat: the reading at swipe_id is selected unless it is the
\* last, and a reply closes the turn.
ImportLine(read, line) ==
  IF line.user THEN [read EXCEPT !.s = Surfaced(@, User(read.turn, line.swipes[1]))]
  ELSE
    LET t == read.turn
        s == WithReadings(read.s, t, line.swipes)
    IN [s |-> IF line.id < Len(line.swipes) - 1
              THEN Select(s, t, InOrder(Candidates(s, t))[line.id + 1])
              ELSE s,
        turn |-> t + 1]

\* What has been read after each line of the file.
Reading(lines) ==
  LET read[k \in 0 .. Len(lines)] ==
        IF k = 0 THEN [s |-> EmptySession, turn |-> 0]
        ELSE ImportLine(read[k - 1], lines[k])
  IN read

Import(lines) == Reading(lines)[Len(lines)].s
-------------------------------------------------------------------------------
\* ChatStore.#load, and ChatEntry.rebuild with its lines unchanged.
Reload ==
  /\ session' = Import(Export(session))
  /\ UNCHANGED made

\* Faulty variant: the text goes to the reading the file would list first.
RewrittenFirst(lines, x) ==
  LET last == lines[Len(lines)] IN
  IF last.user THEN lines ELSE [lines EXCEPT ![Len(lines)].swipes[1] = x]

\* #storeRewritten: the selected reading of the last line gets the new text.
Rewritten(lines, x) ==
  LET last == lines[Len(lines)]
      swipes == [last.swipes EXCEPT ![last.id + 1] = x]
  IN IF last.user THEN lines
     ELSE [lines EXCEPT ![Len(lines)] = FileLine(FALSE, swipes, last.id)]

\* A reply that #settle trims, or a permanent script rewrites.
GenerateTrimmed ==
  /\ Room
  /\ LastTurn(session) >= 0
  /\ LET s == AppendCandidate(session, LastTurn(session), made + 1)
     IN session' = Import(Rewritten(Export(s), made + 2))
  /\ made' = made + 2

FileNext == Next \/ Reload \/ GenerateTrimmed

FileSpec == Init /\ [][FileNext]_vars
-------------------------------------------------------------------------------
\* Saving and loading a conversation and saving it again writes the same file:
\* no reading, no user line and no selection is lost or moved between turns.
RoundTrip == Export(Import(Export(session))) = Export(session)
===============================================================================
