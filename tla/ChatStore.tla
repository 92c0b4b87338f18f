------------------------------- MODULE ChatStore ------------------------------
(***************************************************************************)
(* The chat store, seen from one conversation: its file, the live entry    *)
(* the store answers with, the loads in flight, and the entries it let go  *)
(* of.  A request opens the chat, works on the entry for as long as it     *)
(* likes (a turn, an edit) and saves it; others delete the chat, restore a *)
(* snapshot over it, or move it to another parent.  Every await of the     *)
(* store is a place where another request may run.                         *)
(***************************************************************************)
EXTENDS Naturals

CONSTANTS
  Requests,  \* the requests that name this chat
  Offered,   \* the operations the clients use in this instance
  First,     \* the entry that may be cached when the story starts
  None       \* no entry, no load, no parent

Operations == {"edit", "relink", "delete", "restore"}

ASSUME ChatStoreAssumption ==
  /\ Offered \subseteq Operations
  /\ None \notin Requests \cup {First} \cup Operations
  /\ First \notin Requests

\* A request loads the chat at most once, so an entry is named by its loader.
Entries == Requests \cup {First}

(***************************************************************************)
(* What a chat file says, as far as the store can tell texts apart: the    *)
(* requests whose change is in it, and the parent its header names.        *)
(***************************************************************************)
Texts == [marks : SUBSET Requests, parent : Requests \cup {None}]
NoFile == [marks |-> {}, parent |-> "no such file"]
Original == [marks |-> {}, parent |-> None]
Snapshot(r) == [marks |-> {r}, parent |-> None]

VARIABLES
  file,        \* the chat's file, or NoFile
  answered,    \* ChatStore.#entries: the entry `open` answers with
  opening,     \* ChatStore.#opening: the request whose load is in flight
  retired,     \* ChatStore.#retired
  content,     \* what each entry holds
  op,          \* what each request asks for
  pc,          \* where each request is
  held,        \* the entry a request works on, or a delete let go of
  text,        \* what a request read, or projected for its save
  released,    \* history: requests whose entry was let go before they saved
  reinstated,  \* history: a failed unlink put an entry back
  overlapped   \* history: a save began while another was under way

store == <<file, answered, opening, retired, content>>
handler == <<op, pc, held, text>>
history == <<released, reinstated, overlapped>>
vars == <<store, handler, history>>

Places == {"new", "joined", "reading", "building", "holding", "ensuring",
           "writing", "saved", "unsaved", "unlinking", "deleted", "restoring",
           "announced", "rereading", "relinking", "relinked", "refused"}

TypeOK ==
  /\ file \in Texts \cup {NoFile}
  /\ answered \in Entries \cup {None}
  /\ opening \in Requests \cup {None}
  /\ retired \subseteq Entries
  /\ content \in [Entries -> Texts]
  /\ op \in [Requests -> Operations \cup {None}]
  /\ pc \in [Requests -> Places]
  /\ held \in [Requests -> Entries \cup {None}]
  /\ text \in [Requests -> Texts]
  /\ released \subseteq Requests
  /\ reinstated \in BOOLEAN /\ overlapped \in BOOLEAN

\* The chat is on disk, and may have been opened before.
Init ==
  /\ file = Original
  /\ answered \in {None, First}
  /\ opening = None
  /\ retired = {}
  /\ content = [e \in Entries |-> Original]
  /\ op = [r \in Requests |-> None]
  /\ pc = [r \in Requests |-> "new"]
  /\ held = [r \in Requests |-> None]
  /\ text = [r \in Requests |-> Original]
  /\ released = {}
  /\ reinstated = FALSE /\ overlapped = FALSE

Goto(r, place) == pc' = [pc EXCEPT ![r] = place]
Asks(r, what) == what \in Offered /\ pc[r] = "new" /\ op' = [op EXCEPT ![r] = what]
-------------------------------------------------------------------------------
(* open and #load.                                                           *)

\* Faulty variant: a load in flight is not shared.
OpenAlone(r) ==
  IF answered # None
  THEN Goto(r, "holding") /\ held' = [held EXCEPT ![r] = answered] /\ UNCHANGED opening
  ELSE Goto(r, "reading") /\ opening' = r /\ UNCHANGED held

\* open(): the cached entry, the load in flight, or a load of its own.
Open(r) ==
  \/ /\ answered # None
     /\ held' = [held EXCEPT ![r] = answered]
     /\ Goto(r, "holding")
     /\ UNCHANGED opening
  \/ /\ answered = None /\ opening # None
     /\ Goto(r, "joined")
     /\ UNCHANGED <<opening, held>>
  \/ /\ answered = None /\ opening = None
     /\ opening' = r
     /\ Goto(r, "reading")
     /\ UNCHANGED held

\* The load's own request and everyone who joined it.
Waiting(r) == {r} \cup {s \in Requests : pc[s] = "joined"}

StartEdit(r) ==
  /\ Asks(r, "edit")
  /\ Open(r)
  /\ UNCHANGED <<file, answered, retired, content, text, history>>

\* The file's text as it is when the read completes.
Read(r) ==
  /\ pc[r] = "reading" /\ file # NoFile
  /\ text' = [text EXCEPT ![r] = file]
  /\ Goto(r, "building")
  /\ UNCHANGED <<store, op, held, history>>

\* No such file: everyone waiting is refused, except a relink, which goes on
\* to read the file itself.
LoadFails(r) ==
  /\ pc[r] = "reading" /\ file = NoFile
  /\ opening' = None
  /\ pc' = [s \in Requests |->
              IF s \notin Waiting(r) THEN pc[s]
              ELSE IF op[s] = "relink" THEN "rereading" ELSE "refused"]
  /\ UNCHANGED <<file, answered, retired, content, op, held, text, history>>

\* The card, scripts and books are in: the entry is built and answered.
Loaded(r) ==
  /\ pc[r] = "building"
  /\ content' = [content EXCEPT ![r] = text[r]]
  /\ answered' = r
  /\ opening' = None
  /\ held' = [s \in Requests |-> IF s \in Waiting(r) THEN r ELSE held[s]]
  /\ pc' = [s \in Requests |-> IF s \in Waiting(r) THEN "holding" ELSE pc[s]]
  /\ UNCHANGED <<file, retired, op, text, history>>
-------------------------------------------------------------------------------
(* save.                                                                     *)

\* Faulty variant: an entry that was let go passes once its slot is empty.
IsLiveUnretired(e) == answered \in {None, e}

IsLive(e) == e \notin retired /\ answered \in {None, e}

Saving(r) == pc[r] \in {"ensuring", "writing"}

\* A save of e is refused, or goes on to wait for the directory.
BeginSave(r, e) ==
  /\ Goto(r, IF IsLive(e) THEN "ensuring" ELSE "unsaved")
  /\ overlapped' = (overlapped \/ \E s \in Requests : Saving(s))
  /\ UNCHANGED <<released, reinstated>>

\* A turn or an edit is done with the entry and saves it.
Edit(r) ==
  /\ pc[r] = "holding" /\ op[r] = "edit"
  /\ content' = [content EXCEPT ![held[r]].marks = @ \cup {r}]
  /\ BeginSave(r, held[r])
  /\ UNCHANGED <<file, answered, opening, retired, op, held, text>>

\* The directory exists; the entry is projected as it is now.
Project(r) ==
  /\ pc[r] = "ensuring"
  /\ text' = [text EXCEPT ![r] = content[held[r]]]
  /\ Goto(r, "writing")
  /\ UNCHANGED <<store, op, held, history>>

\* The temporary file is renamed over the chat's.
Written(r) ==
  /\ pc[r] = "writing"
  /\ file' = text[r]
  /\ Goto(r, "saved")
  /\ UNCHANGED <<answered, opening, retired, content, op, held, text, history>>

\* A write that throws leaves the file as it was.
WriteFails(r) ==
  /\ pc[r] \in {"writing", "restoring", "relinking"}
  /\ Goto(r, "refused")
  /\ UNCHANGED <<store, op, held, text, history>>
-------------------------------------------------------------------------------
(* delete and restoreFile.                                                   *)

\* #retire: the entry may write no more, and nothing answers for the chat.
Retire ==
  /\ answered' = None
  /\ retired' = retired \cup ({answered} \ {None})

\* The requests that still hold an entry and have not begun to save it.
Holders(e) == {s \in Requests : pc[s] = "holding" /\ held[s] = e}

StartDelete(r) ==
  /\ Asks(r, "delete")
  /\ Retire
  /\ held' = [held EXCEPT ![r] = answered]
  /\ released' = released \cup Holders(answered)
  /\ Goto(r, "unlinking")
  /\ UNCHANGED <<file, opening, content, text, reinstated, overlapped>>

Unlinked(r) ==
  /\ pc[r] = "unlinking" /\ file # NoFile
  /\ file' = NoFile
  /\ Goto(r, "deleted")
  /\ UNCHANGED <<answered, opening, retired, content, op, held, text, history>>

\* Faulty variant: the entry comes back and is still marked.
ReinstateMarked(e) == answered' = e /\ UNCHANGED retired

Reinstate(e) == answered' = e /\ retired' = retired \ {e}

\* The unlink throws, because the file is gone or the system refuses: the
\* entry the delete let go of comes back, whatever is answered by then.
UnlinkFails(r) ==
  /\ pc[r] = "unlinking"
  /\ IF held[r] # None
     THEN /\ Reinstate(held[r])
          /\ released' = released \ Holders(held[r])
          /\ reinstated' = TRUE
          /\ UNCHANGED overlapped
     ELSE UNCHANGED <<answered, retired, history>>
  /\ Goto(r, "refused")
  /\ UNCHANGED <<file, opening, content, op, held, text>>

\* backup.restore: the entry is let go before the snapshot is written.
StartRestore(r) ==
  /\ Asks(r, "restore")
  /\ Retire
  /\ released' = released \cup Holders(answered)
  /\ Goto(r, "restoring")
  /\ UNCHANGED <<file, opening, content, held, text, reinstated, overlapped>>

\* The snapshot is on disk; the arm opens the chat to show it.
Restored(r) ==
  /\ pc[r] = "restoring"
  /\ file' = Snapshot(r)
  /\ Open(r)
  /\ UNCHANGED <<answered, retired, content, op, text, history>>

\* The view of the entry is broadcast to the pages.
Announce(r) ==
  /\ pc[r] = "holding" /\ op[r] = "restore"
  /\ Goto(r, "announced")
  /\ UNCHANGED <<store, op, held, text, history>>
-------------------------------------------------------------------------------
(* relink: the header's parent changes, in the entry or else in the file.    *)

StartRelink(r) ==
  /\ Asks(r, "relink")
  /\ CASE answered # None -> /\ content' = [content EXCEPT ![answered].parent = r]
                             /\ held' = [held EXCEPT ![r] = answered]
                             /\ BeginSave(r, answered)
       [] answered = None /\ opening # None ->
            Goto(r, "joined") /\ UNCHANGED <<content, held, history>>
       [] OTHER -> Goto(r, "rereading") /\ UNCHANGED <<content, held, history>>
  /\ UNCHANGED <<file, answered, opening, retired, text>>

\* The load it joined is in.
RelinkEntry(r) ==
  /\ pc[r] = "holding" /\ op[r] = "relink"
  /\ content' = [content EXCEPT ![held[r]].parent = r]
  /\ BeginSave(r, held[r])
  /\ UNCHANGED <<file, answered, opening, retired, op, held, text>>

RelinkReads(r) ==
  /\ pc[r] = "rereading"
  /\ IF file = NoFile
     THEN Goto(r, "refused") /\ UNCHANGED text
     ELSE /\ text' = [text EXCEPT ![r] = [file EXCEPT !.parent = r]]
          /\ Goto(r, "relinking")
  /\ UNCHANGED <<store, op, held, history>>

RelinkWritten(r) ==
  /\ pc[r] = "relinking"
  /\ file' = text[r]
  /\ Goto(r, "relinked")
  /\ UNCHANGED <<answered, opening, retired, content, op, held, text, history>>
-------------------------------------------------------------------------------
Step(r) ==
  \/ StartEdit(r) \/ StartDelete(r) \/ StartRestore(r) \/ StartRelink(r)
  \/ Read(r) \/ LoadFails(r) \/ Loaded(r)
  \/ Edit(r) \/ Project(r) \/ Written(r) \/ WriteFails(r)
  \/ Unlinked(r) \/ UnlinkFails(r) \/ Restored(r) \/ Announce(r)
  \/ RelinkEntry(r) \/ RelinkReads(r) \/ RelinkWritten(r)

Next == \E r \in Requests : Step(r)

Spec == Init /\ [][Next]_vars
-------------------------------------------------------------------------------
(* What the store promises.                                                  *)

\* The busy guard lives on the entry, so two requests that work on the chat
\* must share one: whoever holds an entry that was not let go holds the one
\* the store answers with.  A failed unlink may put an older entry back.
OneEntryAnswers ==
  ~reinstated =>
    \A r \in Requests :
      pc[r] \in {"holding", "ensuring"} /\ held[r] \notin retired => held[r] = answered

\* The entry the store answers with may write: a delete that failed took back
\* everything it let go of.
AnsweredMayWrite == answered \notin retired

\* A turn that still held the entry when the chat was deleted or restored
\* under it, and had not begun to save, never writes the file.
ReleasedNeverWrite ==
  [][\A r \in released : ~(pc[r] = "writing" /\ pc'[r] = "saved")]_vars

\* As long as nobody deletes or restores the chat, a change whose save was
\* acknowledged is in the conversation every later request is shown.
EditsAreKept ==
  (\A s \in Requests : op[s] \notin {"delete", "restore"}) =>
    \A r \in Requests :
      op[r] = "edit" /\ pc[r] = "saved" => r \in content[answered].marks

\* save: as long as no save overlaps another and nothing else writes the file,
\* a reader of the file sees every change that was acknowledged.
AcknowledgedIsOnDisk ==
  ~overlapped /\ (\A s \in Requests : op[s] \in {None, "edit"}) =>
    \A r \in Requests : pc[r] = "saved" => r \in file.marks
===============================================================================
