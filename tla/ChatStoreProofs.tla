---------------------------- MODULE ChatStoreProofs ---------------------------
(* Theorems about ChatStore, for any number of requests.                     *)
EXTENDS ChatStore, TLAPS

\* A request that may still load the chat has made no entry yet.
Unmade == {"new", "restoring", "reading", "building"}

Fresh ==
  \A r \in Requests :
    pc[r] \in Unmade =>
      /\ r \notin retired
      /\ r # answered
      /\ \A s \in Requests : held[s] # r

\* Only one load is ever in flight, and then nothing is answered.
OneLoad ==
  /\ \A r \in Requests : pc[r] \in {"reading", "building"} => opening = r
  /\ opening # None /\ ~reinstated => answered = None

HoldersHold == \A r \in Requests : pc[r] \in {"holding", "ensuring"} => held[r] # None

ReleasedAreRetired ==
  \A r \in released :
    /\ pc[r] \in {"holding", "unsaved", "announced"}
    /\ pc[r] = "holding" => held[r] \in retired

Safe == OneEntryAnswers /\ AnsweredMayWrite /\ ReleasedAreRetired

(***************************************************************************)
(* For the two promises about changes: as long as nobody deletes or        *)
(* restores the chat, everyone works on the entry that is answered, and it *)
(* holds every change whose save has begun.  A change is on disk because a *)
(* save that overlaps no other projects all that was acknowledged before.  *)
(***************************************************************************)
Calm == \A s \in Requests : op[s] \notin {"delete", "restore"}
Alone == ~overlapped /\ \A s \in Requests : op[s] \in {None, "edit"}

Asked == \A r \in Requests : pc[r] = "new" <=> op[r] = None

Working == {"holding", "ensuring", "writing", "saved"}

EntryKept ==
  Calm =>
    /\ retired = {} /\ ~reinstated
    /\ \A r \in Requests : pc[r] \notin {"unlinking", "deleted", "restoring", "announced"}
    /\ \A r \in Requests : pc[r] \in Working => answered # None /\ held[r] = answered
    /\ \A r \in Requests : op[r] = "edit" /\ pc[r] \in Working \ {"holding"} =>
         r \in content[answered].marks

FileKept ==
  Alone =>
    /\ \A r \in Requests : pc[r] \notin {"rereading", "relinking", "relinked"}
    /\ \A r, s \in Requests : Saving(r) /\ Saving(s) => r = s
    /\ \A r \in Requests : pc[r] = "saved" => r \in file.marks
    /\ \A r, s \in Requests : pc[r] = "writing" /\ (pc[s] = "saved" \/ s = r) =>
         s \in text[r].marks

Kept == Asked /\ EntryKept /\ FileKept

IInv == TypeOK /\ Fresh /\ OneLoad /\ HoldersHold /\ Safe

USE ChatStoreAssumption DEF Entries

LEMMA TextsTyped ==
  /\ Original \in Texts
  /\ \A r \in Requests : Snapshot(r) \in Texts
  /\ \A t \in Texts, r \in Requests :
       /\ [t EXCEPT !.marks = @ \cup {r}] \in Texts
       /\ [t EXCEPT !.parent = r] \in Texts
BY DEF Original, Texts, Snapshot

LEMMA InitInv == Init => IInv
<1> SUFFICES ASSUME Init PROVE IInv
  OBVIOUS
<1> USE DEF Init
<1>1. TypeOK
  BY TextsTyped DEF TypeOK, Places
<1>2. Fresh
  BY DEF Fresh
<1>3. OneLoad /\ HoldersHold
  BY DEF OneLoad, HoldersHold
<1>4. Safe
  BY DEF Safe, OneEntryAnswers, AnsweredMayWrite, ReleasedAreRetired
<1> QED BY <1>1, <1>2, <1>3, <1>4 DEF IInv
-------------------------------------------------------------------------------
(* Every step keeps the invariant; one lemma per part.                       *)

LEMMA StepTyped ==
  ASSUME TypeOK, HoldersHold, NEW r \in Requests, Step(r)
  PROVE  TypeOK'
<1> USE TextsTyped
<1> USE DEF TypeOK, HoldersHold, Places, store, handler, history
<1>1. CASE StartEdit(r)
  <2>1. pc' \in [Requests -> Places] /\ op' \in [Requests -> Operations \cup {None}]
    BY <1>1 DEF StartEdit, Asks, Open, Goto
  <2>2. held' \in [Requests -> Entries \cup {None}]
    BY <1>1 DEF StartEdit, Open
  <2>3. opening' \in Requests \cup {None}
    BY <1>1 DEF StartEdit, Open
  <2> QED
    BY <1>1, <2>1, <2>2, <2>3 DEF StartEdit
<1>2. CASE Read(r)
  BY <1>2 DEF Read, Goto
<1>3. CASE LoadFails(r)
  BY <1>3 DEF LoadFails, Waiting
<1>4. CASE Loaded(r)
  BY <1>4 DEF Loaded, Waiting
<1>5. CASE Edit(r)
  <2>1. content' \in [Entries -> Texts]
    BY <1>5 DEF Edit
  <2> QED
    BY <1>5, <2>1 DEF Edit, BeginSave, IsLive, Goto
<1>6. CASE Project(r)
  BY <1>6 DEF Project, Goto
<1>7. CASE Written(r)
  BY <1>7 DEF Written, Goto
<1>8. CASE WriteFails(r)
  BY <1>8 DEF WriteFails, Goto
<1>9. CASE StartDelete(r)
  BY <1>9 DEF StartDelete, Asks, Retire, Holders, Goto
<1>10. CASE Unlinked(r)
  BY <1>10 DEF Unlinked, Goto
<1>11. CASE UnlinkFails(r)
  BY <1>11 DEF UnlinkFails, Reinstate, Holders, Goto
<1>12. CASE StartRestore(r)
  BY <1>12 DEF StartRestore, Asks, Retire, Holders, Goto
<1>13. CASE Restored(r)
  <2>1. /\ file' \in Texts \cup {NoFile}
        /\ opening' \in Requests \cup {None}
        /\ held' \in [Requests -> Entries \cup {None}]
    BY <1>13 DEF Restored, Open, Goto
  <2>2. pc' \in [Requests -> Places]
    BY <1>13 DEF Restored, Open, Goto
  <2> QED
    BY <1>13, <2>1, <2>2 DEF Restored
<1>14. CASE Announce(r)
  BY <1>14 DEF Announce, Goto
<1>15. CASE StartRelink(r)
  <2>1. content' \in [Entries -> Texts]
    <3>1. CASE answered = None
      BY <1>15, <3>1 DEF StartRelink
    <3>2. CASE answered # None
      <4>1. answered \in Entries /\ content[answered] \in Texts
        BY <3>2
      <4>2. [content[answered] EXCEPT !.parent = r] \in Texts
        BY <4>1
      <4>3. content' = [content EXCEPT ![answered].parent = r]
        BY <1>15, <3>2 DEF StartRelink
      <4> QED
        BY <4>1, <4>2, <4>3
    <3> QED
      BY <3>1, <3>2
  <2>2. held' \in [Requests -> Entries \cup {None}]
    BY <1>15 DEF StartRelink
  <2>3. pc' \in [Requests -> Places] /\ op' \in [Requests -> Operations \cup {None}]
    BY <1>15 DEF StartRelink, Asks, BeginSave, IsLive, Goto
  <2>4. released' = released /\ reinstated' = reinstated /\ overlapped' \in BOOLEAN
    BY <1>15 DEF StartRelink, BeginSave
  <2> QED
    BY <1>15, <2>1, <2>2, <2>3, <2>4 DEF StartRelink
<1>16. CASE RelinkEntry(r)
  <2>1. content' \in [Entries -> Texts]
    BY <1>16 DEF RelinkEntry
  <2>2. pc' \in [Requests -> Places] /\ overlapped' \in BOOLEAN
    BY <1>16 DEF RelinkEntry, BeginSave, IsLive, Goto
  <2> QED
    BY <1>16, <2>1, <2>2 DEF RelinkEntry, BeginSave
<1>17. CASE RelinkReads(r)
  <2>1. text' \in [Requests -> Texts]
    <3>1. CASE file = NoFile
      BY <1>17, <3>1 DEF RelinkReads
    <3>2. CASE file # NoFile
      <4>1. [file EXCEPT !.parent = r] \in Texts
        BY <3>2
      <4>2. text' = [text EXCEPT ![r] = [file EXCEPT !.parent = r]]
        BY <1>17, <3>2 DEF RelinkReads
      <4> QED
        BY <4>1, <4>2
    <3> QED
      BY <3>1, <3>2
  <2> QED
    BY <1>17, <2>1 DEF RelinkReads, Goto
<1>18. CASE RelinkWritten(r)
  BY <1>18 DEF RelinkWritten, Goto
<1> QED
  BY <1>1, <1>2, <1>3, <1>4, <1>5, <1>6, <1>7, <1>8, <1>9, <1>10, <1>11, <1>12, <1>13, <1>14, <1>15, <1>16, <1>17, <1>18 DEF Step

LEMMA StepFresh ==
  ASSUME IInv, NEW r \in Requests, Step(r)
  PROVE  Fresh'
<1> USE DEF IInv, TypeOK, Fresh, OneLoad, Unmade, store, handler, history
<1>1. CASE StartEdit(r)
  BY <1>1 DEF StartEdit, Asks, Open, Goto
<1>2. CASE Read(r)
  BY <1>2 DEF Read, Goto
<1>3. CASE LoadFails(r)
  BY <1>3 DEF LoadFails, Waiting
<1>4. CASE Loaded(r)
  BY <1>4 DEF Loaded, Waiting
<1>5. CASE Edit(r)
  BY <1>5 DEF Edit, BeginSave, IsLive, Goto
<1>6. CASE Project(r)
  BY <1>6 DEF Project, Goto
<1>7. CASE Written(r)
  BY <1>7 DEF Written, Goto
<1>8. CASE WriteFails(r)
  BY <1>8 DEF WriteFails, Goto
<1>9. CASE StartDelete(r)
  BY <1>9 DEF StartDelete, Asks, Retire, Holders, Goto
<1>10. CASE Unlinked(r)
  BY <1>10 DEF Unlinked, Goto
<1>11. CASE UnlinkFails(r)
  BY <1>11 DEF UnlinkFails, Reinstate, Holders, Goto
<1>12. CASE StartRestore(r)
  BY <1>12 DEF StartRestore, Asks, Retire, Holders, Goto
<1>13. CASE Restored(r)
  BY <1>13 DEF Restored, Open, Goto
<1>14. CASE Announce(r)
  BY <1>14 DEF Announce, Goto
<1>15. CASE StartRelink(r)
  BY <1>15 DEF StartRelink, Asks, BeginSave, IsLive, Goto
<1>16. CASE RelinkEntry(r)
  BY <1>16 DEF RelinkEntry, BeginSave, IsLive, Goto
<1>17. CASE RelinkReads(r)
  BY <1>17 DEF RelinkReads, Goto
<1>18. CASE RelinkWritten(r)
  BY <1>18 DEF RelinkWritten, Goto
<1> QED
  BY <1>1, <1>2, <1>3, <1>4, <1>5, <1>6, <1>7, <1>8, <1>9, <1>10, <1>11, <1>12, <1>13, <1>14, <1>15, <1>16, <1>17, <1>18 DEF Step

LEMMA StepOneLoad ==
  ASSUME IInv, NEW r \in Requests, Step(r)
  PROVE  OneLoad'
<1> USE DEF IInv, TypeOK, OneLoad, store, handler, history
<1>1. CASE StartEdit(r)
  BY <1>1 DEF StartEdit, Asks, Open, Goto
<1>2. CASE Read(r)
  BY <1>2 DEF Read, Goto
<1>3. CASE LoadFails(r)
  BY <1>3 DEF LoadFails, Waiting
<1>4. CASE Loaded(r)
  BY <1>4 DEF Loaded, Waiting
<1>5. CASE Edit(r)
  BY <1>5 DEF Edit, BeginSave, IsLive, Goto
<1>6. CASE Project(r)
  BY <1>6 DEF Project, Goto
<1>7. CASE Written(r)
  BY <1>7 DEF Written, Goto
<1>8. CASE WriteFails(r)
  BY <1>8 DEF WriteFails, Goto
<1>9. CASE StartDelete(r)
  BY <1>9 DEF StartDelete, Asks, Retire, Holders, Goto
<1>10. CASE Unlinked(r)
  BY <1>10 DEF Unlinked, Goto
<1>11. CASE UnlinkFails(r)
  BY <1>11 DEF UnlinkFails, Reinstate, Holders, Goto
<1>12. CASE StartRestore(r)
  BY <1>12 DEF StartRestore, Asks, Retire, Holders, Goto
<1>13. CASE Restored(r)
  BY <1>13 DEF Restored, Open, Goto
<1>14. CASE Announce(r)
  BY <1>14 DEF Announce, Goto
<1>15. CASE StartRelink(r)
  BY <1>15 DEF StartRelink, Asks, BeginSave, IsLive, Goto
<1>16. CASE RelinkEntry(r)
  BY <1>16 DEF RelinkEntry, BeginSave, IsLive, Goto
<1>17. CASE RelinkReads(r)
  BY <1>17 DEF RelinkReads, Goto
<1>18. CASE RelinkWritten(r)
  BY <1>18 DEF RelinkWritten, Goto
<1> QED
  BY <1>1, <1>2, <1>3, <1>4, <1>5, <1>6, <1>7, <1>8, <1>9, <1>10, <1>11, <1>12, <1>13, <1>14, <1>15, <1>16, <1>17, <1>18 DEF Step

LEMMA StepHoldersHold ==
  ASSUME IInv, NEW r \in Requests, Step(r)
  PROVE  HoldersHold'
<1> USE DEF IInv, TypeOK, HoldersHold, store, handler, history
<1>1. CASE StartEdit(r)
  BY <1>1 DEF StartEdit, Asks, Open, Goto
<1>2. CASE Read(r)
  BY <1>2 DEF Read, Goto
<1>3. CASE LoadFails(r)
  BY <1>3 DEF LoadFails, Waiting
<1>4. CASE Loaded(r)
  BY <1>4 DEF Loaded, Waiting
<1>5. CASE Edit(r)
  BY <1>5 DEF Edit, BeginSave, IsLive, Goto
<1>6. CASE Project(r)
  BY <1>6 DEF Project, Goto
<1>7. CASE Written(r)
  BY <1>7 DEF Written, Goto
<1>8. CASE WriteFails(r)
  BY <1>8 DEF WriteFails, Goto
<1>9. CASE StartDelete(r)
  BY <1>9 DEF StartDelete, Asks, Retire, Holders, Goto
<1>10. CASE Unlinked(r)
  BY <1>10 DEF Unlinked, Goto
<1>11. CASE UnlinkFails(r)
  BY <1>11 DEF UnlinkFails, Reinstate, Holders, Goto
<1>12. CASE StartRestore(r)
  BY <1>12 DEF StartRestore, Asks, Retire, Holders, Goto
<1>13. CASE Restored(r)
  BY <1>13 DEF Restored, Open, Goto
<1>14. CASE Announce(r)
  BY <1>14 DEF Announce, Goto
<1>15. CASE StartRelink(r)
  BY <1>15 DEF StartRelink, Asks, BeginSave, IsLive, Goto
<1>16. CASE RelinkEntry(r)
  BY <1>16 DEF RelinkEntry, BeginSave, IsLive, Goto
<1>17. CASE RelinkReads(r)
  BY <1>17 DEF RelinkReads, Goto
<1>18. CASE RelinkWritten(r)
  BY <1>18 DEF RelinkWritten, Goto
<1> QED
  BY <1>1, <1>2, <1>3, <1>4, <1>5, <1>6, <1>7, <1>8, <1>9, <1>10, <1>11, <1>12, <1>13, <1>14, <1>15, <1>16, <1>17, <1>18 DEF Step

LEMMA StepOneEntryAnswers ==
  ASSUME IInv, NEW r \in Requests, Step(r)
  PROVE  OneEntryAnswers'
<1> USE DEF IInv, TypeOK, OneLoad, HoldersHold, Safe, OneEntryAnswers, store, handler, history
<1>1. CASE StartEdit(r)
  BY <1>1 DEF StartEdit, Asks, Open, Goto
<1>2. CASE Read(r)
  BY <1>2 DEF Read, Goto
<1>3. CASE LoadFails(r)
  BY <1>3 DEF LoadFails, Waiting
<1>4. CASE Loaded(r)
  BY <1>4 DEF Loaded, Waiting
<1>5. CASE Edit(r)
  BY <1>5 DEF Edit, BeginSave, IsLive, Goto
<1>6. CASE Project(r)
  BY <1>6 DEF Project, Goto
<1>7. CASE Written(r)
  BY <1>7 DEF Written, Goto
<1>8. CASE WriteFails(r)
  BY <1>8 DEF WriteFails, Goto
<1>9. CASE StartDelete(r)
  BY <1>9 DEF StartDelete, Asks, Retire, Holders, Goto
<1>10. CASE Unlinked(r)
  BY <1>10 DEF Unlinked, Goto
<1>11. CASE UnlinkFails(r)
  BY <1>11 DEF UnlinkFails, Reinstate, Holders, Goto
<1>12. CASE StartRestore(r)
  BY <1>12 DEF StartRestore, Asks, Retire, Holders, Goto
<1>13. CASE Restored(r)
  BY <1>13 DEF Restored, Open, Goto
<1>14. CASE Announce(r)
  BY <1>14 DEF Announce, Goto
<1>15. CASE StartRelink(r)
  BY <1>15 DEF StartRelink, Asks, BeginSave, IsLive, Goto
<1>16. CASE RelinkEntry(r)
  BY <1>16 DEF RelinkEntry, BeginSave, IsLive, Goto
<1>17. CASE RelinkReads(r)
  BY <1>17 DEF RelinkReads, Goto
<1>18. CASE RelinkWritten(r)
  BY <1>18 DEF RelinkWritten, Goto
<1> QED
  BY <1>1, <1>2, <1>3, <1>4, <1>5, <1>6, <1>7, <1>8, <1>9, <1>10, <1>11, <1>12, <1>13, <1>14, <1>15, <1>16, <1>17, <1>18 DEF Step

LEMMA StepAnsweredMayWrite ==
  ASSUME IInv, NEW r \in Requests, Step(r)
  PROVE  AnsweredMayWrite'
<1> USE DEF IInv, TypeOK, Fresh, Unmade, HoldersHold, Safe, AnsweredMayWrite, store, handler, history
<1>1. CASE StartEdit(r)
  BY <1>1 DEF StartEdit, Asks, Open, Goto
<1>2. CASE Read(r)
  BY <1>2 DEF Read, Goto
<1>3. CASE LoadFails(r)
  BY <1>3 DEF LoadFails, Waiting
<1>4. CASE Loaded(r)
  BY <1>4 DEF Loaded, Waiting
<1>5. CASE Edit(r)
  BY <1>5 DEF Edit, BeginSave, IsLive, Goto
<1>6. CASE Project(r)
  BY <1>6 DEF Project, Goto
<1>7. CASE Written(r)
  BY <1>7 DEF Written, Goto
<1>8. CASE WriteFails(r)
  BY <1>8 DEF WriteFails, Goto
<1>9. CASE StartDelete(r)
  BY <1>9 DEF StartDelete, Asks, Retire, Holders, Goto
<1>10. CASE Unlinked(r)
  BY <1>10 DEF Unlinked, Goto
<1>11. CASE UnlinkFails(r)
  BY <1>11 DEF UnlinkFails, Reinstate, Holders, Goto
<1>12. CASE StartRestore(r)
  BY <1>12 DEF StartRestore, Asks, Retire, Holders, Goto
<1>13. CASE Restored(r)
  BY <1>13 DEF Restored, Open, Goto
<1>14. CASE Announce(r)
  BY <1>14 DEF Announce, Goto
<1>15. CASE StartRelink(r)
  BY <1>15 DEF StartRelink, Asks, BeginSave, IsLive, Goto
<1>16. CASE RelinkEntry(r)
  BY <1>16 DEF RelinkEntry, BeginSave, IsLive, Goto
<1>17. CASE RelinkReads(r)
  BY <1>17 DEF RelinkReads, Goto
<1>18. CASE RelinkWritten(r)
  BY <1>18 DEF RelinkWritten, Goto
<1> QED
  BY <1>1, <1>2, <1>3, <1>4, <1>5, <1>6, <1>7, <1>8, <1>9, <1>10, <1>11, <1>12, <1>13, <1>14, <1>15, <1>16, <1>17, <1>18 DEF Step

LEMMA StepReleasedAreRetired ==
  ASSUME IInv, NEW r \in Requests, Step(r)
  PROVE  ReleasedAreRetired'
<1> USE DEF IInv, TypeOK, Safe, ReleasedAreRetired, HoldersHold, store, handler, history
<1>1. CASE StartEdit(r)
  BY <1>1 DEF StartEdit, Asks, Open, Goto
<1>2. CASE Read(r)
  BY <1>2 DEF Read, Goto
<1>3. CASE LoadFails(r)
  <2>1. \A s \in released : s \in Requests /\ s \notin Waiting(r)
    BY <1>3 DEF LoadFails, Waiting
  <2>2. \A s \in released : pc'[s] = pc[s]
    BY <1>3, <2>1 DEF LoadFails
  <2> QED
    BY <1>3, <2>2 DEF LoadFails
<1>4. CASE Loaded(r)
  BY <1>4 DEF Loaded, Waiting
<1>5. CASE Edit(r)
  BY <1>5 DEF Edit, BeginSave, IsLive, Goto
<1>6. CASE Project(r)
  BY <1>6 DEF Project, Goto
<1>7. CASE Written(r)
  BY <1>7 DEF Written, Goto
<1>8. CASE WriteFails(r)
  BY <1>8 DEF WriteFails, Goto
<1>9. CASE StartDelete(r)
  BY <1>9 DEF StartDelete, Asks, Retire, Holders, Goto
<1>10. CASE Unlinked(r)
  BY <1>10 DEF Unlinked, Goto
<1>11. CASE UnlinkFails(r)
  BY <1>11 DEF UnlinkFails, Reinstate, Holders, Goto
<1>12. CASE StartRestore(r)
  BY <1>12 DEF StartRestore, Asks, Retire, Holders, Goto
<1>13. CASE Restored(r)
  BY <1>13 DEF Restored, Open, Goto
<1>14. CASE Announce(r)
  BY <1>14 DEF Announce, Goto
<1>15. CASE StartRelink(r)
  BY <1>15 DEF StartRelink, Asks, BeginSave, IsLive, Goto
<1>16. CASE RelinkEntry(r)
  BY <1>16 DEF RelinkEntry, BeginSave, IsLive, Goto
<1>17. CASE RelinkReads(r)
  BY <1>17 DEF RelinkReads, Goto
<1>18. CASE RelinkWritten(r)
  BY <1>18 DEF RelinkWritten, Goto
<1> QED
  BY <1>1, <1>2, <1>3, <1>4, <1>5, <1>6, <1>7, <1>8, <1>9, <1>10, <1>11, <1>12, <1>13, <1>14, <1>15, <1>16, <1>17, <1>18 DEF Step

LEMMA NextInv == IInv /\ [Next]_vars => IInv'
<1> SUFFICES ASSUME IInv, [Next]_vars PROVE IInv'
  OBVIOUS
<1>1. ASSUME NEW r \in Requests, Step(r) PROVE IInv'
  <2>1. TypeOK'
    BY <1>1, StepTyped DEF IInv
  <2>2. Fresh' /\ OneLoad' /\ HoldersHold'
    BY <1>1, StepFresh, StepOneLoad, StepHoldersHold
  <2>3. Safe'
    BY <1>1, StepOneEntryAnswers, StepAnsweredMayWrite, StepReleasedAreRetired DEF Safe
  <2> QED
    BY <2>1, <2>2, <2>3 DEF IInv
<1>2. CASE UNCHANGED vars
  BY <1>2 DEF vars, store, handler, history, IInv, TypeOK, Fresh, OneLoad, HoldersHold,
              Safe, OneEntryAnswers, AnsweredMayWrite, ReleasedAreRetired
<1> QED
  BY <1>1, <1>2 DEF Next

LEMMA SpecInv == Spec => []IInv
  BY InitInv, NextInv, PTL DEF Spec
-------------------------------------------------------------------------------
(* The changes that are kept.                                                *)

LEMMA StepAsked ==
  ASSUME TypeOK, Asked, NEW r \in Requests, Step(r)
  PROVE  Asked'
<1> USE DEF TypeOK, Asked, Operations, store, handler, history
<1>1. CASE StartEdit(r)
  BY <1>1 DEF StartEdit, Asks, Open, Goto
<1>2. CASE Read(r)
  BY <1>2 DEF Read, Goto
<1>3. CASE LoadFails(r)
  BY <1>3 DEF LoadFails, Waiting
<1>4. CASE Loaded(r)
  BY <1>4 DEF Loaded, Waiting
<1>5. CASE Edit(r)
  BY <1>5 DEF Edit, BeginSave, IsLive, Goto
<1>6. CASE Project(r)
  BY <1>6 DEF Project, Goto
<1>7. CASE Written(r)
  BY <1>7 DEF Written, Goto
<1>8. CASE WriteFails(r)
  BY <1>8 DEF WriteFails, Goto
<1>9. CASE StartDelete(r)
  BY <1>9 DEF StartDelete, Asks, Retire, Holders, Goto
<1>10. CASE Unlinked(r)
  BY <1>10 DEF Unlinked, Goto
<1>11. CASE UnlinkFails(r)
  BY <1>11 DEF UnlinkFails, Reinstate, Holders, Goto
<1>12. CASE StartRestore(r)
  BY <1>12 DEF StartRestore, Asks, Retire, Holders, Goto
<1>13. CASE Restored(r)
  BY <1>13 DEF Restored, Open, Goto
<1>14. CASE Announce(r)
  BY <1>14 DEF Announce, Goto
<1>15. CASE StartRelink(r)
  BY <1>15 DEF StartRelink, Asks, BeginSave, IsLive, Goto
<1>16. CASE RelinkEntry(r)
  BY <1>16 DEF RelinkEntry, BeginSave, IsLive, Goto
<1>17. CASE RelinkReads(r)
  BY <1>17 DEF RelinkReads, Goto
<1>18. CASE RelinkWritten(r)
  BY <1>18 DEF RelinkWritten, Goto
<1> QED
  BY <1>1, <1>2, <1>3, <1>4, <1>5, <1>6, <1>7, <1>8, <1>9, <1>10, <1>11, <1>12, <1>13, <1>14, <1>15, <1>16, <1>17, <1>18 DEF Step

LEMMA StepEntryKept ==
  ASSUME IInv, Kept, NEW r \in Requests, Step(r)
  PROVE  EntryKept'
<1> USE DEF IInv, TypeOK, OneLoad, Kept, Asked, EntryKept, Calm, Working, store, handler, history
<1>1. CASE StartEdit(r)
  <2>1. op[r] = None /\ op' = [op EXCEPT ![r] = "edit"] /\ pc[r] = "new"
    BY <1>1 DEF StartEdit, Asks
  <2>2. Calm' => Calm
    BY <2>1 DEF Operations
  <2>3. UNCHANGED <<answered, retired, content, reinstated>>
    BY <1>1 DEF StartEdit
  <2>4. \/ /\ pc' = [pc EXCEPT ![r] = "holding"] /\ answered # None
           /\ held' = [held EXCEPT ![r] = answered]
        \/ \E place \in {"joined", "reading"} :
             pc' = [pc EXCEPT ![r] = place] /\ held' = held
    BY <1>1 DEF StartEdit, Open, Goto
  <2>5. ASSUME NEW s \in Requests, s # r
        PROVE  pc'[s] = pc[s] /\ held'[s] = held[s] /\ op'[s] = op[s]
    BY <2>1, <2>4, <2>5
  <2>6. pc'[r] \in {"holding", "joined", "reading"}
        /\ (pc'[r] = "holding" => answered # None /\ held'[r] = answered)
    BY <2>4
  <2> QED
    BY <2>2, <2>3, <2>5, <2>6
<1>2. CASE Read(r)
  BY <1>2 DEF Read, Goto
<1>3. CASE LoadFails(r)
  BY <1>3 DEF LoadFails, Waiting
<1>4. CASE Loaded(r)
  BY <1>4 DEF Loaded, Waiting
<1>5. CASE Edit(r)
  BY <1>5 DEF Edit, BeginSave, IsLive, Goto
<1>6. CASE Project(r)
  BY <1>6 DEF Project, Goto
<1>7. CASE Written(r)
  BY <1>7 DEF Written, Goto
<1>8. CASE WriteFails(r)
  BY <1>8 DEF WriteFails, Goto
<1>9. CASE StartDelete(r)
  BY <1>9 DEF StartDelete, Asks, Retire, Holders, Goto
<1>10. CASE Unlinked(r)
  BY <1>10 DEF Unlinked, Goto
<1>11. CASE UnlinkFails(r)
  BY <1>11 DEF UnlinkFails, Reinstate, Holders, Goto
<1>12. CASE StartRestore(r)
  BY <1>12 DEF StartRestore, Asks, Retire, Holders, Goto
<1>13. CASE Restored(r)
  BY <1>13 DEF Restored, Open, Goto
<1>14. CASE Announce(r)
  BY <1>14 DEF Announce, Goto
<1>15. CASE StartRelink(r)
  <2>1. op[r] = None /\ op' = [op EXCEPT ![r] = "relink"] /\ pc[r] = "new"
    BY <1>15 DEF StartRelink, Asks
  <2>2. Calm' => Calm
    BY <2>1 DEF Operations
  <2>3. UNCHANGED <<answered, retired, reinstated>>
    BY <1>15 DEF StartRelink, BeginSave
  <2>4. /\ \A s \in Requests : s # r => pc'[s] = pc[s] /\ held'[s] = held[s] /\ op'[s] = op[s]
        /\ op'[r] = "relink"
    <3>1. \A s \in Requests : s # r => pc'[s] = pc[s]
      BY <1>15 DEF StartRelink, BeginSave, Goto
    <3> QED
      BY <1>15, <2>1, <3>1 DEF StartRelink
  <2>5. \/ /\ pc'[r] \in {"ensuring", "unsaved"}
           /\ answered # None
           /\ held'[r] = answered
        \/ pc'[r] \in {"joined", "rereading"}
    BY <1>15 DEF StartRelink, BeginSave, Goto
  <2>6. answered # None => content'[answered].marks = content[answered].marks
    BY <1>15, TextsTyped DEF StartRelink, Texts
  <2> QED
    BY <2>2, <2>3, <2>4, <2>5, <2>6
<1>16. CASE RelinkEntry(r)
  BY <1>16 DEF RelinkEntry, BeginSave, IsLive, Goto
<1>17. CASE RelinkReads(r)
  BY <1>17 DEF RelinkReads, Goto
<1>18. CASE RelinkWritten(r)
  BY <1>18 DEF RelinkWritten, Goto
<1> QED
  BY <1>1, <1>2, <1>3, <1>4, <1>5, <1>6, <1>7, <1>8, <1>9, <1>10, <1>11, <1>12, <1>13, <1>14, <1>15, <1>16, <1>17, <1>18 DEF Step

LEMMA StepFileKept ==
  ASSUME IInv, Kept, NEW r \in Requests, Step(r)
  PROVE  FileKept'
<1> USE DEF IInv, TypeOK, OneLoad, HoldersHold, Kept, Asked, EntryKept, FileKept, Calm, Alone, Working, Saving, store, handler, history
<1>0. Alone => Calm
  BY DEF Operations
<1>1. CASE StartEdit(r)
  BY <1>1 DEF StartEdit, Asks, Open, Goto
<1>2. CASE Read(r)
  BY <1>2 DEF Read, Goto
<1>3. CASE LoadFails(r)
  BY <1>3 DEF LoadFails, Waiting
<1>4. CASE Loaded(r)
  BY <1>4 DEF Loaded, Waiting
<1>5. CASE Edit(r)
  BY <1>5 DEF Edit, BeginSave, IsLive, Goto
<1>6. CASE Project(r)
  <2>1. /\ UNCHANGED <<op, overlapped, file>> /\ pc[r] = "ensuring"
        /\ pc' = [pc EXCEPT ![r] = "writing"]
        /\ text' = [text EXCEPT ![r] = content[held[r]]]
    BY <1>6 DEF Project, Goto
  <2> SUFFICES ASSUME Alone PROVE FileKept'
    BY <2>1
  <2>2. \A s \in Requests : pc[s] = "saved" \/ s = r => op[s] = "edit" /\ s \in text'[r].marks
    BY <1>0, <2>1
  <2>3. \A s \in Requests : s # r => pc'[s] = pc[s] /\ pc[s] # "writing"
    BY <2>1
  <2> QED
    BY <2>1, <2>2, <2>3
<1>7. CASE Written(r)
  BY <1>7 DEF Written, Goto
<1>8. CASE WriteFails(r)
  BY <1>8 DEF WriteFails, Goto
<1>9. CASE StartDelete(r)
  BY <1>9 DEF StartDelete, Asks, Retire, Holders, Goto
<1>10. CASE Unlinked(r)
  BY <1>0, <1>10 DEF Unlinked, Goto
<1>11. CASE UnlinkFails(r)
  BY <1>11 DEF UnlinkFails, Reinstate, Holders, Goto
<1>12. CASE StartRestore(r)
  BY <1>12 DEF StartRestore, Asks, Retire, Holders, Goto
<1>13. CASE Restored(r)
  BY <1>0, <1>13 DEF Restored, Open, Goto
<1>14. CASE Announce(r)
  BY <1>14 DEF Announce, Goto
<1>15. CASE StartRelink(r)
  BY <1>15 DEF StartRelink, Asks, BeginSave, IsLive, Goto
<1>16. CASE RelinkEntry(r)
  BY <1>16 DEF RelinkEntry, BeginSave, IsLive, Goto
<1>17. CASE RelinkReads(r)
  BY <1>17 DEF RelinkReads, Goto
<1>18. CASE RelinkWritten(r)
  BY <1>18 DEF RelinkWritten, Goto
<1> QED
  BY <1>1, <1>2, <1>3, <1>4, <1>5, <1>6, <1>7, <1>8, <1>9, <1>10, <1>11, <1>12, <1>13, <1>14, <1>15, <1>16, <1>17, <1>18 DEF Step

LEMMA KeptAlways == Spec => []Kept
<1>1. Init => Kept
  BY DEF Init, Kept, Asked, EntryKept, FileKept, Working, Saving
<1>2. IInv /\ Kept /\ [Next]_vars => Kept'
  <2> SUFFICES ASSUME IInv, Kept, [Next]_vars PROVE Kept'
    OBVIOUS
  <2>1. ASSUME NEW r \in Requests, Step(r) PROVE Kept'
    <3>1. TypeOK /\ Asked
      BY DEF IInv, Kept
    <3> QED
      BY <2>1, <3>1, StepAsked, StepEntryKept, StepFileKept DEF Kept
  <2>2. CASE UNCHANGED vars
    BY <2>2 DEF vars, store, handler, history, Kept, Asked, EntryKept, FileKept,
         Calm, Alone, Working, Saving
  <2> QED
    BY <2>1, <2>2 DEF Next
<1> QED
  BY <1>1, <1>2, SpecInv, PTL DEF Spec

-------------------------------------------------------------------------------
(* The store's state has its types, whatever requests interleave.            *)
THEOREM TypeOKHolds == Spec => []TypeOK
<1>1. IInv => TypeOK
  BY DEF IInv
<1> QED
  BY <1>1, SpecInv, PTL

(* Two requests that work on the chat share the entry `open` answers with,   *)
(* so the busy guard on that entry guards them both: cold opens share their  *)
(* load, and only a failed unlink can put another entry in its place.        *)
THEOREM OneEntryAnswersHolds == Spec => []OneEntryAnswers
<1>1. IInv => OneEntryAnswers
  BY DEF IInv, Safe
<1> QED
  BY <1>1, SpecInv, PTL

(* The entry the store answers with is never one its own save would refuse:  *)
(* a delete that fails takes back all it let go of.                          *)
THEOREM AnsweredMayWriteHolds == Spec => []AnsweredMayWrite
<1>1. IInv => AnsweredMayWrite
  BY DEF IInv, Safe
<1> QED
  BY <1>1, SpecInv, PTL

(* A turn that held its entry through a delete or a restore of the chat, and *)
(* had not begun to save it, never writes the chat's file again.             *)
THEOREM ReleasedNeverWriteHolds == Spec => ReleasedNeverWrite
<1> DEFINE NoWrite == \A r \in released : ~(pc[r] = "writing" /\ pc'[r] = "saved")
<1>1. IInv /\ [Next]_vars => [NoWrite]_vars
  BY DEF IInv, Safe, ReleasedAreRetired
<1>2. [][IInv /\ [Next]_vars]_vars => ReleasedNeverWrite
  BY <1>1, PTL DEF ReleasedNeverWrite
<1> QED
  BY <1>2, SpecInv, PTL DEF Spec

(* As long as nobody deletes or restores the chat, an acknowledged change is *)
(* in the one entry every later request is shown: a load never replaces an   *)
(* entry that was worked on.                                                 *)
THEOREM EditsAreKeptHolds == Spec => []EditsAreKept
<1>1. Kept => EditsAreKept
  BY DEF Kept, EntryKept, Calm, Working, EditsAreKept
<1> QED
  BY <1>1, KeptAlways, PTL

(* The file holds every acknowledged change as long as saves do not overlap  *)
(* and only edits write it: each save projects what all before it recorded.  *)
THEOREM AcknowledgedIsOnDiskHolds == Spec => []AcknowledgedIsOnDisk
<1>1. Kept => AcknowledgedIsOnDisk
  BY DEF Kept, FileKept, Alone, AcknowledgedIsOnDisk
<1> QED
  BY <1>1, KeptAlways, PTL
===============================================================================
