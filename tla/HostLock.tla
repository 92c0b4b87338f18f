------------------------------- MODULE HostLock -------------------------------
(***************************************************************************)
(* One host per data directory: `<dataDir>/host.lock`, created with O_EXCL *)
(* by acquireHostLock, taken over when the process it names is gone, and   *)
(* removed by releaseHostLock.  Hosts start in any order, crash at any     *)
(* step and leave the file behind; process ids are recycled, by hosts and  *)
(* by programs that have nothing to do with them.                          *)
(***************************************************************************)
EXTENDS Naturals, FiniteSets

CONSTANTS
  Hosts,   \* the host processes, each started at most once
  Pids,    \* the process ids the system hands out
  Pid,     \* the process id each host gets
  Foreign, \* hosts run by another user: a signal to them answers EPERM
  NoFile   \* there is no lock file

ASSUME HostLockAssumption ==
  /\ Pid \in [Hosts -> Pids]
  /\ Foreign \subseteq Hosts
  /\ NoFile \notin Hosts

VARIABLES
  file,    \* the file at the path: the host that created it, or NoFile
  written, \* its record is in, and names that host's process
  pc,      \* where each host is
  others,  \* the process ids of running programs that are no hosts
  overlap  \* history: a host started while another was acquiring the lock

vars == <<file, written, pc, others, overlap>>

Acquiring == {"first", "writing", "examining", "again", "stealing", "takeover"}
Serving == {"holding", "releasing", "unlinking"}
Running == Acquiring \cup Serving
Places == Running \cup {"off", "refused", "stopped", "crashed"}

Live(h) == pc[h] \in Running
Goto(h, place) == pc' = [pc EXCEPT ![h] = place]

\* A lock file is by a host that made it; one that stopped or was refused
\* leaves none behind.
TypeOK ==
  /\ file \in Hosts \cup {NoFile}
  /\ written \in BOOLEAN
  /\ file # NoFile => pc[file] \in {"writing", "crashed"} \cup Serving
  /\ pc \in [Hosts -> Places]
  /\ others \subseteq Pids
  /\ overlap \in BOOLEAN

\* The directory may hold the file of a host that crashed before.
Init ==
  /\ \E gone \in SUBSET Hosts :
       /\ Cardinality(gone) <= 1
       /\ pc = [h \in Hosts |-> IF h \in gone THEN "crashed" ELSE "off"]
       /\ file \in {NoFile} \cup gone
  /\ others = {}
  /\ written \in IF file = NoFile THEN {FALSE} ELSE BOOLEAN
  /\ overlap = FALSE
-------------------------------------------------------------------------------
(* The liveness probe and the record.                                        *)

\* Faulty variant: EPERM reads as gone.
AliveToSignal(p) == p \in others \/ \E h \in Hosts \ Foreign : Live(h) /\ Pid[h] = p

\* isPidAlive: a process with that id exists, a host or not, ours to signal or not.
IsPidAlive(p) == p \in others \/ \E h \in Hosts : Live(h) /\ Pid[h] = p

\* Faulty variant: a lock that cannot be read counts as held.
HeldUnlessDead == file # NoFile /\ (~written \/ IsPidAlive(Pid[file]))

\* A file whose record is not in names no process, and holds nothing.
Held == file # NoFile /\ written /\ IsPidAlive(Pid[file])
-------------------------------------------------------------------------------
(* acquireHostLock.                                                          *)

Start(h) ==
  /\ pc[h] = "off"
  /\ ~IsPidAlive(Pid[h])
  /\ overlap' = (overlap \/ \E g \in Hosts : pc[g] \in Acquiring)
  /\ Goto(h, "first")
  /\ UNCHANGED <<file, written, others>>

\* createExclusive's open(path, 'wx').  The first attempt that finds a file
\* looks at it; a later one reports the directory as held.
Create(h) ==
  /\ pc[h] \in {"first", "again", "takeover"}
  /\ \/ /\ file = NoFile
        /\ file' = h /\ written' = FALSE
        /\ Goto(h, "writing")
     \/ /\ file # NoFile
        /\ Goto(h, IF pc[h] = "first" THEN "examining" ELSE "refused")
        /\ UNCHANGED <<file, written>>
  /\ UNCHANGED <<others, overlap>>

\* The record goes through the handle: into the file at the path only while
\* that is still the file this host created.
WriteRecord(h) ==
  /\ pc[h] = "writing"
  /\ written' = (written \/ file = h)
  /\ Goto(h, "holding")
  /\ UNCHANGED <<file, others, overlap>>

\* Gone since the create failed, held by a live process, or stale.
Examine(h) ==
  /\ pc[h] = "examining"
  /\ Goto(h, IF file = NoFile THEN "again" ELSE IF Held THEN "refused" ELSE "stealing")
  /\ UNCHANGED <<file, written, others, overlap>>

\* The unlink of the takeover removes whatever is at the path by now.
RemoveStale(h) ==
  /\ pc[h] = "stealing"
  /\ file' = NoFile /\ written' = FALSE
  /\ Goto(h, "takeover")
  /\ UNCHANGED <<others, overlap>>
-------------------------------------------------------------------------------
(* releaseHostLock, and a crash.                                             *)

StartRelease(h) ==
  /\ pc[h] = "holding"
  /\ Goto(h, "releasing")
  /\ UNCHANGED <<file, written, others, overlap>>

\* The record is ours when its pid and its start time are.
Ours(h) == file = h /\ written

ReadOwn(h) ==
  /\ pc[h] = "releasing"
  /\ Goto(h, IF Ours(h) THEN "unlinking" ELSE "stopped")
  /\ UNCHANGED <<file, written, others, overlap>>

RemoveOwn(h) ==
  /\ pc[h] = "unlinking"
  /\ file' = NoFile /\ written' = FALSE
  /\ Goto(h, "stopped")
  /\ UNCHANGED <<others, overlap>>

Crash(h) ==
  /\ Live(h)
  /\ Goto(h, "crashed")
  /\ UNCHANGED <<file, written, others, overlap>>

\* Some other program is given a free process id, a crashed host's included.
OtherStarts(p) ==
  /\ ~IsPidAlive(p)
  /\ others' = others \cup {p}
  /\ UNCHANGED <<file, written, pc, overlap>>

OtherEnds(p) ==
  /\ p \in others
  /\ others' = others \ {p}
  /\ UNCHANGED <<file, written, pc, overlap>>
-------------------------------------------------------------------------------
Acquire(h) == Create(h) \/ WriteRecord(h) \/ Examine(h) \/ RemoveStale(h)

Next ==
  \/ \E h \in Hosts :
       Start(h) \/ Acquire(h) \/ StartRelease(h) \/ ReadOwn(h) \/ RemoveOwn(h) \/ Crash(h)
  \/ \E p \in Pids : OtherStarts(p) \/ OtherEnds(p)

Spec == Init /\ [][Next]_vars

\* A host that has begun to acquire the lock goes on: its file-system calls
\* return, and do what they are asked.  Nothing has to start, stop or crash.
FairSpec == Spec /\ \A h \in Hosts : WF_vars(Acquire(h))
-------------------------------------------------------------------------------
(* What the lock promises.                                                   *)

\* A data directory has one host, as long as hosts are started one after the
\* other, crashes at any step, half-written locks and recycled process ids
\* included: never two that serve it.
OneHostAtATime ==
  ~overlap => \A g, h \in Hosts : pc[g] \in Serving /\ pc[h] \in Serving => g = h

\* While a host serves, the directory says so: the lock at the path is its
\* own, so that the next host is refused.
ServingIsRecorded ==
  ~overlap => \A h \in Hosts :
    pc[h] \in Serving => file = h /\ written

\* Alone(h): no other host runs, and the lock does not name h's own process id.
Alone(h) ==
  /\ \A g \in Hosts \ {h} : ~Live(g)
  /\ file # NoFile => Pid[file] # Pid[h]

\* MistakenFor(h): h was refused for the sake of a program that is no host and
\* has by now the process id that the lock records.
MistakenFor(h) == pc[h] = "refused" /\ file # NoFile /\ written /\ Pid[file] \in others

\* A crash locks nobody out: a host that starts alone over whatever an earlier
\* one left, a half-written record included, gets the directory, unless it
\* crashes itself, others start beside it, or the dead host's process id went to
\* some other program, which a probe by process id cannot tell from the host.
NobodyIsLockedOut ==
  \A h \in Hosts :
    pc[h] = "first" /\ Alone(h) ~> pc[h] \in {"holding", "crashed"} \/ overlap \/ MistakenFor(h)
===============================================================================
