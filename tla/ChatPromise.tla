----------------------------- MODULE ChatPromise -----------------------------
(***************************************************************************)
(* What the clients of one conversation are promised, with no word of how: *)
(* a request takes the chat for itself, its stream is opened for the pages *)
(* while it holds the chat and closed once after it gave the chat back, so *)
(* that whoever hears the end may ask for the next turn; a stopped request *)
(* sends nothing.  A settle whose save fails ends the promise about who    *)
(* holds the chat, and never the one about the streams.                    *)
(***************************************************************************)
CONSTANTS Requests, None

VARIABLES
  holder, \* the request that has the chat, or None
  told,   \* the requests that had the chat when it was stopped
  gone,   \* the conversation was deleted or restored
  sent,   \* the requests whose turn went to the provider
  stream, \* per request: "none", "open", "closed"
  exact   \* no settle has failed so far

vars == <<holder, told, gone, sent, stream, exact>>

Init ==
  /\ holder = None /\ told = {} /\ gone = FALSE
  /\ sent = {} /\ stream = [r \in Requests |-> "none"] /\ exact = TRUE

Take(r) ==
  /\ exact /\ holder = None /\ stream[r] = "none"
  /\ holder' = r
  /\ UNCHANGED <<told, gone, sent, stream, exact>>

Give(r) ==
  /\ exact /\ holder = r
  /\ holder' = None
  /\ UNCHANGED <<told, gone, sent, stream, exact>>

Open(r) ==
  /\ exact => holder = r
  /\ stream[r] = "none"
  /\ stream' = [stream EXCEPT ![r] = "open"]
  /\ UNCHANGED <<holder, told, gone, sent, exact>>

Send(r) ==
  /\ exact => holder = r /\ r \notin told /\ ~gone
  /\ stream[r] = "open"
  /\ sent' = sent \cup {r}
  /\ UNCHANGED <<holder, told, gone, stream, exact>>

Close(r) ==
  /\ exact => holder # r
  /\ stream[r] = "open"
  /\ stream' = [stream EXCEPT ![r] = "closed"]
  /\ UNCHANGED <<holder, told, gone, sent, exact>>

\* Stop, or the end of the conversation, which stops it too.
Stop ==
  /\ told \subseteq told'
  /\ exact => told' = told \cup ({holder} \ {None})
  /\ gone => gone'
  /\ UNCHANGED <<holder, sent, stream, exact>>

\* A settle fails: its stream is closed unless it already was.
Fail(r) ==
  /\ stream[r] # "none"
  /\ stream' = [stream EXCEPT ![r] = "closed"]
  /\ holder' = None /\ exact' = FALSE
  /\ UNCHANGED <<told, gone, sent>>

Next ==
  \/ Stop
  \/ \E r \in Requests :
       Take(r) \/ Give(r) \/ Open(r) \/ Send(r) \/ Close(r) \/ Fail(r)

Spec == Init /\ [][Next]_vars
===============================================================================
