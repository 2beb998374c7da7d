--------------------------- MODULE CdpConnection ---------------------------
(***************************************************************************)
(* CdpConnection of run_single_capture_no_warmup.mjs: commands with a      *)
(* number each, answers in any order, events, and a socket that may fail   *)
(* at any time.                                                            *)
(*                                                                         *)
(* Chrome's side and the socket are not in src/: what Chrome sends, and    *)
(* the socket's own events, reach the script as one sequence.  A command   *)
(* sent on a socket that is closed goes nowhere and raises no error.       *)
(* last, the number of the last command before the close event, is not in  *)
(* the code.                                                               *)
(***************************************************************************)
EXTENDS Naturals, Sequences, FiniteSets

CONSTANTS Method, MaxCalls, MaxWaits, MaxEvents, Stray

ASSUME StrayAssumption == Stray \notin 1 .. MaxCalls

VARIABLES
  opening,  \* the promise of open(): "unmade", "pending", "kept", "broken"
  timer,    \* the 10 s timer of open() is armed
  nextId,
  pending,  \* the commands in the map
  fate,     \* the promise of every command
  waiters,  \* for each method the waits in its queue
  awaited,  \* the method of every wait
  woken,    \* the waits whose promise is kept
  socket,   \* Chrome's end: "none", "connecting", "open", "closed"
  inbox,    \* what the socket has not delivered yet
  atChrome, \* the commands Chrome has not answered
  events,   \* how many events Chrome sent
  closed,   \* the close event was delivered
  last

scriptVars == <<nextId, pending, fate, waiters, awaited, woken, last>>
openVars == <<opening, timer>>
wireVars == <<socket, inbox, atChrome, events>>
connectionVars == <<openVars, scriptVars, wireVars, closed>>
-----------------------------------------------------------------------------
(* The script's side                                                       *)

Open ==
  /\ opening = "unmade"
  /\ opening' = "pending" /\ timer' = TRUE
  /\ socket' = "connecting"
  /\ UNCHANGED <<scriptVars, inbox, atChrome, events, closed>>

OpenTimeout ==
  /\ timer
  /\ timer' = FALSE /\ opening' = "broken"
  /\ UNCHANGED <<scriptVars, wireVars, closed>>

\* A promise that is settled stays as it is.
Settled(promise, as) == IF promise = "pending" THEN as ELSE promise

Send ==
  /\ opening = "kept" /\ nextId < MaxCalls
  /\ nextId' = nextId + 1
  /\ pending' = pending \cup {nextId'}
  /\ fate' = Append(fate, "pending")
  /\ atChrome' = IF socket = "open" THEN atChrome \cup {nextId'} ELSE atChrome
  /\ UNCHANGED <<openVars, waiters, awaited, woken, socket, inbox, events,
                 closed, last>>

WaitFor(m) ==
  /\ opening = "kept" /\ Len(awaited) < MaxWaits
  /\ awaited' = Append(awaited, m)
  /\ waiters' = [waiters EXCEPT ![m] = Append(@, Len(awaited'))]
  /\ UNCHANGED <<openVars, nextId, pending, fate, woken, wireVars, closed,
                 last>>

\* close() of the script.
Close ==
  /\ opening = "kept" /\ socket = "open"
  /\ socket' = "closed" /\ atChrome' = {}
  /\ inbox' = Append(inbox, [kind |-> "close"])
  /\ UNCHANGED <<openVars, scriptVars, events, closed>>

HandleAnswer(m) ==
  /\ m.kind = "answer"
  /\ IF m.id \in pending
       THEN /\ pending' = pending \ {m.id}
            /\ fate' = [fate EXCEPT
                 ![m.id] = IF m.error THEN "rejected" ELSE "resolved"]
       ELSE UNCHANGED <<pending, fate>>
  /\ UNCHANGED <<openVars, nextId, waiters, awaited, woken, closed, last>>

\* Seeded fault: an event wakes the one that came last.
HandleEvent_latest(m) ==
  /\ m.kind = "event"
  /\ IF waiters[m.method] # <<>>
       THEN LET queue == waiters[m.method] IN
            /\ woken' = woken \cup {queue[Len(queue)]}
            /\ waiters' = [waiters EXCEPT
                 ![m.method] = SubSeq(@, 1, Len(@) - 1)]
       ELSE UNCHANGED <<woken, waiters>>
  /\ UNCHANGED <<openVars, nextId, pending, fate, awaited, closed, last>>

HandleEvent(m) ==
  /\ m.kind = "event"
  /\ IF waiters[m.method] # <<>>
       THEN /\ woken' = woken \cup {Head(waiters[m.method])}
            /\ waiters' = [waiters EXCEPT ![m.method] = Tail(@)]
       ELSE UNCHANGED <<woken, waiters>>
  /\ UNCHANGED <<openVars, nextId, pending, fate, awaited, closed, last>>

OnOpen(m) ==
  /\ m.kind = "open"
  /\ timer' = FALSE /\ opening' = Settled(opening, "kept")
  /\ UNCHANGED <<scriptVars, closed>>

OnError(m) ==
  /\ m.kind = "error"
  /\ timer' = FALSE /\ opening' = Settled(opening, "broken")
  /\ UNCHANGED <<scriptVars, closed>>

OnClose(m) ==
  /\ m.kind = "close"
  /\ fate' = [id \in DOMAIN fate |->
                IF id \in pending THEN "rejected" ELSE fate[id]]
  /\ pending' = {}
  /\ closed' = TRUE /\ last' = nextId
  /\ UNCHANGED <<openVars, nextId, waiters, awaited, woken>>

Deliver ==
  /\ inbox # <<>>
  /\ inbox' = Tail(inbox)
  /\ \/ HandleAnswer(Head(inbox))
     \/ HandleEvent(Head(inbox))
     \/ OnOpen(Head(inbox))
     \/ OnError(Head(inbox))
     \/ OnClose(Head(inbox))
  /\ UNCHANGED <<socket, atChrome, events>>
-----------------------------------------------------------------------------
(* Chrome and the socket                                                   *)

Accept ==
  /\ socket = "connecting"
  /\ socket' = "open"
  /\ inbox' = Append(inbox, [kind |-> "open"])
  /\ UNCHANGED <<openVars, scriptVars, atChrome, events, closed>>

\* Refused, or broken off later.
Fail ==
  /\ socket \in {"connecting", "open"}
  /\ socket' = "closed" /\ atChrome' = {}
  /\ inbox' = inbox \o <<[kind |-> "error"], [kind |-> "close"]>>
  /\ UNCHANGED <<openVars, scriptVars, events, closed>>

Answer(id, error) ==
  /\ socket = "open" /\ id \in atChrome
  /\ atChrome' = atChrome \ {id}
  /\ inbox' = Append(inbox, [kind |-> "answer", id |-> id, error |-> error])
  /\ UNCHANGED <<openVars, scriptVars, socket, events, closed>>

\* An answer to nothing the script asked.
StrayAnswer ==
  /\ socket = "open" /\ events < MaxEvents
  /\ events' = events + 1
  /\ inbox' = Append(inbox, [kind |-> "answer", id |-> Stray,
                             error |-> FALSE])
  /\ UNCHANGED <<openVars, scriptVars, socket, atChrome, closed>>

Emit(m) ==
  /\ socket = "open" /\ events < MaxEvents
  /\ events' = events + 1
  /\ inbox' = Append(inbox, [kind |-> "event", method |-> m])
  /\ UNCHANGED <<openVars, scriptVars, socket, atChrome, closed>>
-----------------------------------------------------------------------------
ConnectionInit ==
  /\ opening = "unmade" /\ timer = FALSE
  /\ nextId = 0 /\ pending = {} /\ fate = <<>>
  /\ waiters = [m \in Method |-> <<>>] /\ awaited = <<>> /\ woken = {}
  /\ socket = "none" /\ inbox = <<>> /\ atChrome = {} /\ events = 0
  /\ closed = FALSE /\ last = 0

ConnectionNext ==
  \/ Open \/ OpenTimeout \/ Send \/ Close
  \/ \E m \in Method : WaitFor(m) \/ Emit(m)
  \/ Deliver
  \/ Accept \/ Fail \/ StrayAnswer
  \/ \E id \in atChrome, error \in BOOLEAN : Answer(id, error)

ConnectionSpec == ConnectionInit /\ [][ConnectionNext]_connectionVars
-----------------------------------------------------------------------------
\* What captures see of the connection.
Calls == INSTANCE CdpCalls WITH
  up <- ~closed,
  call <- [id \in 1 .. nextId |->
             IF closed /\ id > last THEN "lost" ELSE fate[id]],
  wait <- [i \in DOMAIN awaited |->
             [method |-> awaited[i], woken |-> i \in woken]]

(***************************************************************************)
(* The connection gives what captures count on: a call made in time is     *)
(* settled at the latest by the close event, one made later is lost, and   *)
(* events wake those who wait in turn (:208-245, :247-261).                *)
(***************************************************************************)
ImplementsCalls == Calls!CallsSpec
=============================================================================
