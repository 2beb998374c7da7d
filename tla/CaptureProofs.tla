--------------------------- MODULE CaptureProofs ---------------------------
(***************************************************************************)
(* Proofs about the capture script: the connection to Chrome, a run from   *)
(* its arguments to its exit code, the frame probe, a session of captures, *)
(* and the report of a trace, for any number of commands, events, polls,   *)
(* frames and changes of the page, of slots, attempts, restarts and        *)
(* crashes, of tasks and lost marks.                                       *)
(***************************************************************************)
EXTENDS CdpConnection, CaptureRun, VisibilityProbe, CaptureSession,
        TraceForensics, SequenceTheorems, FiniteSetTheorems,
        WellFoundedInduction, TLAPS

Fate == {"pending", "resolved", "rejected"}

Message ==
  [kind : {"open", "error", "close"}]
    \cup [kind : {"answer"}, id : Nat \cup {Stray}, error : BOOLEAN]
    \cup [kind : {"event"}, method : Method]

(***************************************************************************)
(* The inductive invariant of the connection, in three parts.  The map     *)
(* holds the unsettled commands, and after the close event only later      *)
(* ones.                                                                   *)
(***************************************************************************)
CommandsOK ==
  /\ nextId \in Nat
  /\ last \in 0 .. nextId
  /\ fate \in Seq(Fate) /\ Len(fate) = nextId
  /\ pending \subseteq 1 .. nextId
  /\ closed => \A id \in pending : id > last
  /\ ~closed =>
       \A id \in 1 .. nextId : fate[id] = "pending" <=> id \in pending

\* The close event is the last thing the socket delivers.
WireOK ==
  /\ inbox \in Seq(Message)
  /\ atChrome \subseteq Nat
  /\ \A i \in 1 .. Len(inbox) :
       inbox[i].kind = "close" => i = Len(inbox) /\ socket = "closed"
  /\ closed => inbox = <<>> /\ socket = "closed"

\* The queue of a method holds those who wait for it, in turn.
QueueOK(m) ==
  /\ waiters[m] \in Seq(1 .. Len(awaited))
  /\ \A k \in 1 .. Len(waiters[m]) :
       awaited[waiters[m][k]] = m /\ waiters[m][k] \notin woken
  /\ \A j, k \in 1 .. Len(waiters[m]) :
       j < k => waiters[m][j] < waiters[m][k]
  /\ \A i \in 1 .. Len(awaited) :
       awaited[i] = m /\ i \notin woken =>
         \E k \in 1 .. Len(waiters[m]) : waiters[m][k] = i

WaitsOK ==
  /\ awaited \in Seq(Method)
  /\ woken \subseteq 1 .. Len(awaited)
  /\ DOMAIN waiters = Method
  /\ \A m \in Method : QueueOK(m)

ConnectionIInv == closed \in BOOLEAN /\ CommandsOK /\ WireOK /\ WaitsOK

LEMMA ConnectionInitIInv == ConnectionInit => ConnectionIInv
  <1>. SUFFICES ASSUME ConnectionInit PROVE ConnectionIInv
    OBVIOUS
  <1>1. CommandsOK
    <2>1. /\ nextId = 0 /\ last = 0 /\ fate = <<>> /\ pending = {}
          /\ ~closed
      BY DEF ConnectionInit
    <2>. QED
      BY <2>1, EmptySeq DEF CommandsOK
  <1>2. WireOK
    BY DEF ConnectionInit, WireOK
  <1>3. WaitsOK
    BY DEF ConnectionInit, WaitsOK, QueueOK
  <1>4. closed \in BOOLEAN
    BY DEF ConnectionInit
  <1>. QED
    BY <1>1, <1>2, <1>3, <1>4 DEF ConnectionIInv

\* The socket hands over one more message, or two when it fails.
LEMMA InboxGrows ==
  ASSUME WireOK, NEW m \in Message, inbox' = Append(inbox, m),
         socket # "closed", UNCHANGED closed, atChrome' \subseteq Nat,
         m.kind = "close" => socket' = "closed"
  PROVE  WireOK'
  <1>1. /\ inbox' \in Seq(Message) /\ Len(inbox) \in Nat
        /\ Len(inbox') = Len(inbox) + 1
        /\ inbox'[Len(inbox) + 1] = m
        /\ \A i \in 1 .. Len(inbox) : inbox'[i] = inbox[i]
    BY DEF WireOK
  <1>2. ~closed
    BY DEF WireOK
  <1>3. \A i \in 1 .. Len(inbox) : inbox[i].kind # "close"
    BY DEF WireOK
  <1>. QED
    BY <1>1, <1>2, <1>3 DEF WireOK

LEMMA SocketFails ==
  ASSUME WireOK, Fail
  PROVE  WireOK'
  <1>. DEFINE error == [kind |-> "error"]
              close == [kind |-> "close"]
  <1>1. error \in Message /\ close \in Message
    BY DEF Message
  <1>2. error.kind = "error" /\ close.kind = "close"
    OBVIOUS
  <1>3. /\ inbox' = inbox \o <<error, close>>
        /\ socket # "closed" /\ socket' = "closed" /\ atChrome' = {}
        /\ UNCHANGED closed
    BY DEF Fail
  <1>. HIDE DEF error, close
  <1>4. <<error, close>> \in Seq(Message)
    BY <1>1
  <1>5. /\ inbox' \in Seq(Message) /\ Len(inbox) \in Nat
        /\ Len(inbox') = Len(inbox) + 2
        /\ inbox'[Len(inbox) + 1] = error
        /\ inbox'[Len(inbox) + 2] = close
        /\ \A i \in 1 .. Len(inbox) : inbox'[i] = inbox[i]
    BY <1>3, <1>4 DEF WireOK
  <1>6. \A i \in 1 .. Len(inbox) : inbox[i].kind # "close"
    BY <1>3 DEF WireOK
  <1>7. ~closed
    BY <1>3 DEF WireOK
  <1>. QED
    BY <1>2, <1>3, <1>5, <1>6, <1>7 DEF WireOK

\* A delivery takes the first message; after the close event there is none.
LEMMA InboxShrinks ==
  ASSUME WireOK, Deliver
  PROVE  /\ WireOK' /\ ~closed /\ Head(inbox) \in Message
         /\ Head(inbox).kind = "close" => inbox' = <<>>
  <1>1. /\ inbox # <<>> /\ inbox' = Tail(inbox)
        /\ UNCHANGED <<socket, atChrome>>
    BY DEF Deliver
  <1>2. /\ inbox' \in Seq(Message) /\ Head(inbox) = inbox[1]
        /\ inbox[1] \in Message
        /\ Len(inbox) \in Nat /\ Len(inbox) >= 1
        /\ Len(inbox') = Len(inbox) - 1
        /\ \A i \in 1 .. Len(inbox) - 1 : inbox'[i] = inbox[i + 1]
    BY <1>1 DEF WireOK
  <1>3. ~closed
    BY <1>1 DEF WireOK
  <1>4. inbox[1].kind = "close" =>
          Len(inbox) = 1 /\ socket = "closed" /\ inbox' = <<>>
    BY <1>2, EmptySeq DEF WireOK
  <1>5. closed' => inbox[1].kind = "close"
    BY <1>2, <1>3
    DEF Deliver, HandleAnswer, HandleEvent, OnOpen, OnError, OnClose,
        scriptVars
  <1>6. \A i \in 1 .. Len(inbox') :
          inbox'[i].kind = "close" => i = Len(inbox')
                                      /\ socket' = "closed"
    <2>. SUFFICES ASSUME NEW i \in 1 .. Len(inbox'),
                         inbox'[i].kind = "close"
                  PROVE  i = Len(inbox') /\ socket' = "closed"
      OBVIOUS
    <2>1. i + 1 \in 1 .. Len(inbox) /\ inbox[i + 1].kind = "close"
      BY <1>2
    <2>2. i + 1 = Len(inbox) /\ socket = "closed"
      BY <2>1 DEF WireOK
    <2>3. i = Len(inbox')
      BY <1>2, <2>2
    <2>. QED
      BY <1>1, <2>2, <2>3
  <1>. QED
    BY <1>1, <1>2, <1>3, <1>4, <1>5, <1>6 DEF WireOK

\* Sending a command: it is in the map, and nothing is known of it.
LEMMA SendCommands ==
  ASSUME CommandsOK, Send
  PROVE  CommandsOK'
  <1>1. /\ nextId' = nextId + 1 /\ pending' = pending \cup {nextId + 1}
        /\ fate' = Append(fate, "pending") /\ UNCHANGED <<closed, last>>
    BY DEF Send
  <1>2. /\ fate' \in Seq(Fate) /\ Len(fate') = nextId + 1
        /\ fate'[nextId + 1] = "pending"
        /\ \A id \in 1 .. nextId : fate'[id] = fate[id]
    BY <1>1 DEF CommandsOK, Fate
  <1>. QED
    BY <1>1, <1>2 DEF CommandsOK

\* An answer settles a command and takes it out of the map.
LEMMA AnswerCommands ==
  ASSUME CommandsOK, NEW m, HandleAnswer(m)
  PROVE  CommandsOK'
  <1>1. UNCHANGED <<nextId, closed, last>>
    BY DEF HandleAnswer
  <1>2. CASE m.id \in pending
    <2>1. /\ pending' = pending \ {m.id}
          /\ fate' = [fate EXCEPT
               ![m.id] = IF m.error THEN "rejected" ELSE "resolved"]
      BY <1>2 DEF HandleAnswer
    <2>2. PICK f \in {"rejected", "resolved"} :
            fate' = [fate EXCEPT ![m.id] = f]
      BY <2>1
    <2>3. /\ fate' \in Seq(Fate) /\ Len(fate') = Len(fate)
          /\ \A id \in 1 .. nextId :
               fate'[id] = IF id = m.id THEN f ELSE fate[id]
      <3>1. fate \in [1 .. nextId -> Fate] /\ m.id \in 1 .. nextId
        BY <1>2, LenProperties DEF CommandsOK
      <3>2. /\ fate' \in [1 .. nextId -> Fate]
            /\ \A id \in 1 .. nextId :
                 fate'[id] = IF id = m.id THEN f ELSE fate[id]
        BY <2>2, <3>1 DEF Fate
      <3>3. fate' \in Seq(Fate) /\ Len(fate') = nextId
        BY <3>2 DEF CommandsOK
      <3>. QED
        BY <3>2, <3>3 DEF CommandsOK
    <2>. QED
      BY <1>1, <2>1, <2>3 DEF CommandsOK
  <1>3. CASE m.id \notin pending
    <2>1. UNCHANGED <<pending, fate>>
      BY <1>3 DEF HandleAnswer
    <2>. QED
      BY <1>1, <2>1 DEF CommandsOK
  <1>. QED
    BY <1>2, <1>3

LEMMA CloseCommands ==
  ASSUME CommandsOK, NEW m, OnClose(m)
  PROVE  CommandsOK'
  <1>1. /\ nextId' = nextId /\ pending' = {} /\ closed' = TRUE
        /\ last' = nextId
        /\ fate' = [id \in DOMAIN fate |->
                      IF id \in pending THEN "rejected" ELSE fate[id]]
    BY DEF OnClose
  <1>2. DOMAIN fate = 1 .. nextId
        /\ \A id \in 1 .. nextId : fate[id] \in Fate
    BY DEF CommandsOK
  <1>3. fate' \in Seq(Fate) /\ Len(fate') = nextId
    <2>1. fate' \in [1 .. nextId -> Fate]
      BY <1>1, <1>2 DEF Fate
    <2>. QED
      BY <2>1 DEF CommandsOK
  <1>. QED
    BY <1>1, <1>3 DEF CommandsOK

\* A wait goes to the end of its queue.
LEMMA WaitForWaits ==
  ASSUME WaitsOK, NEW m \in Method, WaitFor(m)
  PROVE  WaitsOK'
  <1>. DEFINE n == Len(awaited) + 1
  <1>1. /\ awaited' = Append(awaited, m) /\ woken' = woken
        /\ waiters' = [waiters EXCEPT ![m] = Append(@, Len(awaited'))]
    BY DEF WaitFor
  <1>2. /\ awaited' \in Seq(Method) /\ Len(awaited') = n
        /\ awaited'[n] = m
        /\ \A i \in 1 .. Len(awaited) : awaited'[i] = awaited[i]
        /\ Len(awaited) \in Nat
    BY <1>1 DEF WaitsOK
  <1>3. waiters' = [waiters EXCEPT ![m] = Append(@, n)]
    BY <1>1, <1>2
  <1>4. DOMAIN waiters' = Method /\ woken' \subseteq 1 .. Len(awaited')
    BY <1>1, <1>2, <1>3 DEF WaitsOK
  <1>5. ASSUME NEW x \in Method
        PROVE  QueueOK(x)'
    <2>. DEFINE q == waiters[x]
    <2>1. /\ q \in Seq(1 .. Len(awaited))
          /\ \A k \in 1 .. Len(q) : awaited[q[k]] = x /\ q[k] \notin woken
          /\ \A j, k \in 1 .. Len(q) : j < k => q[j] < q[k]
          /\ \A i \in 1 .. Len(awaited) :
               awaited[i] = x /\ i \notin woken =>
                 \E k \in 1 .. Len(q) : q[k] = i
      BY DEF WaitsOK, QueueOK
    <2>2. n \notin woken
      BY <1>2 DEF WaitsOK
    <2>3. CASE x = m
      <3>1. waiters'[x] = Append(q, n)
        BY <1>3, <2>3 DEF WaitsOK
      <3>. HIDE DEF q
      <3>2. /\ Append(q, n) \in Seq(1 .. n)
            /\ Len(Append(q, n)) = Len(q) + 1
            /\ Append(q, n)[Len(q) + 1] = n
            /\ \A k \in 1 .. Len(q) : Append(q, n)[k] = q[k]
                                      /\ q[k] \in 1 .. Len(awaited)
            /\ Len(q) \in Nat
        <4>1. q \in Seq(1 .. n) /\ n \in 1 .. n
          BY <1>2, <2>1, SeqMonotonic
        <4>. QED
          BY <2>1, <4>1
      <3>. DEFINE r == Append(q, n)
      <3>. HIDE DEF r
      <3>3. \A k \in 1 .. Len(r) : awaited'[r[k]] = x /\ r[k] \notin woken'
        BY <1>1, <1>2, <2>1, <2>2, <2>3, <3>2 DEF r
      <3>4. \A j, k \in 1 .. Len(r) : j < k => r[j] < r[k]
        <4>. SUFFICES ASSUME NEW j \in 1 .. Len(r), NEW k \in 1 .. Len(r),
                             j < k
                      PROVE  r[j] < r[k]
          OBVIOUS
        <4>1. j \in 1 .. Len(q) /\ r[j] = q[j] /\ q[j] \in 1 .. Len(awaited)
          BY <3>2 DEF r
        <4>2. CASE k \in 1 .. Len(q)
          BY <2>1, <3>2, <4>1, <4>2 DEF r
        <4>3. CASE k = Len(q) + 1
          BY <1>2, <3>2, <4>1, <4>3 DEF r
        <4>. QED
          BY <3>2, <4>2, <4>3 DEF r
      <3>5. \A i \in 1 .. Len(awaited') :
              awaited'[i] = x /\ i \notin woken' =>
                \E k \in 1 .. Len(r) : r[k] = i
        <4>. SUFFICES ASSUME NEW i \in 1 .. n,
                             awaited'[i] = x, i \notin woken
                      PROVE  \E k \in 1 .. Len(r) : r[k] = i
          BY <1>1, <1>2
        <4>1. CASE i = n
          BY <3>2, <4>1 DEF r
        <4>2. CASE i # n
          <5>1. PICK k \in 1 .. Len(q) : q[k] = i
            BY <1>2, <2>1, <4>2
          <5>. QED
            BY <3>2, <5>1 DEF r
        <4>. QED
          BY <4>1, <4>2
      <3>. QED
        BY <1>2, <3>1, <3>2, <3>3, <3>4, <3>5 DEF QueueOK, r
    <2>4. CASE x # m
      <3>1. waiters'[x] = q
        BY <1>3, <2>4 DEF WaitsOK
      <3>2. q \in Seq(1 .. n)
        BY <1>2, <2>1, SeqMonotonic
      <3>3. \A k \in 1 .. Len(q) : q[k] \in 1 .. Len(awaited)
        BY <2>1
      <3>. HIDE DEF q
      <3>4. \A k \in 1 .. Len(q) : awaited'[q[k]] = x /\ q[k] \notin woken'
        BY <1>1, <1>2, <2>1, <3>3
      <3>5. \A i \in 1 .. n :
              awaited'[i] = x /\ i \notin woken' =>
                \E k \in 1 .. Len(q) : q[k] = i
        <4>. SUFFICES ASSUME NEW i \in 1 .. n,
                             awaited'[i] = x, i \notin woken
                      PROVE  \E k \in 1 .. Len(q) : q[k] = i
          BY <1>1
        <4>1. i \in 1 .. Len(awaited) /\ awaited[i] = x
          BY <1>2, <2>4
        <4>. QED
          BY <2>1, <4>1
      <3>. QED
        BY <1>2, <2>1, <3>1, <3>2, <3>4, <3>5 DEF QueueOK
    <2>. QED
      BY <2>3, <2>4
  <1>. QED
    BY <1>2, <1>4, <1>5 DEF WaitsOK

\* An event takes the first one out of the queue of its method.
LEMMA EventWaits ==
  ASSUME WaitsOK, NEW m, m.method \in Method, HandleEvent(m)
  PROVE  WaitsOK'
  <1>. DEFINE q == waiters[m.method]
  <1>1. UNCHANGED awaited
    BY DEF HandleEvent
  <1>2. CASE q = <<>>
    <2>1. UNCHANGED <<woken, waiters>>
      BY <1>2 DEF HandleEvent
    <2>. HIDE DEF q
    <2>2. ASSUME NEW x \in Method
          PROVE  QueueOK(x)'
      <3>1. QueueOK(x)
        BY DEF WaitsOK
      <3>. QED
        BY <1>1, <2>1, <3>1 DEF QueueOK
    <2>. QED
      BY <1>1, <2>1, <2>2 DEF WaitsOK
  <1>3. CASE q # <<>>
    <2>1. /\ woken' = woken \cup {Head(q)}
          /\ waiters' = [waiters EXCEPT ![m.method] = Tail(q)]
      BY <1>3 DEF HandleEvent
    <2>2. /\ q \in Seq(1 .. Len(awaited))
          /\ \A k \in 1 .. Len(q) :
               awaited[q[k]] = m.method /\ q[k] \notin woken
          /\ \A j, k \in 1 .. Len(q) : j < k => q[j] < q[k]
          /\ \A i \in 1 .. Len(awaited) :
               awaited[i] = m.method /\ i \notin woken =>
                 \E k \in 1 .. Len(q) : q[k] = i
      BY DEF WaitsOK, QueueOK
    <2>. HIDE DEF q
    <2>3. /\ Tail(q) \in Seq(1 .. Len(awaited)) /\ Head(q) = q[1]
          /\ Len(q) \in Nat /\ Len(q) >= 1
          /\ Len(Tail(q)) = Len(q) - 1
          /\ \A k \in 1 .. Len(q) - 1 : Tail(q)[k] = q[k + 1]
          /\ \A k \in 1 .. Len(q) : q[k] \in 1 .. Len(awaited)
      BY <1>3, <2>2
    <2>4. ASSUME NEW x \in Method
          PROVE  QueueOK(x)'
      <3>1. CASE x = m.method
        <4>. DEFINE r == Tail(q)
        <4>1. waiters'[x] = r
          BY <2>1, <3>1 DEF WaitsOK
        <4>. HIDE DEF r
        <4>2. ASSUME NEW k \in 1 .. Len(r)
              PROVE  awaited[r[k]] = x /\ r[k] \notin woken'
          <5>1. k + 1 \in 1 .. Len(q) /\ r[k] = q[k + 1] /\ 1 < k + 1
                /\ 1 \in 1 .. Len(q)
            BY <2>3 DEF r
          <5>2. q[1] < q[k + 1]
            BY <2>2, <5>1
          <5>3. awaited[q[k + 1]] = x /\ q[k + 1] \notin woken
            BY <2>2, <3>1, <5>1
          <5>4. q[k + 1] # q[1]
            BY <2>3, <5>1, <5>2
          <5>. QED
            BY <2>1, <2>3, <5>1, <5>3, <5>4
        <4>3. ASSUME NEW j \in 1 .. Len(r), NEW k \in 1 .. Len(r), j < k
              PROVE  r[j] < r[k]
          <5>1. /\ j + 1 \in 1 .. Len(q) /\ k + 1 \in 1 .. Len(q)
                /\ j + 1 < k + 1
                /\ r[j] = q[j + 1] /\ r[k] = q[k + 1]
            BY <2>3, <4>3 DEF r
          <5>. QED
            BY <2>2, <5>1
        <4>4. ASSUME NEW i \in 1 .. Len(awaited),
                     awaited[i] = x, i \notin woken'
              PROVE  \E k \in 1 .. Len(r) : r[k] = i
          <5>1. PICK k \in 1 .. Len(q) : q[k] = i
            BY <2>1, <2>2, <3>1, <4>4
          <5>2. k # 1
            BY <2>1, <2>3, <4>4, <5>1
          <5>3. k - 1 \in 1 .. Len(r) /\ r[k - 1] = q[(k - 1) + 1]
                /\ (k - 1) + 1 = k
            BY <2>3, <5>2 DEF r
          <5>. QED
            BY <5>1, <5>3
        <4>. QED
          BY <1>1, <2>3, <4>1, <4>2, <4>3, <4>4 DEF QueueOK, r
      <3>2. CASE x # m.method
        <4>1. waiters'[x] = waiters[x] /\ QueueOK(x)
          BY <2>1, <3>2 DEF WaitsOK
        <4>2. \A k \in 1 .. Len(waiters[x]) : waiters[x][k] # Head(q)
          <5>1. 1 \in 1 .. Len(q) /\ Head(q) = q[1]
            BY <2>3
          <5>2. awaited[Head(q)] = m.method
            BY <2>2, <5>1
          <5>3. \A k \in 1 .. Len(waiters[x]) : awaited[waiters[x][k]] = x
            BY <4>1 DEF QueueOK
          <5>. QED
            BY <3>2, <5>2, <5>3
        <4>. DEFINE r == waiters[x]
        <4>3. /\ r \in Seq(1 .. Len(awaited))
              /\ \A k \in 1 .. Len(r) : awaited[r[k]] = x /\ r[k] \notin woken
              /\ \A j, k \in 1 .. Len(r) : j < k => r[j] < r[k]
              /\ \A i \in 1 .. Len(awaited) :
                   awaited[i] = x /\ i \notin woken =>
                     \E k \in 1 .. Len(r) : r[k] = i
          BY <4>1 DEF QueueOK
        <4>4. waiters'[x] = r /\ \A k \in 1 .. Len(r) : r[k] # Head(q)
          BY <4>1, <4>2
        <4>. HIDE DEF r
        <4>5. \A k \in 1 .. Len(r) : r[k] \notin woken'
          BY <2>1, <4>3, <4>4
        <4>6. \A i \in 1 .. Len(awaited) :
                awaited[i] = x /\ i \notin woken' =>
                  \E k \in 1 .. Len(r) : r[k] = i
          BY <2>1, <4>3
        <4>. QED
          BY <1>1, <4>3, <4>4, <4>5, <4>6 DEF QueueOK
      <3>. QED
        BY <3>1, <3>2
    <2>5. /\ DOMAIN waiters' = Method
          /\ woken' \subseteq 1 .. Len(awaited')
      <3>1. Head(q) \in 1 .. Len(awaited)
        BY <2>3
      <3>. QED
        BY <1>1, <2>1, <3>1 DEF WaitsOK
    <2>. QED
      BY <1>1, <2>4, <2>5 DEF WaitsOK
  <1>. QED
    BY <1>2, <1>3

\* What a delivery is, by the kind of the message.
LEMMA DeliverIInv ==
  ASSUME ConnectionIInv, Deliver
  PROVE  ConnectionIInv'
  <1>. DEFINE m == Head(inbox)
  <1>1. /\ WireOK' /\ ~closed /\ m \in Message
    BY InboxShrinks DEF ConnectionIInv
  <1>2. CommandsOK /\ WaitsOK
    BY DEF ConnectionIInv
  <1>3. \/ HandleAnswer(m) \/ HandleEvent(m) \/ OnOpen(m) \/ OnError(m)
        \/ OnClose(m)
    BY DEF Deliver
  <1>. HIDE DEF m
  <1>4. CASE HandleAnswer(m)
    <2>1. CommandsOK'
      BY <1>2, <1>4, AnswerCommands
    <2>2. UNCHANGED <<awaited, waiters, woken, closed>>
      BY <1>4 DEF HandleAnswer
    <2>. QED
      BY <1>1, <1>2, <2>1, <2>2 DEF ConnectionIInv, WaitsOK, QueueOK
  <1>5. CASE HandleEvent(m)
    <2>1. m.method \in Method
      BY <1>1, <1>5 DEF Message, HandleEvent
    <2>2. WaitsOK'
      BY <1>2, <1>5, <2>1, EventWaits
    <2>3. UNCHANGED <<nextId, pending, fate, last, closed>>
      BY <1>5 DEF HandleEvent
    <2>. QED
      BY <1>1, <1>2, <2>2, <2>3 DEF ConnectionIInv, CommandsOK
  <1>6. CASE OnOpen(m) \/ OnError(m)
    <2>1. UNCHANGED <<nextId, pending, fate, last, closed, awaited, waiters,
                      woken>>
      BY <1>6 DEF OnOpen, OnError, scriptVars
    <2>. QED
      BY <1>1, <1>2, <2>1 DEF ConnectionIInv, CommandsOK, WaitsOK, QueueOK
  <1>7. CASE OnClose(m)
    <2>1. CommandsOK'
      BY <1>2, <1>7, CloseCommands
    <2>2. UNCHANGED <<awaited, waiters, woken>> /\ closed' \in BOOLEAN
      BY <1>7 DEF OnClose
    <2>. QED
      BY <1>1, <1>2, <2>1, <2>2 DEF ConnectionIInv, WaitsOK, QueueOK
  <1>. QED
    BY <1>3, <1>4, <1>5, <1>6, <1>7

\* There is no socket before the script opens it.
NoSocketYet == opening = "unmade" => socket = "none"

LEMMA NoSocketStep ==
  NoSocketYet /\ [ConnectionNext]_connectionVars => NoSocketYet'
  <1>. SUFFICES ASSUME NoSocketYet, [ConnectionNext]_connectionVars
                PROVE  NoSocketYet'
    OBVIOUS
  <1>1. CASE UNCHANGED connectionVars
    BY <1>1 DEF NoSocketYet, connectionVars, openVars, wireVars
  <1>2. CASE Open \/ OpenTimeout
    BY <1>2 DEF Open, OpenTimeout, NoSocketYet
  <1>3. CASE Send \/ \E m \in Method : WaitFor(m)
    BY <1>3 DEF Send, WaitFor, NoSocketYet, openVars, wireVars
  <1>4. CASE Deliver
    <2>1. UNCHANGED socket /\ (UNCHANGED opening \/ opening' # "unmade")
      BY <1>4
      DEF Deliver, HandleAnswer, HandleEvent, OnOpen, OnError, OnClose,
          openVars, Settled
    <2>. QED
      BY <2>1 DEF NoSocketYet
  <1>5. CASE Close \/ Accept \/ Fail
    BY <1>5 DEF Close, Accept, Fail, NoSocketYet, openVars
  <1>6. CASE \/ StrayAnswer \/ \E m \in Method : Emit(m)
             \/ \E id \in atChrome, error \in BOOLEAN : Answer(id, error)
    BY <1>6 DEF StrayAnswer, Emit, Answer, NoSocketYet, openVars
  <1>. QED
    BY <1>1, <1>2, <1>3, <1>4, <1>5, <1>6 DEF ConnectionNext

LEMMA ConnectionStep ==
  ConnectionIInv /\ NoSocketYet /\ [ConnectionNext]_connectionVars
    => ConnectionIInv'
  <1>. SUFFICES ASSUME ConnectionIInv, NoSocketYet,
                       [ConnectionNext]_connectionVars
                PROVE  ConnectionIInv'
    OBVIOUS
  <1>1. CommandsOK /\ WireOK /\ WaitsOK
    BY DEF ConnectionIInv
  <1>2. ASSUME UNCHANGED <<scriptVars, closed>>, WireOK'
        PROVE  ConnectionIInv'
    <2>1. UNCHANGED <<nextId, pending, fate, last, closed, awaited, waiters,
                      woken>>
      BY <1>2 DEF scriptVars
    <2>. QED
      BY <1>1, <1>2, <2>1
      DEF ConnectionIInv, CommandsOK, WaitsOK, QueueOK
  <1>3. ASSUME UNCHANGED <<inbox, closed>>, atChrome' \subseteq Nat,
               socket = "closed" => socket' = "closed"
        PROVE  WireOK'
    BY <1>1, <1>3 DEF WireOK
  <1>4. CASE UNCHANGED connectionVars
    <2>1. UNCHANGED <<scriptVars, closed, inbox, atChrome, socket>>
      BY <1>4 DEF connectionVars, wireVars
    <2>. QED
      BY <1>1, <1>2, <1>3, <2>1 DEF WireOK
  <1>5. CASE Open \/ OpenTimeout
    <2>1. UNCHANGED <<scriptVars, closed, inbox, atChrome>>
          /\ (socket' = socket \/ socket = "none")
      BY <1>5 DEF Open, OpenTimeout, wireVars, NoSocketYet
    <2>. QED
      BY <1>1, <1>2, <1>3, <2>1 DEF WireOK
  <1>6. CASE Send
    <2>1. CommandsOK'
      BY <1>1, <1>6, SendCommands
    <2>2. /\ UNCHANGED <<closed, inbox, socket, awaited, waiters, woken>>
          /\ atChrome' \subseteq atChrome \cup {nextId + 1}
      BY <1>6 DEF Send
    <2>3. WireOK'
      BY <1>1, <1>3, <2>2 DEF WireOK, CommandsOK
    <2>. QED
      BY <1>1, <2>1, <2>2, <2>3 DEF ConnectionIInv, WaitsOK, QueueOK
  <1>7. ASSUME NEW m \in Method, WaitFor(m)
        PROVE  ConnectionIInv'
    <2>1. WaitsOK'
      BY <1>1, <1>7, WaitForWaits
    <2>2. UNCHANGED <<nextId, pending, fate, last, closed, inbox, atChrome,
                      socket>>
      BY <1>7 DEF WaitFor, wireVars
    <2>3. CommandsOK' /\ WireOK'
      BY <1>1, <2>2 DEF CommandsOK, WireOK
    <2>. QED
      BY <2>1, <2>2, <2>3 DEF ConnectionIInv
  <1>8. CASE Deliver
    BY <1>8, DeliverIInv
  <1>9. CASE Fail
    <2>1. UNCHANGED <<scriptVars, closed>>
      BY <1>9 DEF Fail
    <2>. QED
      BY <1>1, <1>2, <1>9, <2>1, SocketFails
  <1>10. ASSUME NEW m \in Message, inbox' = Append(inbox, m),
                socket # "closed", UNCHANGED <<scriptVars, closed>>,
                atChrome' \subseteq Nat,
                m.kind = "close" => socket' = "closed"
         PROVE  ConnectionIInv'
    BY <1>1, <1>2, <1>10, InboxGrows
  <1>11. CASE Close
    <2>. DEFINE m == [kind |-> "close"]
    <2>1. m \in Message
      BY DEF Message
    <2>2. /\ inbox' = Append(inbox, m)
          /\ socket # "closed" /\ socket' = "closed"
          /\ UNCHANGED <<scriptVars, closed>> /\ atChrome' \subseteq Nat
      BY <1>11 DEF Close
    <2>. HIDE DEF m
    <2>. QED
      BY <1>10, <2>1, <2>2
  <1>12. CASE Accept
    <2>. DEFINE m == [kind |-> "open"]
    <2>1. m \in Message /\ m.kind # "close"
      BY DEF Message
    <2>2. /\ inbox' = Append(inbox, m)
          /\ socket # "closed"
          /\ UNCHANGED <<scriptVars, closed>> /\ atChrome' \subseteq Nat
      BY <1>1, <1>12 DEF Accept, WireOK
    <2>. HIDE DEF m
    <2>. QED
      BY <1>10, <2>1, <2>2
  <1>13. CASE StrayAnswer
    <2>. DEFINE m == [kind |-> "answer", id |-> Stray, error |-> FALSE]
    <2>1. m \in Message /\ m.kind # "close"
      BY DEF Message
    <2>2. /\ inbox' = Append(inbox, m)
          /\ socket # "closed"
          /\ UNCHANGED <<scriptVars, closed>> /\ atChrome' \subseteq Nat
      BY <1>1, <1>13 DEF StrayAnswer, WireOK
    <2>. HIDE DEF m
    <2>. QED
      BY <1>10, <2>1, <2>2
  <1>14. ASSUME NEW method \in Method, Emit(method)
         PROVE  ConnectionIInv'
    <2>. DEFINE m == [kind |-> "event", method |-> method]
    <2>1. m \in Message /\ m.kind # "close"
      BY DEF Message
    <2>2. /\ inbox' = Append(inbox, m)
          /\ socket # "closed"
          /\ UNCHANGED <<scriptVars, closed>> /\ atChrome' \subseteq Nat
      BY <1>1, <1>14 DEF Emit, WireOK
    <2>. HIDE DEF m
    <2>. QED
      BY <1>10, <2>1, <2>2
  <1>15. ASSUME NEW id \in atChrome, NEW error \in BOOLEAN, Answer(id, error)
         PROVE  ConnectionIInv'
    <2>. DEFINE m == [kind |-> "answer", id |-> id, error |-> error]
    <2>1. m \in Message /\ m.kind # "close"
      BY <1>1 DEF Message, WireOK
    <2>2. /\ inbox' = Append(inbox, m)
          /\ socket # "closed"
          /\ UNCHANGED <<scriptVars, closed>> /\ atChrome' \subseteq Nat
      BY <1>1, <1>15 DEF Answer, WireOK
    <2>. HIDE DEF m
    <2>. QED
      BY <1>10, <2>1, <2>2
  <1>. QED
    BY <1>4, <1>5, <1>6, <1>7, <1>8, <1>9, <1>11, <1>12, <1>13, <1>14, <1>15
    DEF ConnectionNext

(***************************************************************************)
(* The invariant of the connection holds: until the close event the map    *)
(* and the unsettled promises are the same, afterwards nothing is          *)
(* delivered, and the queues always hold those still to be woken.          *)
(***************************************************************************)
THEOREM ConnectionInvariant == ConnectionSpec => []ConnectionIInv
  <1>1. ConnectionInit => ConnectionIInv /\ NoSocketYet
    BY ConnectionInitIInv DEF ConnectionInit, NoSocketYet
  <1>. QED
    BY <1>1, ConnectionStep, NoSocketStep, PTL DEF ConnectionSpec
-----------------------------------------------------------------------------
(* What captures see, as CdpConnection maps it to CdpCalls.                *)

\* n calls, of which those after l are lost if c.
CallSeen(n, c, l, f) ==
  [id \in 1 .. n |-> IF c /\ id > l THEN "lost" ELSE f[id]]

WaitSeen(a, w) == [i \in DOMAIN a |-> [method |-> a[i], woken |-> i \in w]]

CallOf == CallSeen(nextId, closed, last, fate)
WaitOf == WaitSeen(awaited, woken)

Seen == Fate \cup {"lost"}
Wait == [method : Method, woken : BOOLEAN]

\* A sequence that is one longer, and the same up to there.
LEMMA AppendedSeq ==
  ASSUME NEW S, NEW s \in Seq(S), NEW t \in Seq(S), NEW e \in S,
         Len(t) = Len(s) + 1, t[Len(s) + 1] = e,
         \A i \in 1 .. Len(s) : t[i] = s[i]
  PROVE  t = Append(s, e)
  <1>1. /\ Append(s, e) \in Seq(S) /\ Len(Append(s, e)) = Len(s) + 1
        /\ \A i \in 1 .. Len(s) + 1 :
             Append(s, e)[i] = IF i = Len(s) + 1 THEN e ELSE s[i]
    OBVIOUS
  <1>. QED
    BY <1>1, SeqEqual

LEMMA CallSeenType ==
  ASSUME NEW n \in Nat, NEW c, NEW l, NEW f \in Seq(Fate), Len(f) = n,
         NEW s, s = CallSeen(n, c, l, f)
  PROVE  /\ s \in Seq(Seen) /\ Len(s) = n /\ DOMAIN s = 1 .. n
         /\ ~c => s = f
         /\ \A id \in 1 .. n : c /\ id > l => s[id] = "lost"
         /\ \A id \in 1 .. n : ~(c /\ id > l) => s[id] = f[id]
  <1>1. \A id \in 1 .. n : f[id] \in Fate
    OBVIOUS
  <1>2. s \in [1 .. n -> Seen]
    BY <1>1, Zenon DEF CallSeen, Seen
  <1>3. \A id \in 1 .. n : s[id] = IF c /\ id > l THEN "lost" ELSE f[id]
    BY DEF CallSeen
  <1>4. s \in Seq(Seen) /\ Len(s) = n /\ DOMAIN s = 1 .. n
    BY <1>2
  <1>5. /\ \A id \in 1 .. n : c /\ id > l => s[id] = "lost"
        /\ \A id \in 1 .. n : ~(c /\ id > l) => s[id] = f[id]
    BY <1>3, Zenon
  <1>6. ~c => s = f
    <2>1. f \in Seq(Seen)
      BY SeqMonotonic DEF Seen
    <2>2. ~c => \A id \in 1 .. n : s[id] = f[id]
      BY <1>5, Zenon
    <2>. QED
      BY <1>4, <2>1, <2>2, SeqEqual
  <1>. QED
    BY <1>4, <1>5, <1>6, Zenon

\* One entry of the waits.
LEMMA WaitRecord ==
  ASSUME NEW a, NEW b \in BOOLEAN, NEW r, r = [method |-> a, woken |-> b]
  PROVE  /\ r.method = a /\ (r.woken <=> b)
         /\ [r EXCEPT !.woken = TRUE] = [method |-> a, woken |-> TRUE]
  <1>1. r.method = a /\ r.woken = b
    OBVIOUS
  <1>2. [r EXCEPT !.woken = TRUE] = [method |-> a, woken |-> TRUE]
    <2>1. r \in [method : {a}, woken : BOOLEAN]
      OBVIOUS
    <2>. DEFINE x == [r EXCEPT !.woken = TRUE]
    <2>2. /\ x.method = a /\ x.woken = TRUE
          /\ x \in [method : {a}, woken : BOOLEAN]
      BY <2>1
    <2>. HIDE DEF x
    <2>3. x = [method |-> x.method, woken |-> x.woken]
      BY <2>2
    <2>4. x = [method |-> a, woken |-> TRUE]
      BY <2>2, <2>3
    <2>. QED
      BY <2>4 DEF x
  <1>. QED
    BY <1>1, <1>2, Zenon

LEMMA WaitSeenType ==
  ASSUME NEW a \in Seq(Method), NEW w, NEW s, s = WaitSeen(a, w)
  PROVE  /\ s \in Seq(Wait) /\ Len(s) = Len(a)
         /\ DOMAIN s = 1 .. Len(a)
         /\ \A i \in 1 .. Len(a) :
              /\ s[i] = [method |-> a[i], woken |-> i \in w]
              /\ s[i].method = a[i]
              /\ s[i].woken <=> i \in w
  <1>1. /\ DOMAIN a = 1 .. Len(a) /\ Len(a) \in Nat
        /\ \A i \in 1 .. Len(a) : a[i] \in Method
    OBVIOUS
  <1>2. \A i \in 1 .. Len(a) : [method |-> a[i], woken |-> i \in w] \in Wait
    BY <1>1 DEF Wait
  <1>3. s \in [1 .. Len(a) -> Wait]
    BY <1>1, <1>2 DEF WaitSeen
  <1>4. \A i \in 1 .. Len(a) : s[i] = [method |-> a[i], woken |-> i \in w]
    BY <1>1 DEF WaitSeen
  <1>5. s \in Seq(Wait) /\ Len(s) = Len(a) /\ DOMAIN s = 1 .. Len(a)
    BY <1>1, <1>3
  <1>6. \A i \in 1 .. Len(a) :
          s[i].method = a[i] /\ (s[i].woken <=> i \in w)
    <2>. SUFFICES ASSUME NEW i \in 1 .. Len(a)
                  PROVE  s[i].method = a[i] /\ (s[i].woken <=> i \in w)
      OBVIOUS
    <2>1. s[i] = [method |-> a[i], woken |-> i \in w]
      BY <1>4
    <2>2. (i \in w) \in BOOLEAN
      OBVIOUS
    <2>. QED
      BY <2>1, <2>2, WaitRecord, Zenon
  <1>. QED
    BY <1>4, <1>5, <1>6, Zenon

LEMMA SendAsks ==
  ASSUME ConnectionIInv, ConnectionIInv', Send
  PROVE  Calls!Ask
  <1>1. /\ nextId' = nextId + 1 /\ fate' = Append(fate, "pending")
        /\ nextId < MaxCalls
        /\ UNCHANGED <<closed, last, awaited, woken>>
    BY DEF Send
  <1>2. /\ nextId \in Nat /\ fate \in Seq(Fate) /\ Len(fate) = nextId
        /\ last \in 0 .. nextId /\ nextId + 1 \in Nat
        /\ fate' \in Seq(Fate) /\ Len(fate') = nextId + 1
    BY <1>1 DEF ConnectionIInv, CommandsOK
  <1>. DEFINE s == CallSeen(nextId, closed, last, fate)
              t == CallSeen(nextId + 1, closed, last, fate')
  <1>3. CallOf = s /\ CallOf' = t
    BY <1>1, Zenon DEF CallOf
  <1>. HIDE DEF s, t
  <1>4. CASE ~closed
    <2>1. s = fate /\ t = fate'
      BY <1>2, <1>4, CallSeenType DEF s, t
    <2>. QED
      BY <1>1, <1>2, <1>3, <1>4, <2>1
      DEF Calls!Ask, CallOf, WaitOf, CallSeen, WaitSeen
  <1>5. CASE closed
    <2>1. /\ s \in Seq(Seen) /\ Len(s) = nextId
          /\ \A id \in 1 .. nextId : closed /\ id > last => s[id] = "lost"
          /\ \A id \in 1 .. nextId :
               ~(closed /\ id > last) => s[id] = fate[id]
      BY <1>2, CallSeenType DEF s
    <2>2. /\ t \in Seq(Seen) /\ Len(t) = nextId + 1
          /\ \A id \in 1 .. nextId + 1 :
               closed /\ id > last => t[id] = "lost"
          /\ \A id \in 1 .. nextId + 1 :
               ~(closed /\ id > last) => t[id] = fate'[id]
      BY <1>2, CallSeenType DEF t
    <2>3. \A id \in 1 .. nextId : id > last => s[id] = t[id]
      BY <1>2, <1>5, <2>1, <2>2
    <2>4. \A id \in 1 .. nextId : ~(id > last) => s[id] = t[id]
      <3>1. \A id \in 1 .. nextId : fate'[id] = fate[id]
        BY <1>1, <1>2
      <3>2. 1 .. nextId \subseteq 1 .. nextId + 1
        BY <1>2
      <3>. QED
        BY <2>1, <2>2, <3>1, <3>2, Zenon
    <2>5. t[nextId + 1] = "lost" /\ "lost" \in Seen
      <3>1. nextId + 1 \in 1 .. nextId + 1 /\ nextId + 1 > last
        BY <1>2
      <3>. QED
        BY <1>5, <2>2, <3>1, Zenon DEF Seen
    <2>6. t = Append(s, "lost")
      BY <2>1, <2>2, <2>3, <2>4, <2>5, AppendedSeq
    <2>. QED
      BY <1>1, <1>3, <1>5, <2>1, <2>6
      DEF Calls!Ask, CallOf, WaitOf, CallSeen, WaitSeen
  <1>. QED
    BY <1>4, <1>5

LEMMA WaitForAwaits ==
  ASSUME ConnectionIInv, ConnectionIInv', NEW m \in Method, WaitFor(m)
  PROVE  Calls!Await(m)
  <1>1. /\ awaited' = Append(awaited, m) /\ Len(awaited) < MaxWaits
        /\ UNCHANGED <<closed, last, nextId, fate, woken>>
    BY DEF WaitFor
  <1>2. /\ awaited \in Seq(Method) /\ awaited' \in Seq(Method)
        /\ woken \subseteq 1 .. Len(awaited)
    BY DEF ConnectionIInv, WaitsOK
  <1>. DEFINE s == WaitSeen(awaited, woken)
              t == WaitSeen(awaited', woken)
              e == [method |-> m, woken |-> FALSE]
  <1>3. WaitOf = s /\ WaitOf' = t
    BY <1>1, Zenon DEF WaitOf
  <1>4. /\ s \in Seq(Wait) /\ Len(s) = Len(awaited)
        /\ \A i \in 1 .. Len(awaited) :
             s[i] = [method |-> awaited[i], woken |-> i \in woken]
    BY <1>2, WaitSeenType
  <1>5. /\ t \in Seq(Wait) /\ Len(t) = Len(awaited')
        /\ \A i \in 1 .. Len(awaited') :
             t[i] = [method |-> awaited'[i], woken |-> i \in woken]
    BY <1>2, WaitSeenType
  <1>. HIDE DEF s, t
  <1>6. /\ Len(awaited') = Len(awaited) + 1 /\ Len(awaited) \in Nat
        /\ awaited'[Len(awaited) + 1] = m
        /\ \A i \in 1 .. Len(awaited) : awaited'[i] = awaited[i]
        /\ Len(awaited) + 1 \notin woken
    BY <1>1, <1>2
  <1>7. \A i \in 1 .. Len(s) : t[i] = s[i]
    BY <1>4, <1>5, <1>6
  <1>8. t[Len(s) + 1] = e /\ e \in Wait
    <2>1. (Len(awaited) + 1 \in woken) = FALSE
      BY <1>6
    <2>2. t[Len(s) + 1] = [method |-> m, woken |-> Len(awaited) + 1 \in woken]
      BY <1>4, <1>5, <1>6
    <2>. QED
      BY <2>1, <2>2 DEF Wait
  <1>. HIDE DEF e
  <1>9. t = Append(s, e)
    BY <1>4, <1>5, <1>6, <1>7, <1>8, AppendedSeq
  <1>10. UNCHANGED <<~closed, CallOf>>
    BY <1>1 DEF CallOf
  <1>. QED
    BY <1>1, <1>3, <1>4, <1>9, <1>10
    DEF Calls!Await, CallOf, WaitOf, CallSeen, WaitSeen, e

\* While the connection is up, captures see the promises as they are.
LEMMA UpCallOf ==
  ASSUME CommandsOK, ~closed
  PROVE  CallOf = fate
  BY CallSeenType DEF CommandsOK, CallOf

LEMMA AnswerSettles ==
  ASSUME ConnectionIInv, ~closed, NEW m, HandleAnswer(m)
  PROVE  \/ UNCHANGED <<closed, CallOf, WaitOf>>
         \/ \E i \in DOMAIN CallOf, f \in {"resolved", "rejected"} :
              Calls!Settle(i, f)
  <1>1. /\ UNCHANGED <<nextId, last, closed, awaited, woken>>
        /\ UNCHANGED WaitOf
    BY DEF HandleAnswer, WaitOf
  <1>2. CASE m.id \notin pending
    BY <1>1, <1>2 DEF HandleAnswer, CallOf
  <1>3. CASE m.id \in pending
    <2>1. PICK f \in {"resolved", "rejected"} :
            fate' = [fate EXCEPT ![m.id] = f]
      BY <1>3 DEF HandleAnswer
    <2>2. /\ m.id \in 1 .. nextId /\ fate[m.id] = "pending"
          /\ CommandsOK
      BY <1>3 DEF ConnectionIInv, CommandsOK
    <2>3. CallOf = fate /\ DOMAIN CallOf = 1 .. nextId
      BY <2>2, UpCallOf DEF CommandsOK
    <2>4. CallOf' = fate'
      <3>1. CallOf' = CallSeen(nextId, closed, last, fate')
        BY <1>1 DEF CallOf
      <3>2. nextId \in Nat /\ fate' \in Seq(Fate) /\ Len(fate') = nextId
        <4>1. fate \in [1 .. nextId -> Fate] /\ nextId \in Nat
          BY LenProperties DEF ConnectionIInv, CommandsOK
        <4>2. fate' \in [1 .. nextId -> Fate]
          BY <2>1, <2>2, <4>1 DEF Fate
        <4>. QED
          BY <4>1, <4>2
      <3>. QED
        BY <3>1, <3>2, CallSeenType
    <2>5. /\ CallOf[m.id] = "pending"
          /\ CallOf' = [CallOf EXCEPT ![m.id] = f]
      BY <2>1, <2>2, <2>3, <2>4
    <2>6. Calls!Settle(m.id, f)
      BY <1>1, <2>5 DEF Calls!Settle, CallOf, WaitOf, CallSeen, WaitSeen
    <2>. QED
      BY <2>2, <2>3, <2>6
  <1>. QED
    BY <1>2, <1>3

LEMMA EventWakes ==
  ASSUME ConnectionIInv, ~closed, NEW m, m.method \in Method, HandleEvent(m)
  PROVE  \/ UNCHANGED <<closed, CallOf, WaitOf>>
         \/ \E i \in DOMAIN WaitOf : Calls!Wake(i)
  <1>. DEFINE q == waiters[m.method]
  <1>1. UNCHANGED <<nextId, last, closed, fate, awaited>> /\ UNCHANGED CallOf
    BY DEF HandleEvent, CallOf
  <1>2. CASE q = <<>>
    BY <1>1, <1>2 DEF HandleEvent, WaitOf
  <1>3. CASE q # <<>>
    <2>1. woken' = woken \cup {Head(q)}
      BY <1>3 DEF HandleEvent
    <2>2. /\ q \in Seq(1 .. Len(awaited))
          /\ \A k \in 1 .. Len(q) :
               awaited[q[k]] = m.method /\ q[k] \notin woken
          /\ \A j, k \in 1 .. Len(q) : j < k => q[j] < q[k]
          /\ \A i \in 1 .. Len(awaited) :
               awaited[i] = m.method /\ i \notin woken =>
                 \E k \in 1 .. Len(q) : q[k] = i
          /\ awaited \in Seq(Method)
      BY DEF ConnectionIInv, WaitsOK, QueueOK
    <2>. HIDE DEF q
    <2>0. PICK i \in 1 .. Len(awaited) : i = q[1]
      BY <1>3, <2>2
    <2>. DEFINE s == WaitSeen(awaited, woken)
                t == WaitSeen(awaited, woken')
    <2>3. /\ Head(q) = i /\ i \in 1 .. Len(awaited)
          /\ 1 \in 1 .. Len(q)
          /\ awaited[i] = m.method /\ i \notin woken
      BY <1>3, <2>0, <2>2
    <2>4. \A j \in 1 .. i - 1 : awaited[j] = m.method => j \in woken
      <3>. SUFFICES ASSUME NEW j \in 1 .. i - 1, awaited[j] = m.method,
                           j \notin woken
                    PROVE  FALSE
        OBVIOUS
      <3>1. j \in 1 .. Len(awaited) /\ j < i
        BY <2>2, <2>3
      <3>2. PICK k \in 1 .. Len(q) : q[k] = j
        BY <2>2, <3>1
      <3>3. k # 1
        BY <2>0, <3>1, <3>2
      <3>4. i < q[k]
        BY <2>0, <2>2, <2>3, <3>3
      <3>. QED
        BY <2>3, <3>1, <3>2, <3>4
    <2>5. WaitOf = s /\ WaitOf' = t
      BY <1>1, Zenon DEF WaitOf
    <2>6. /\ s \in Seq(Wait) /\ Len(s) = Len(awaited)
          /\ DOMAIN s = 1 .. Len(awaited)
          /\ \A j \in 1 .. Len(awaited) :
               /\ s[j] = [method |-> awaited[j], woken |-> j \in woken]
               /\ s[j].method = awaited[j]
               /\ s[j].woken <=> j \in woken
      BY <2>2, WaitSeenType
    <2>7. /\ t \in Seq(Wait) /\ Len(t) = Len(awaited)
          /\ \A j \in 1 .. Len(awaited) :
               t[j] = [method |-> awaited[j], woken |-> j \in woken']
      BY <2>2, WaitSeenType
    <2>. HIDE DEF s, t
    <2>8. t = [s EXCEPT ![i].woken = TRUE]
      <3>. DEFINE r == [s EXCEPT ![i].woken = TRUE]
      <3>1. s[i] \in Wait /\ [s[i] EXCEPT !.woken = TRUE] \in Wait
        <4>1. s[i] \in Wait
          BY <2>3, <2>6
        <4>2. [s[i] EXCEPT !.woken = TRUE] =
                [method |-> awaited[i], woken |-> TRUE]
          <5>1. s[i] = [method |-> awaited[i], woken |-> i \in woken]
                /\ (i \in woken) \in BOOLEAN
            BY <2>3, <2>6
          <5>. QED
            BY <5>1, WaitRecord, Zenon
        <4>. QED
          BY <2>2, <2>3, <4>1, <4>2 DEF Wait
      <3>2. s \in [1 .. Len(awaited) -> Wait] /\ Len(awaited) \in Nat
        BY <2>2, <2>6
      <3>3. /\ r \in [1 .. Len(awaited) -> Wait]
            /\ r[i] = [s[i] EXCEPT !.woken = TRUE]
            /\ \A j \in 1 .. Len(awaited) : j # i => r[j] = s[j]
        BY <2>3, <3>1, <3>2
      <3>. HIDE DEF r
      <3>4. r \in Seq(Wait) /\ Len(r) = Len(awaited)
        BY <3>2, <3>3
      <3>5. r[i] = t[i]
        <4>2. t[i] = [method |-> awaited[i], woken |-> i \in woken']
          BY <2>3, <2>7
        <4>3. (i \in woken') = TRUE
          BY <2>1, <2>3
        <4>4. [s[i] EXCEPT !.woken = TRUE] =
                [method |-> awaited[i], woken |-> TRUE]
          <5>1. s[i] = [method |-> awaited[i], woken |-> i \in woken]
                /\ (i \in woken) \in BOOLEAN
            BY <2>3, <2>6
          <5>. QED
            BY <5>1, WaitRecord, Zenon
        <4>. QED
          BY <3>3, <4>2, <4>3, <4>4
      <3>6. ASSUME NEW j \in 1 .. Len(awaited), j # i
            PROVE  r[j] = t[j]
        <4>1. (j \in woken') = (j \in woken)
          BY <2>1, <2>3, <3>6
        <4>. QED
          BY <2>6, <2>7, <3>3, <3>6, <4>1
      <3>7. r = t
        BY <2>7, <3>4, <3>5, <3>6, SeqEqual
      <3>. QED
        BY <3>7 DEF r
    <2>9. ~s[i].woken
      BY <2>3, <2>6, Zenon
    <2>10. ASSUME NEW j \in 1 .. i - 1, s[j].method = s[i].method
           PROVE  s[j].woken
      <3>1. j \in 1 .. Len(awaited)
        BY <2>2, <2>3
      <3>2. awaited[j] = m.method
        BY <2>3, <2>6, <2>10, <3>1
      <3>3. j \in woken
        BY <2>4, <3>2
      <3>. QED
        BY <2>6, <3>1, <3>3, Zenon
    <2>11. Calls!Wake(i)
      BY <1>1, <2>5, <2>8, <2>9, <2>10
      DEF Calls!Wake, CallOf, WaitOf, CallSeen, WaitSeen
    <2>12. i \in DOMAIN WaitOf
      BY <2>3, <2>5, <2>6
    <2>. QED
      BY <2>11, <2>12
  <1>. QED
    BY <1>2, <1>3

LEMMA CloseIsDown ==
  ASSUME ConnectionIInv, ConnectionIInv', ~closed, NEW m, OnClose(m)
  PROVE  Calls!Down
  <1>1. /\ nextId' = nextId /\ closed' = TRUE /\ last' = nextId
        /\ UNCHANGED <<awaited, woken>>
        /\ fate' = [id \in DOMAIN fate |->
                      IF id \in pending THEN "rejected" ELSE fate[id]]
    BY DEF OnClose
  <1>2. CommandsOK /\ CommandsOK'
    BY DEF ConnectionIInv
  <1>3. CallOf = fate /\ DOMAIN fate = 1 .. nextId /\ nextId \in Nat
    BY <1>2, UpCallOf DEF CommandsOK
  <1>4. CallOf' = fate'
    <2>. DEFINE t == CallSeen(nextId, closed', nextId, fate')
    <2>1. CallOf' = t
      BY <1>1 DEF CallOf
    <2>2. fate' \in Seq(Fate) /\ Len(fate') = nextId
      BY <1>1, <1>2 DEF CommandsOK
    <2>3. /\ t \in Seq(Seen) /\ Len(t) = nextId
          /\ \A id \in 1 .. nextId :
               ~(closed' /\ id > nextId) => t[id] = fate'[id]
      BY <1>3, <2>2, CallSeenType
    <2>. HIDE DEF t
    <2>4. \A id \in 1 .. nextId : ~(id > nextId)
      BY <1>3
    <2>5. \A id \in 1 .. nextId : t[id] = fate'[id]
      BY <2>3, <2>4, Zenon
    <2>6. fate' \in Seq(Seen)
      BY <2>2, SeqMonotonic DEF Seen
    <2>. QED
      BY <2>1, <2>2, <2>3, <2>5, <2>6, SeqEqual
  <1>5. fate' = [id \in DOMAIN fate |->
                   IF fate[id] = "pending" THEN "rejected" ELSE fate[id]]
    BY <1>1, <1>2, <1>3 DEF CommandsOK
  <1>6. CallOf' = [id \in DOMAIN CallOf |->
                     IF CallOf[id] = "pending" THEN "rejected"
                     ELSE CallOf[id]]
    BY <1>3, <1>4, <1>5
  <1>7. UNCHANGED WaitOf
    BY <1>1 DEF WaitOf
  <1>. QED
    BY <1>1, <1>6, <1>7
    DEF Calls!Down, CallOf, WaitOf, CallSeen, WaitSeen

LEMMA ConnectionRefines ==
  ASSUME ConnectionIInv, ConnectionIInv', [ConnectionNext]_connectionVars
  PROVE  Calls!CallsNext \/ UNCHANGED <<closed, CallOf, WaitOf>>
  <1>1. ASSUME UNCHANGED <<scriptVars, closed>>
        PROVE  UNCHANGED <<closed, CallOf, WaitOf>>
    BY <1>1 DEF scriptVars, CallOf, WaitOf
  <1>2. CASE UNCHANGED connectionVars
    BY <1>1, <1>2 DEF connectionVars
  <1>3. CASE Open \/ OpenTimeout \/ Close \/ Accept \/ Fail \/ StrayAnswer
    BY <1>1, <1>3 DEF Open, OpenTimeout, Close, Accept, Fail, StrayAnswer
  <1>4. CASE \/ \E m \in Method : Emit(m)
             \/ \E id \in atChrome, error \in BOOLEAN : Answer(id, error)
    BY <1>1, <1>4 DEF Emit, Answer
  <1>5. CASE Send
    BY <1>5, SendAsks DEF Calls!CallsNext
  <1>6. ASSUME NEW m \in Method, WaitFor(m)
        PROVE  Calls!CallsNext
    BY <1>6, WaitForAwaits DEF Calls!CallsNext
  <1>7. CASE Deliver
    <2>1. PICK m : m = Head(inbox)
      OBVIOUS
    <2>2. ~closed /\ m \in Message
      BY <1>7, <2>1, InboxShrinks DEF ConnectionIInv
    <2>3. \/ HandleAnswer(m) \/ HandleEvent(m) \/ OnOpen(m) \/ OnError(m)
          \/ OnClose(m)
      BY <1>7, <2>1 DEF Deliver, HandleAnswer, HandleEvent, OnOpen, OnError,
                        OnClose
    <2>4. CASE HandleAnswer(m)
      BY <2>2, <2>4, AnswerSettles DEF Calls!CallsNext, CallOf, CallSeen
    <2>5. CASE HandleEvent(m)
      <3>1. m.method \in Method
        BY <2>2, <2>5 DEF Message, HandleEvent
      <3>. QED
        BY <2>2, <2>5, <3>1, EventWakes
        DEF Calls!CallsNext, WaitOf, WaitSeen
    <2>6. CASE OnOpen(m) \/ OnError(m)
      BY <1>1, <2>6 DEF OnOpen, OnError
    <2>7. CASE OnClose(m)
      BY <2>2, <2>7, CloseIsDown DEF Calls!CallsNext
    <2>. QED
      BY <2>3, <2>4, <2>5, <2>6, <2>7
  <1>. QED
    BY <1>2, <1>3, <1>4, <1>5, <1>6, <1>7 DEF ConnectionNext

(***************************************************************************)
(* The connection gives what captures count on, whatever Chrome answers    *)
(* and whenever the socket fails: every step of it is a step of CdpCalls,  *)
(* or changes nothing captures see.                                        *)
(***************************************************************************)
THEOREM ConnectionImplementsCalls == ConnectionSpec => ImplementsCalls
  <1>1. ConnectionInit => Calls!CallsInit
    <2>. SUFFICES ASSUME ConnectionInit PROVE Calls!CallsInit
      OBVIOUS
    <2>1. nextId = 0 /\ awaited = <<>> /\ closed = FALSE
      BY DEF ConnectionInit
    <2>2. CallOf = <<>>
      <3>1. CallOf = [id \in {} |-> "lost"]
        BY <2>1 DEF CallOf, CallSeen
      <3>. QED
        BY <3>1
    <2>3. WaitOf = <<>>
      <3>1. DOMAIN awaited = {}
        BY <2>1
      <3>. QED
        BY <3>1 DEF WaitOf, WaitSeen
    <2>. QED
      BY <2>1, <2>2, <2>3
      DEF Calls!CallsInit, CallOf, WaitOf, CallSeen, WaitSeen
  <1>2. ConnectionIInv /\ ConnectionIInv' /\ [ConnectionNext]_connectionVars
          => [Calls!CallsNext]_(Calls!callsVars)
    <2>. SUFFICES ASSUME ConnectionIInv, ConnectionIInv',
                         [ConnectionNext]_connectionVars
                  PROVE  Calls!CallsNext \/ UNCHANGED Calls!callsVars
      OBVIOUS
    <2>1. CASE UNCHANGED <<closed, CallOf, WaitOf>>
      BY <2>1 DEF Calls!callsVars, CallOf, WaitOf, CallSeen, WaitSeen
    <2>. QED
      BY <2>1, ConnectionRefines
  <1>. QED
    BY <1>1, <1>2, ConnectionInvariant, PTL
    DEF ConnectionSpec, ImplementsCalls, Calls!CallsSpec
-----------------------------------------------------------------------------
(* One capture, from its arguments to its exit code.                       *)

\* The steps of main, as far as the invariant tells them apart.
LEMMA ScriptSteps ==
  /\ Len(Script) = 22
  /\ \A i \in 1 .. 22 :
       /\ Script[i].on = "chrome" => i = 3
       /\ Script[i].on = "page" => i \in 4 .. 18 /\ i # 17
       /\ Script[i].on = "event" <=> i = 17
       /\ Script[i].on = "local" => i \notin 3 .. 5 /\ i \notin 15 .. 18
       /\ Script[i].name = "trace" <=> i = 19
       /\ Script[i].name = "meta" <=> i = 20
       /\ Script[i].name = "forensics" <=> i = 21
       /\ i \in 19 .. 21 => Script[i].errors = "throw"
  <1>1. Len(Script) = 22
    BY DEF Script
  <1>2. /\ Script[1] = Step("port", "local", "exit")
        /\ Script[2] = Step("launch", "local", "throw")
        /\ Script[3] = Step("endpoint", "chrome", "throw")
        /\ Script[4] = Step("enable", "page", "throw")
        /\ Script[5] = Step("front-readiness", "page", "record")
        /\ Script[6] = Step("settle", "local", "throw")
        /\ Script[7] = Step("readiness", "page", "throw")
        /\ Script[8] = Step("probe", "page", "record")
        /\ Script[9] = Step("front-tracing", "page", "record")
        /\ Script[10] = Step("tracing-start", "page", "throw")
        /\ Script[11] = Step("before", "page", "record")
    BY DEF Script
  <1>3. /\ Script[12] = Step("gate", "page", "throw")
        /\ Script[13] = Step("capture-start", "page", "throw")
        /\ Script[14] = Step("phases", "local", "throw")
        /\ Script[15] = Step("capture-end", "page", "throw")
        /\ Script[16] = Step("tracing-end", "page", "throw")
        /\ Script[17] = Step("complete", "event", "throw")
        /\ Script[18] = Step("collect", "page", "record")
        /\ Script[19] = Step("trace", "local", "throw")
        /\ Script[20] = Step("meta", "local", "throw")
        /\ Script[21] = Step("forensics", "local", "throw")
        /\ Script[22] = Step("close", "local", "throw")
    BY DEF Script
  <1>4. ASSUME NEW i \in 1 .. 22
        PROVE  /\ Script[i].on = "chrome" => i = 3
               /\ Script[i].on = "page" => i \in 4 .. 18 /\ i # 17
               /\ Script[i].on = "event" <=> i = 17
               /\ Script[i].on = "local" => /\ i \notin 3 .. 5
                                            /\ i \notin 15 .. 18
               /\ Script[i].name = "trace" <=> i = 19
               /\ Script[i].name = "meta" <=> i = 20
               /\ Script[i].name = "forensics" <=> i = 21
               /\ i \in 19 .. 21 => Script[i].errors = "throw"
    <2>1. CASE i \in 1 .. 11
      BY <1>2, <2>1 DEF Step
    <2>2. CASE i \in 12 .. 18
      BY <1>3, <2>2 DEF Step
    <2>3. CASE i = 19
      BY <1>3, <2>3 DEF Step
    <2>4. CASE i = 20
      BY <1>3, <2>4 DEF Step
    <2>5. CASE i = 21
      BY <1>3, <2>5 DEF Step
    <2>6. CASE i = 22
      BY <1>3, <2>6 DEF Step
    <2>. QED
      BY <2>1, <2>2, <2>3, <2>4, <2>5, <2>6
  <1>. QED
    BY <1>1, <1>4

\* The files a run without an error has written before a step of main.
FilesAt(i) ==
  CASE i <= 19 -> {}
    [] i = 20 -> {"trace"}
    [] i = 21 -> {"trace", "meta"}
    [] i \in 22 .. 24 -> {"trace", "meta", "forensics"}
    [] i > 24 -> {"trace", "meta", "forensics", "final-meta"}

\* What a step that goes well adds to the files.
LEMMA WrittenBy ==
  ASSUME NEW i \in 1 .. 22
  PROVE  FilesAt(i + 1) =
           FilesAt(i) \cup
             ({Script[i].name} \cap {"trace", "meta", "forensics"})
  <1>1. CASE i = 19
    <2>1. Script[i].name = "trace" /\ FilesAt(i) = {}
      BY <1>1, ScriptSteps DEF FilesAt
    <2>2. FilesAt(i + 1) = {"trace"}
      BY <1>1 DEF FilesAt
    <2>. QED
      BY <2>1, <2>2
  <1>2. CASE i = 20
    <2>1. Script[i].name = "meta" /\ FilesAt(i) = {"trace"}
      BY <1>2, ScriptSteps DEF FilesAt
    <2>2. FilesAt(i + 1) = {"trace", "meta"}
      BY <1>2 DEF FilesAt
    <2>. QED
      BY <2>1, <2>2
  <1>3. CASE i = 21
    <2>1. Script[i].name = "forensics" /\ FilesAt(i) = {"trace", "meta"}
      BY <1>3, ScriptSteps DEF FilesAt
    <2>2. FilesAt(i + 1) = {"trace", "meta", "forensics"}
      BY <1>3 DEF FilesAt
    <2>. QED
      BY <2>1, <2>2
  <1>4. CASE i \notin 19 .. 21
    <2>1. Script[i].name \notin {"trace", "meta", "forensics"}
      BY <1>4, ScriptSteps
    <2>2. {Script[i].name} \cap {"trace", "meta", "forensics"} = {}
      BY <2>1
    <2>3. FilesAt(i + 1) = FilesAt(i)
      BY <1>4 DEF FilesAt
    <2>. QED
      BY <2>2, <2>3
  <1>. QED
    BY <1>1, <1>2, <1>3, <1>4

(***************************************************************************)
(* The inductive invariant of a run that has not ended: how far main is    *)
(* says what is written and whether it may await a call; and the one       *)
(* cleanup has an owner who is still there.                                *)
(***************************************************************************)
MainOK ==
  /\ at \in 0 .. 25
  /\ at <= 2 => chrome = "none"
  /\ at > 2 /\ ~failed => chrome # "none"
  /\ chrome # "failed"
  /\ at <= 1 => ~profile
  /\ failed => at \in 23 .. 24
  /\ ~failed => files = FilesAt(at)
  /\ call # "none" => at \in 4 .. 18 /\ at # 17

CleanupOK ==
  /\ waiting \subseteq Signals /\ armed \cap waiting = {}
  /\ at = 0 => waiting = {}
  /\ waiting # {} => cleanupStatus # "not-run"
  /\ cleanupStatus = "not-run" =>
       cleaning = "no" /\ cleaner = "nobody" /\ at <= 23
  /\ cleanupStatus # "not-run" =>
       cleaning # "no" /\ cleaner \in waiting \cup {"main"}
  /\ cleaner = "main" => IF cleaning = "over" THEN at >= 24 ELSE at = 23

ChromeStates == {"none", "running", "gone", "failed"}

CaptureIInv ==
  /\ chrome \in ChromeStates
  /\ Running => MainOK /\ CleanupOK
  /\ SuccessIsWhole
  /\ EveryExitCleansUp

LEMMA StillRunning ==
  ASSUME Running, UNCHANGED exit, MainOK', CleanupOK',
         chrome' \in ChromeStates
  PROVE  CaptureIInv'
  BY DEF CaptureIInv, Running, SuccessIsWhole, EveryExitCleansUp

\* A step of the script that goes well.
LEMMA AdvanceMain ==
  ASSUME MainOK, InScript, Advance, ~failed, files' = FilesAt(at + 1),
         chrome' = "none" <=> at <= 1, chrome' # "failed"
  PROVE  MainOK'
  <1>1. /\ at \in 1 .. 22 /\ at' = at + 1 /\ call' = "none"
        /\ failed' = failed
    BY ScriptSteps DEF InScript, Advance
  <1>. QED
    BY <1>1 DEF MainOK

LEMMA ThrowMain ==
  ASSUME MainOK, Throw, UNCHANGED chrome
  PROVE  MainOK'
  <1>1. at' = 23 /\ failed' /\ call' = "none"
    BY ScriptSteps DEF Throw
  <1>. QED
    BY <1>1 DEF MainOK

\* Main in its script has not begun the cleanup.
LEMMA ScriptCleanup ==
  ASSUME CleanupOK, InScript, at' \in 1 .. 23,
         UNCHANGED <<cleanupVars, signalVars>>
  PROVE  CleanupOK'
  <1>1. at \in 1 .. 22
    BY ScriptSteps DEF InScript
  <1>2. cleaner # "main"
    BY <1>1 DEF CleanupOK
  <1>. QED
    BY <1>1, <1>2 DEF CleanupOK, cleanupVars, signalVars

\* A failure that is recorded goes on, another one ends the script.
LEMMA FailsMain ==
  ASSUME MainOK, InScript, Fails, at \notin 19 .. 21, ~failed,
         at \in 3 .. 18, UNCHANGED <<files, chrome>>
  PROVE  MainOK' /\ at' \in 1 .. 23
  <1>1. /\ chrome # "none" /\ chrome # "failed"
        /\ files = FilesAt(at + 1)
    BY DEF MainOK, FilesAt
  <1>2. CASE Advance
    BY <1>1, <1>2, AdvanceMain DEF Advance, MainOK
  <1>3. CASE Throw
    BY <1>1, <1>3, ThrowMain, ScriptSteps DEF Throw
  <1>. QED
    BY <1>2, <1>3 DEF Fails

LEMMA ScriptMain ==
  ASSUME Running, MainOK, CleanupOK,
         CheckPort \/ Launch \/ Connect \/ LocalStep \/ Ask \/ Answered
           \/ Completed,
         UNCHANGED exit
  PROVE  MainOK' /\ CleanupOK'
  <1>1. ~(failed /\ InScript)
    BY ScriptSteps DEF MainOK, InScript
  <1>2. ASSUME UNCHANGED <<cleanupVars, signalVars>>, InScript,
               MainOK', at' \in 1 .. 23
        PROVE  MainOK' /\ CleanupOK'
    BY <1>2, ScriptCleanup
  <1>3. CASE CheckPort
    <2>1. /\ at = 1 /\ InScript /\ Advance
          /\ UNCHANGED <<cleanupVars, signalVars, files, chrome>>
      BY <1>3, ScriptSteps
      DEF CheckPort, Running, InScript, chromeVars
    <2>2. MainOK' /\ at' = 2
      BY <1>1, <2>1, AdvanceMain DEF MainOK, FilesAt, Advance
    <2>. QED
      BY <1>2, <2>1, <2>2
  <1>4. CASE Launch
    <2>1. /\ at = 2 /\ InScript
          /\ UNCHANGED <<files, cleaner, cleaning, cleanupStatus, signalVars>>
          /\ \/ Advance /\ chrome' = "running"
             \/ Throw /\ UNCHANGED chrome
      BY <1>4, ScriptSteps DEF Launch, InScript, Running
    <2>2. MainOK' /\ at' \in {3, 23}
      <3>1. CASE Advance /\ chrome' = "running"
        BY <1>1, <2>1, <3>1, AdvanceMain DEF MainOK, FilesAt, Advance
      <3>2. CASE Throw /\ UNCHANGED chrome
        BY <3>2, ThrowMain, ScriptSteps DEF Throw
      <3>. QED
        BY <2>1, <3>1, <3>2
    <2>3. CleanupOK'
      BY <2>1, <2>2 DEF CleanupOK, signalVars
    <2>. QED
      BY <2>2, <2>3
  <1>5. CASE Connect
    <2>1. /\ at = 3 /\ InScript
          /\ UNCHANGED <<cleanupVars, signalVars, files, chrome>>
      BY <1>5, ScriptSteps DEF Connect, InScript, Current, chromeVars
    <2>2. /\ chrome # "none" /\ chrome # "failed"
          /\ files = FilesAt(at + 1) /\ ~failed
      BY <1>1, <2>1 DEF MainOK, FilesAt
    <2>3. Advance \/ Fails
      BY <1>5 DEF Connect
    <2>4. MainOK' /\ at' \in 1 .. 23
      <3>1. CASE Advance
        BY <2>1, <2>2, <3>1, AdvanceMain DEF Advance
      <3>2. CASE Fails
        BY <2>1, <2>2, <3>2, FailsMain
      <3>. QED
        BY <2>3, <3>1, <3>2
    <2>. QED
      BY <1>2, <2>1, <2>4
  <1>6. CASE LocalStep
    <2>1. /\ InScript /\ at \in 6 .. 22 /\ at \notin 15 .. 18
          /\ UNCHANGED <<cleanupVars, signalVars, chrome>>
      BY <1>6, ScriptSteps DEF LocalStep, InScript, Current, chromeVars
    <2>2. CASE /\ files' = files \cup ({Current.name}
                                         \cap {"trace", "meta", "forensics"})
               /\ Advance
      <3>1. /\ files = FilesAt(at)
            /\ files' = files \cup ({Script[at].name}
                                       \cap {"trace", "meta", "forensics"})
        BY <1>1, <2>1, <2>2 DEF MainOK, Current
      <3>2. at \in 1 .. 22
        BY <2>1
      <3>3. files' = FilesAt(at + 1)
        BY <3>1, <3>2, WrittenBy
      <3>4. MainOK' /\ at' \in 1 .. 23
        BY <1>1, <2>1, <2>2, <3>3, AdvanceMain DEF MainOK, Advance
      <3>. QED
        BY <1>2, <2>1, <3>4
    <2>3. CASE Current.name \in {"trace", "meta", "forensics"} /\ Fails
      <3>1. at \in 19 .. 21
        BY <2>1, <2>3, ScriptSteps DEF Current
      <3>2. Throw
        BY <2>1, <2>3, <3>1, ScriptSteps DEF Fails, Current
      <3>3. MainOK' /\ at' \in 1 .. 23
        BY <2>1, <3>2, ThrowMain, ScriptSteps DEF MainOK, Throw
      <3>. QED
        BY <1>2, <2>1, <3>3
    <2>. QED
      BY <1>6, <2>2, <2>3 DEF LocalStep
  <1>7. CASE Ask
    <2>1. /\ InScript /\ at \in 4 .. 18 /\ at # 17
          /\ UNCHANGED <<at, failed, files, chrome, cleanupVars, signalVars>>
      BY <1>7, ScriptSteps DEF Ask, InScript, Current, chromeVars
    <2>2. MainOK' /\ at' \in 1 .. 23
      BY <2>1 DEF MainOK
    <2>. QED
      BY <1>2, <2>1, <2>2
  <1>8. CASE Answered
    <2>1. /\ InScript /\ at \in 4 .. 18 /\ at # 17
          /\ UNCHANGED <<files, chrome, cleanupVars, signalVars>>
      BY <1>8, ScriptSteps DEF Answered, MainOK, InScript
    <2>2. CASE Advance \/ Fails
      <3>1. MainOK' /\ at' \in 1 .. 23
        BY <1>1, <2>1, <2>2, AdvanceMain, FailsMain
        DEF MainOK, FilesAt, Advance
      <3>. QED
        BY <1>2, <2>1, <3>1
    <2>3. CASE call' = "none" /\ UNCHANGED <<at, failed>>
      <3>1. MainOK' /\ at' \in 1 .. 23
        BY <2>1, <2>3 DEF MainOK
      <3>. QED
        BY <1>2, <2>1, <3>1
    <2>. QED
      BY <1>8, <2>2, <2>3 DEF Answered
  <1>9. CASE Completed
    <2>1. /\ InScript /\ at = 17 /\ Advance
          /\ UNCHANGED <<files, chrome, cleanupVars, signalVars>>
      BY <1>9, ScriptSteps DEF Completed, InScript, Current, chromeVars
    <2>2. MainOK' /\ at' \in 1 .. 23
      BY <1>1, <2>1, AdvanceMain DEF MainOK, FilesAt, Advance
    <2>. QED
      BY <1>2, <2>1, <2>2
  <1>. QED
    BY <1>3, <1>4, <1>5, <1>6, <1>7, <1>8, <1>9

\* Chrome goes once and does not come back.
LEMMA ChromeStep ==
  ASSUME chrome \in ChromeStates, [CaptureNext]_captureVars
  PROVE  chrome' \in ChromeStates
  <1>1. CASE Launch
    BY <1>1 DEF Launch, ChromeStates
  <1>2. CASE ChromeGoes
    BY <1>2 DEF ChromeGoes, ChromeStates
  <1>3. CASE MainStep /\ ~Launch
    BY <1>3
    DEF MainStep, ParseArgs, CheckPort, Connect, LocalStep, Ask, Completed,
        MainCleansUp, MainLeaves, chromeVars
  <1>4. CASE LoopStep
    BY <1>4
    DEF LoopStep, ConnectionsClose, StopWaiting, RemoveProfile, Drained,
        HandlerLeaves, chromeVars
  <1>5. CASE Answered \/ TracingComplete \/ \E s \in Signals : Signal(s)
    BY <1>5 DEF Answered, TracingComplete, Signal, chromeVars
  <1>6. CASE Over \/ UNCHANGED captureVars
    BY <1>6 DEF Over, captureVars, chromeVars
  <1>. QED
    BY <1>1, <1>2, <1>3, <1>4, <1>5, <1>6 DEF CaptureNext

\* The steps outside the script that end nothing.
LEMMA OtherMain ==
  ASSUME Running, MainOK, CleanupOK, UNCHANGED exit,
         ParseArgs \/ ConnectionsClose \/ TracingComplete \/ MainLeaves
           \/ ChromeGoes
  PROVE  MainOK' /\ CleanupOK'
  <1>1. CASE ParseArgs
    <2>1. /\ at = 0 /\ at' = 1
          /\ UNCHANGED <<failed, call, chrome, files, cleanupVars, waiting>>
      BY <1>1 DEF ParseArgs, Running, chromeVars
    <2>2. armed' \cap waiting' = {}
      BY <2>1 DEF CleanupOK
    <2>3. MainOK'
      BY <2>1 DEF MainOK, FilesAt, cleanupVars
    <2>4. CleanupOK'
      BY <2>1, <2>2 DEF CleanupOK, cleanupVars
    <2>. QED
      BY <2>3, <2>4
  <1>2. CASE ConnectionsClose
    <2>1. UNCHANGED <<chrome, cleanupVars, signalVars, files>>
      BY <1>2 DEF ConnectionsClose
    <2>2. CASE call = "pending"
      <3>1. at \in 4 .. 18 /\ InScript /\ ~failed /\ Fails
        BY <1>2, <2>2, ScriptSteps DEF MainOK, InScript, ConnectionsClose
      <3>2. MainOK' /\ at' \in 1 .. 23
        BY <2>1, <3>1, FailsMain
      <3>. QED
        BY <2>1, <3>1, <3>2, ScriptCleanup
    <2>3. CASE UNCHANGED mainVars
      <3>1. MainOK'
        BY <2>1, <2>3 DEF MainOK, mainVars, cleanupVars
      <3>2. CleanupOK'
        BY <2>1, <2>3 DEF CleanupOK, mainVars, cleanupVars, signalVars
      <3>. QED
        BY <3>1, <3>2
    <2>. QED
      BY <1>2, <2>2, <2>3 DEF ConnectionsClose
  <1>3. CASE TracingComplete
    <2>1. UNCHANGED <<at, failed, call, chrome, cleanupVars, signalVars,
                      files>>
      BY <1>3 DEF TracingComplete
    <2>2. MainOK'
      BY <2>1 DEF MainOK, cleanupVars
    <2>3. CleanupOK'
      BY <2>1 DEF CleanupOK, cleanupVars, signalVars
    <2>. QED
      BY <2>2, <2>3
  <1>4. CASE MainLeaves
    <2>1. /\ at = 24 /\ ~failed /\ at' = 25
          /\ files' = files \cup {"final-meta"}
          /\ UNCHANGED <<failed, call, chromeVars, cleanupVars, signalVars>>
      BY <1>4, ScriptSteps DEF MainLeaves, Running
    <2>2. files = FilesAt(at)
      BY <2>1 DEF MainOK
    <2>3. files' = FilesAt(at')
      BY <2>1, <2>2 DEF FilesAt
    <2>4. MainOK'
      BY <2>1, <2>3 DEF MainOK, chromeVars
    <2>5. CleanupOK'
      BY <2>1 DEF CleanupOK, cleanupVars, signalVars
    <2>. QED
      BY <2>4, <2>5
  <1>5. CASE ChromeGoes
    <2>1. /\ UNCHANGED <<at, failed, call, cleanupVars, signalVars, files>>
          /\ chrome = "running" /\ chrome' = "gone"
      BY <1>5 DEF ChromeGoes, mainVars
    <2>2. MainOK'
      BY <2>1 DEF MainOK, cleanupVars
    <2>3. CleanupOK'
      BY <2>1 DEF CleanupOK, cleanupVars, signalVars
    <2>. QED
      BY <2>2, <2>3
  <1>. QED
    BY <1>1, <1>2, <1>3, <1>4, <1>5

\* The cleanup, by main or by the handler of a signal.
LEMMA CleanupMain ==
  ASSUME Running, MainOK, CleanupOK, UNCHANGED exit,
         \/ MainCleansUp \/ StopWaiting \/ RemoveProfile
         \/ \E s \in Signals : Signal(s)
  PROVE  MainOK' /\ CleanupOK'
  <1>1. CASE MainCleansUp
    <2>1. /\ at = 23 /\ cleaner # "main"
          /\ UNCHANGED <<failed, call, chrome, signalVars, files>>
      BY <1>1, ScriptSteps DEF MainCleansUp, mainVars, chromeVars
    <2>2. CASE cleanupStatus = "not-run"
      <3>1. /\ at' = 23 /\ cleanupStatus' = "started" /\ cleaner' = "main"
            /\ cleaning' \in {"exit", "remove"}
        BY <1>1, <2>1, <2>2 DEF MainCleansUp, BeginCleanup, mainVars
      <3>2. MainOK'
        BY <2>1, <3>1 DEF MainOK
      <3>3. CleanupOK'
        BY <2>1, <3>1 DEF CleanupOK, signalVars
      <3>. QED
        BY <3>2, <3>3
    <2>3. CASE cleanupStatus # "not-run"
      <3>1. at' = 24 /\ UNCHANGED cleanupVars
        BY <1>1, <2>1, <2>3 DEF MainCleansUp
      <3>2. MainOK'
        BY <2>1, <3>1 DEF MainOK, FilesAt
      <3>3. CleanupOK'
        BY <2>1, <2>3, <3>1 DEF CleanupOK, cleanupVars, signalVars
      <3>. QED
        BY <3>2, <3>3
    <2>. QED
      BY <2>2, <2>3
  <1>2. CASE StopWaiting
    <2>1. /\ UNCHANGED <<at, failed, call, chrome, files, signalVars>>
          /\ UNCHANGED <<cleanupStatus, cleaner, profile>>
          /\ cleaning = "exit" /\ cleaning' = "remove"
      BY <1>2 DEF StopWaiting, mainVars, chromeVars
    <2>2. MainOK'
      BY <2>1 DEF MainOK
    <2>3. CleanupOK'
      BY <2>1 DEF CleanupOK, signalVars
    <2>. QED
      BY <2>2, <2>3
  <1>3. CASE RemoveProfile
    <2>1. /\ UNCHANGED <<failed, call, chrome, files, signalVars, cleaner>>
          /\ cleaning = "remove" /\ cleaning' = "over"
          /\ cleanupStatus' # "not-run"
          /\ profile' => profile
          /\ at' = IF cleaner = "main" THEN at + 1 ELSE at
      BY <1>3 DEF RemoveProfile, chromeVars
    <2>2. cleanupStatus # "not-run" /\ (cleaner = "main" => at = 23)
      BY <2>1 DEF CleanupOK
    <2>3. MainOK'
      BY <2>1, <2>2 DEF MainOK, FilesAt
    <2>4. CleanupOK'
      BY <2>1, <2>2 DEF CleanupOK, signalVars, MainOK
    <2>. QED
      BY <2>3, <2>4
  <1>4. ASSUME NEW s \in Signals, Signal(s)
        PROVE  MainOK' /\ CleanupOK'
    <2>1. /\ UNCHANGED <<at, failed, call, chrome, files, profile>>
          /\ at > 0 /\ s \in armed
          /\ armed' = armed \ {s} /\ waiting' = waiting \cup {s}
      BY <1>4
      DEF Signal, Running, mainVars, chromeVars, BeginCleanup, cleanupVars
    <2>2. MainOK'
      BY <2>1 DEF MainOK
    <2>3. /\ waiting' \subseteq Signals /\ armed' \cap waiting' = {}
          /\ waiting' # {} /\ s \in waiting'
      BY <2>1 DEF CleanupOK
    <2>4. s # "main"
      BY DEF Signals
    <2>5. CASE cleanupStatus = "not-run"
      <3>1. /\ cleanupStatus' = "started" /\ cleaner' = s
            /\ cleaning' \in {"exit", "remove"}
        BY <1>4, <2>1, <2>5 DEF Signal, BeginCleanup
      <3>. QED
        BY <2>1, <2>2, <2>3, <2>4, <3>1 DEF CleanupOK
    <2>6. CASE cleanupStatus # "not-run"
      <3>1. UNCHANGED <<cleanupStatus, cleaner, cleaning>>
        BY <1>4, <2>1, <2>6 DEF Signal, cleanupVars
      <3>. QED
        BY <2>1, <2>2, <2>3, <2>6, <3>1 DEF CleanupOK, MainOK
    <2>. QED
      BY <2>5, <2>6
  <1>. QED
    BY <1>1, <1>2, <1>3, <1>4

\* A signal that is being handled while another one owns the cleanup.
LEMMA TwoHandlers ==
  ASSUME waiting \subseteq Signals,
         NEW s \in waiting, NEW t \in waiting, s # t
  PROVE  Cardinality(waiting) > 1
  <1>1. IsFiniteSet(Signals)
    <2>1. Signals = {"SIGINT"} \cup {"SIGTERM"}
      BY DEF Signals
    <2>. QED
      BY <2>1, FS_Singleton, FS_Union
  <1>2. IsFiniteSet(waiting)
    BY <1>1, FS_Subset
  <1>3. Cardinality({s, t}) = 2
    <2>1. IsFiniteSet({s}) /\ Cardinality({s}) = 1 /\ t \notin {s}
      BY FS_Singleton
    <2>2. Cardinality({s} \cup {t}) = Cardinality({s}) + 1
      BY <2>1, FS_AddElement
    <2>3. {s, t} = {s} \cup {t}
      OBVIOUS
    <2>. QED
      BY <2>1, <2>2, <2>3
  <1>4. Cardinality(waiting) \in Nat /\ 2 <= Cardinality(waiting)
    BY <1>2, <1>3, FS_Subset, FS_CardinalityType
  <1>. QED
    BY <1>4

\* The process ends with its event loop empty.
LEMMA DrainedEnds ==
  ASSUME CaptureIInv, Drained
  PROVE  SuccessIsWhole' /\ EveryExitCleansUp'
  <1>1. /\ MainOK /\ CleanupOK /\ exit' = "0"
        /\ UNCHANGED <<args, at, call, chrome, cleanupStatus, files>>
    BY DEF CaptureIInv, Drained, mainVars, chromeVars, cleanupVars
  <1>2. CASE at = 25
    <2>1. files = {"trace", "meta", "forensics", "final-meta"}
      BY <1>1, <1>2 DEF MainOK, FilesAt
    <2>. QED
      BY <1>1, <2>1 DEF SuccessIsWhole, EveryExitCleansUp
  <1>3. CASE InScript /\ (call = "lost" \/ Current.on = "event")
    <2>1. at \in 4 .. 18
      BY <1>1, <1>3, ScriptSteps DEF MainOK, InScript, Current
    <2>2. files = {}
      BY <1>1, <2>1 DEF MainOK, FilesAt
    <2>3. chrome = "gone"
      BY <1>1, <2>1 DEF MainOK, CaptureIInv, ChromeStates, Drained
    <2>4. cleanupStatus = "not-run"
      BY <1>1, <2>1 DEF CleanupOK, Drained
    <2>5. Current' = Current
      BY <1>1 DEF Current
    <2>. QED
      BY <1>1, <1>3, <2>2, <2>3, <2>4, <2>5
      DEF SuccessIsWhole, EveryExitCleansUp
  <1>. QED
    BY <1>2, <1>3, ScriptSteps DEF Drained

\* The process ends under a handler.
LEMMA HandlerEnds ==
  ASSUME CaptureIInv, NEW s \in Signals, HandlerLeaves(s)
  PROVE  SuccessIsWhole' /\ EveryExitCleansUp'
  <1>1. /\ CleanupOK /\ s \in waiting /\ exit' \in {"130", "143"}
        /\ cleaner = s => cleaning = "over"
        /\ UNCHANGED <<cleaner, cleaning, waiting, armed, failed>>
    BY DEF CaptureIInv, HandlerLeaves, mainVars, cleanupVars, signalVars
  <1>2. cleaner \in waiting \cup {"main"} /\ s \notin armed
    BY <1>1 DEF CleanupOK
  <1>3. SuccessIsWhole'
    BY <1>1 DEF SuccessIsWhole
  <1>4. CASE cleaner = s
    <2>1. cleaning' = "over"
      BY <1>1, <1>4
    <2>. QED
      BY <1>3, <2>1 DEF EveryExitCleansUp
  <1>5. CASE cleaner = "main"
    <2>1. cleaner' = "main" /\ Signalled'
      BY <1>1, <1>2, <1>5 DEF Signalled
    <2>. QED
      BY <1>3, <2>1 DEF EveryExitCleansUp
  <1>6. CASE cleaner \in waiting /\ cleaner # s
    <2>1. Cardinality(waiting) > 1
      BY <1>1, <1>6, TwoHandlers DEF CleanupOK
    <2>2. cleaner' \in waiting' /\ Cardinality(waiting') > 1
      BY <1>1, <1>6, <2>1
    <2>. QED
      BY <1>3, <2>2 DEF EveryExitCleansUp
  <1>. QED
    BY <1>2, <1>3, <1>4, <1>5, <1>6

\* Main ends the process itself, or a signal kills it.
LEMMA MainEnds ==
  ASSUME CaptureIInv, Running, exit' # exit,
         \/ ParseArgs \/ CheckPort \/ Launch \/ MainLeaves
         \/ \E s \in Signals : Signal(s)
  PROVE  SuccessIsWhole' /\ EveryExitCleansUp'
  <1>1. MainOK /\ CleanupOK
    BY DEF CaptureIInv
  <1>2. CASE ParseArgs
    <2>1. at' = 0 /\ UNCHANGED args
      BY <1>2 DEF ParseArgs, Running
    <2>2. exit' = "0" => args.mode # "capture"
      BY <1>2 DEF ParseArgs
    <2>. QED
      BY <2>1, <2>2 DEF SuccessIsWhole, EveryExitCleansUp
  <1>3. CASE CheckPort
    <2>1. at' = 1 /\ ~profile' /\ exit' = "1"
      BY <1>1, <1>3 DEF MainOK, CheckPort, mainVars, cleanupVars
    <2>. QED
      BY <2>1 DEF SuccessIsWhole, EveryExitCleansUp, NothingMade
  <1>6. CASE Launch
    <2>1. at' = 2 /\ chrome' = "failed" /\ exit' = "1"
      BY <1>6 DEF Launch, mainVars
    <2>. QED
      BY <2>1 DEF SuccessIsWhole, EveryExitCleansUp, SpawnFailed
  <1>4. CASE MainLeaves
    <2>1. /\ at = 24 /\ failed /\ exit' = "1"
          /\ UNCHANGED <<failed, cleanupVars, signalVars>>
      BY <1>4, ScriptSteps DEF MainLeaves
    <2>2. /\ cleaner \in waiting \cup {"main"}
          /\ cleaner = "main" => cleaning = "over"
      BY <1>1, <2>1 DEF CleanupOK
    <2>. QED
      BY <2>1, <2>2
      DEF SuccessIsWhole, EveryExitCleansUp, cleanupVars, signalVars
  <1>5. ASSUME NEW s \in Signals, Signal(s)
        PROVE  exit' = "killed"
    BY <1>5 DEF Signal
  <1>. QED
    BY <1>2, <1>3, <1>4, <1>5, <1>6 DEF SuccessIsWhole, EveryExitCleansUp

LEMMA CaptureStep ==
  ASSUME CaptureIInv, [CaptureNext]_captureVars
  PROVE  CaptureIInv'
  <1>1. chrome' \in ChromeStates
    BY ChromeStep DEF CaptureIInv
  <1>2. CASE ~Running \/ UNCHANGED captureVars
    <2>1. UNCHANGED captureVars
      BY <1>2
      DEF CaptureNext, MainStep, LoopStep, ParseArgs, CheckPort, Launch,
          Connect, LocalStep, Ask, Completed, MainCleansUp, MainLeaves,
          ConnectionsClose, StopWaiting, RemoveProfile, Drained,
          HandlerLeaves, Answered, TracingComplete, ChromeGoes, Signal, Over
    <2>. QED
      BY <2>1
      DEF CaptureIInv, captureVars, mainVars, chromeVars, cleanupVars,
          signalVars, Running, MainOK, CleanupOK, SuccessIsWhole,
          EveryExitCleansUp, Signalled, NothingMade, SpawnFailed, Current
  <1>3. ASSUME Running, CaptureNext
        PROVE  CaptureIInv'
    <2>1. MainOK /\ CleanupOK
      BY <1>3 DEF CaptureIInv
    <2>2. CASE MainOK' /\ CleanupOK' /\ UNCHANGED exit
      BY <1>1, <1>3, <2>2, StillRunning
    <2>3. CASE SuccessIsWhole' /\ EveryExitCleansUp' /\ exit' # exit
      BY <1>1, <1>3, <2>3 DEF CaptureIInv, Running
    <2>4. CASE /\ UNCHANGED exit
               /\ \/ CheckPort \/ Launch \/ Connect \/ LocalStep \/ Ask
                  \/ Answered \/ Completed
      BY <1>3, <2>1, <2>2, <2>4, ScriptMain
    <2>5. CASE /\ UNCHANGED exit
               /\ \/ ParseArgs \/ ConnectionsClose \/ TracingComplete
                  \/ MainLeaves \/ ChromeGoes
      BY <1>3, <2>1, <2>2, <2>5, OtherMain
    <2>6. CASE /\ UNCHANGED exit
               /\ \/ MainCleansUp \/ StopWaiting \/ RemoveProfile
                  \/ \E s \in Signals : Signal(s)
      BY <1>3, <2>1, <2>2, <2>6, CleanupMain
    <2>7. CASE Drained
      BY <1>3, <2>3, <2>7, DrainedEnds DEF Drained, Running
    <2>8. CASE \E s \in Signals : HandlerLeaves(s)
      BY <1>3, <2>3, <2>8, HandlerEnds DEF HandlerLeaves, Running
    <2>9. CASE /\ exit' # exit
               /\ \/ ParseArgs \/ CheckPort \/ Launch \/ MainLeaves
                  \/ \E s \in Signals : Signal(s)
      BY <1>3, <2>3, <2>9, MainEnds
    <2>10. Connect \/ LocalStep \/ Ask \/ Answered \/ Completed
             \/ ConnectionsClose \/ TracingComplete \/ ChromeGoes
             \/ MainCleansUp \/ StopWaiting \/ RemoveProfile
           => UNCHANGED exit
      BY DEF Connect, LocalStep, Ask, Answered, Completed,
             ConnectionsClose, TracingComplete, ChromeGoes, MainCleansUp,
             StopWaiting, RemoveProfile
    <2>. QED
      BY <1>3, <2>4, <2>5, <2>6, <2>7, <2>8, <2>9, <2>10
      DEF CaptureNext, MainStep, LoopStep, Over
  <1>. QED
    BY <1>2, <1>3

LEMMA CaptureStart == CaptureInit => CaptureIInv
  BY DEF CaptureInit, CaptureIInv, ChromeStates, Running, MainOK, CleanupOK,
         FilesAt, SuccessIsWhole, EveryExitCleansUp

(***************************************************************************)
(* The invariant of a capture, in every reachable state.                   *)
(***************************************************************************)
THEOREM CaptureInvariant == CaptureSpec => []CaptureIInv
  BY CaptureStart, CaptureStep, PTL DEF CaptureSpec

(***************************************************************************)
(* A capture that exits with 0 has its four files, except when Chrome went *)
(* away under it, for every set of flaws, polls and signals (:247-261,     *)
(* :2228, :2299-2320).                                                     *)
(***************************************************************************)
THEOREM CaptureIsWhole == CaptureSpec => []SuccessIsWhole
  BY CaptureInvariant, PTL DEF CaptureIInv

(***************************************************************************)
(* A capture that ends with an error or by a handled signal has been       *)
(* through the cleanup, or another way out overtook it, or it found its    *)
(* port taken or Chrome not to start, for every set of flaws, polls and    *)
(* signals (:2106-2139, :2142-2159, :2295-2297, :2322-2325).               *)
(***************************************************************************)
THEOREM ExitsCleanUp == CaptureSpec => []EveryExitCleansUp
  BY CaptureInvariant, PTL DEF CaptureIInv
-----------------------------------------------------------------------------
(* The frame probe and the verdict drawn from it.                          *)

BeforeBegin == {"ready", "front-1", "start", "front-2", "before", "begin"}
AfterEnd == {"after", "collect", "over"}

Probes ==
  [active : BOOLEAN, collected : BOOLEAN, loops : Nat,
   startedBefore : BOOLEAN, marksAtStart : Nat, framesBefore : Nat,
   framesDuring : Nat, framesAfter : Nat, endSeen : BOOLEAN,
   stateAtStart : {NoState, "visible", "hidden"},
   stateAtEnd : {NoState, "visible", "hidden"}, firstHidden : BOOLEAN]

(***************************************************************************)
(* The inductive invariant: the probe in the page is the last one, it was  *)
(* there before the start mark, and it has noted that the page was hidden  *)
(* if that happened between the marks; a page that it gave a frame there   *)
(* was shown, and is hidden only if it was hidden later; what was          *)
(* collected says the same.                                                *)
(***************************************************************************)
PhaseOK ==
  /\ phase \in BeforeBegin \cup {"end"} \cup AfterEnd
  /\ marks \in [start : 0 .. 1, end : 0 .. 1]
  /\ phase \in BeforeBegin => marks.start = 0 /\ marks.end = 0
  /\ phase \in BeforeBegin => ~hiddenLater
  /\ phase = "end" => marks.start = 1 /\ marks.end = 0
  /\ phase \in AfterEnd => marks.end = 1
  /\ loops \in Nat /\ front \subseteq {"front-1", "front-2"}

ProbeOK ==
  /\ probe \in Probes /\ ~probe.collected
  /\ probe.active => probe.loops = loops
  /\ probe.active => probe.marksAtStart = 0
  /\ probe.active /\ hiddenLater => probe.firstHidden

FramesOK ==
  probe.active =>
    /\ phase \in BeforeBegin => probe.framesDuring = 0
    /\ phase = "end" /\ probe.framesDuring > 0 /\ ~visible => hiddenLater
    /\ phase \in AfterEnd /\ probe.framesDuring > 0 /\ hiddenAtEnd
         => hiddenLater

RafOK ==
  /\ raf.collected => phase = "over" /\ raf.loops = loops
  /\ raf.collected => raf.framesDuring \in Nat
  /\ raf.collected /\ hiddenLater => raf.firstHidden
  /\ raf.collected /\ raf.framesDuring > 0 /\ hiddenAtEnd => hiddenLater

ProbeIInv == PhaseOK /\ ProbeOK /\ FramesOK /\ RafOK

LEMMA PhaseOrder ==
  /\ PhaseAfter("ready") = "front-1" /\ PhaseAfter("front-1") = "start"
  /\ PhaseAfter("start") = "front-2" /\ PhaseAfter("front-2") = "before"
  /\ PhaseAfter("before") = "begin" /\ PhaseAfter("begin") = "end"
  /\ PhaseAfter("end") = "after" /\ PhaseAfter("after") = "collect"
  /\ PhaseAfter("collect") = "over"
  <1>1. ASSUME NEW i \in 1 .. 9
        PROVE  PhaseAfter(Phases[i]) = Phases[i + 1]
    <2>. DEFINE k == CHOOSE j \in DOMAIN Phases : Phases[j] = Phases[i]
    <2>1. DOMAIN Phases = 1 .. 10
      BY DEF Phases
    <2>2. \A j \in 1 .. 10 : Phases[j] = Phases[i] => j = i
      BY DEF Phases
    <2>3. k = i
      BY <2>1, <2>2
    <2>4. PhaseAfter(Phases[i]) = Phases[1 + k]
      BY DEF PhaseAfter
    <2>. HIDE DEF k
    <2>. QED
      BY <2>3, <2>4
  <1>2. /\ Phases[1] = "ready" /\ Phases[2] = "front-1"
        /\ Phases[3] = "start" /\ Phases[4] = "front-2"
        /\ Phases[5] = "before" /\ Phases[6] = "begin"
        /\ Phases[7] = "end" /\ Phases[8] = "after"
        /\ Phases[9] = "collect" /\ Phases[10] = "over"
    BY DEF Phases
  <1>3. \A i \in 1 .. 9 : PhaseAfter(Phases[i]) = Phases[i + 1]
    BY <1>1
  <1>4. /\ PhaseAfter(Phases[1]) = Phases[2]
        /\ PhaseAfter(Phases[2]) = Phases[3]
        /\ PhaseAfter(Phases[3]) = Phases[4]
        /\ PhaseAfter(Phases[4]) = Phases[5]
        /\ PhaseAfter(Phases[5]) = Phases[6]
        /\ PhaseAfter(Phases[6]) = Phases[7]
        /\ PhaseAfter(Phases[7]) = Phases[8]
        /\ PhaseAfter(Phases[8]) = Phases[9]
        /\ PhaseAfter(Phases[9]) = Phases[10]
    BY <1>3
  <1>. QED
    BY <1>2, <1>4

\* What the probe does on a frame or an event says nothing of its origin.
LEMMA RecordedBoundary ==
  ASSUME NEW p \in Probes
  PROVE  /\ RecordBoundaryState(p) \in Probes
         /\ RecordBoundaryState(p).active = p.active
         /\ RecordBoundaryState(p).collected = p.collected
         /\ RecordBoundaryState(p).loops = p.loops
         /\ RecordBoundaryState(p).marksAtStart = p.marksAtStart
         /\ RecordBoundaryState(p).firstHidden = p.firstHidden
         /\ RecordBoundaryState(p).framesDuring = p.framesDuring
  BY DEF Probes, RecordBoundaryState, State

LEMMA NewProbeFields ==
  ASSUME NEW n \in Nat, marks \in [start : 0 .. 1, end : 0 .. 1]
  PROVE  /\ NewProbe(n) \in Probes
         /\ ~NewProbe(n).collected
         /\ NewProbe(n).loops = n
         /\ NewProbe(n).marksAtStart = marks.start
         /\ NewProbe(n).framesDuring = 0
  BY DEF Probes, NewProbe, NoState

\* Where main is, after each of its steps.
LEMMA PhaseStep ==
  ASSUME PhaseOK, [ProbeNext]_probeVars
  PROVE  PhaseOK'
  <1>1. CASE Ready
    BY <1>1, PhaseOrder
    DEF Ready, Proceed, PhaseOK, BeforeBegin, AfterEnd, probedVars,
        historyVars
  <1>2. CASE StartProbe
    BY <1>2, PhaseOrder
    DEF StartProbe, Proceed, PhaseOK, BeforeBegin, AfterEnd, historyVars
  <1>3. CASE ReadVisibilityFrameState
    BY <1>3, PhaseOrder
    DEF ReadVisibilityFrameState, Proceed, PhaseOK, BeforeBegin, AfterEnd,
        historyVars
  <1>4. CASE BeginCapture
    BY <1>4, PhaseOrder
    DEF BeginCapture, Proceed, PhaseOK, BeforeBegin, AfterEnd, probedVars,
        historyVars
  <1>5. CASE EndCapture
    BY <1>5, PhaseOrder
    DEF EndCapture, Proceed, PhaseOK, BeforeBegin, AfterEnd, probedVars
  <1>6. CASE CollectProbe
    BY <1>6, PhaseOrder
    DEF CollectProbe, Proceed, PhaseOK, BeforeBegin, AfterEnd, historyVars
  <1>7. CASE ChangeVisibility
    <2>1. UNCHANGED <<phase, marks, loops, front>>
      BY <1>7 DEF ChangeVisibility, probedVars
    <2>2. phase \in BeforeBegin /\ ~hiddenLater => ~hiddenLater'
      BY <1>7 DEF ChangeVisibility, BeforeBegin
    <2>. QED
      BY <2>1, <2>2 DEF PhaseOK
  <1>8. CASE ChangeFocus \/ Tick \/ UNCHANGED probeVars
    <2>1. UNCHANGED <<phase, marks, loops, front, hiddenLater>>
      BY <1>8
      DEF ChangeFocus, Tick, probeVars, probedVars, historyVars
    <2>. QED
      BY <2>1 DEF PhaseOK
  <1>9. CASE BringToFront
    <2>1. /\ UNCHANGED <<marks, loops, hiddenLater>>
          /\ front' \subseteq front \cup {phase}
          /\ phase \in {"front-1", "front-2"} /\ phase' = PhaseAfter(phase)
      BY <1>9 DEF BringToFront, Proceed, historyVars
    <2>2. phase' \in {"start", "before"}
      BY <2>1, PhaseOrder
    <2>3. marks'.start = 0 /\ marks'.end = 0 /\ ~hiddenLater'
      BY <2>1 DEF PhaseOK, BeforeBegin
    <2>. QED
      BY <2>1, <2>2, <2>3 DEF PhaseOK, BeforeBegin, AfterEnd
  <1>. QED
    BY <1>1, <1>2, <1>3, <1>4, <1>5, <1>6, <1>7, <1>8, <1>9
    DEF ProbeNext

\* The probe in the page, after every step of the page and of main.
LEMMA ProbeStep ==
  ASSUME PhaseOK, ProbeOK, [ProbeNext]_probeVars
  PROVE  ProbeOK'
  <1>1. CASE UNCHANGED <<probe, loops, hiddenLater>>
    BY <1>1 DEF ProbeOK
  <1>2. CASE StartProbe
    <2>1. CASE probe' = NewProbe(loops') /\ loops' = loops + 1
      <3>1. loops' \in Nat /\ marks.start = 0 /\ ~hiddenLater
        BY <1>2, <2>1 DEF PhaseOK, BeforeBegin, StartProbe
      <3>2. /\ probe' \in Probes /\ ~probe'.collected
            /\ probe'.loops = loops' /\ probe'.marksAtStart = 0
        BY <2>1, <3>1, NewProbeFields DEF PhaseOK
      <3>3. ~hiddenLater'
        BY <1>2, <3>1 DEF StartProbe, historyVars
      <3>. QED
        BY <3>2, <3>3 DEF ProbeOK
    <2>2. CASE UNCHANGED <<loops, probe>>
      BY <1>1, <1>2, <2>2 DEF StartProbe, historyVars
    <2>. QED
      BY <1>2, <2>1, <2>2 DEF StartProbe
  <1>3. CASE CollectProbe
    <2>1. UNCHANGED <<loops, hiddenLater>>
      BY <1>3 DEF CollectProbe, historyVars
    <2>2. CASE probe' = [probe EXCEPT !.active = FALSE]
      <3>1. probe' \in Probes /\ ~probe'.active
        BY <2>2 DEF ProbeOK, Probes
      <3>2. probe'.collected = probe.collected
        BY <2>2 DEF ProbeOK, Probes
      <3>. QED
        BY <3>1, <3>2 DEF ProbeOK
    <2>. QED
      BY <1>1, <1>3, <2>1, <2>2 DEF CollectProbe
  <1>4. CASE Tick
    <2>1. PICK p \in Probes :
            /\ p.active = probe.active /\ p.collected = probe.collected
            /\ p.loops = probe.loops /\ p.marksAtStart = probe.marksAtStart
            /\ p.firstHidden = probe.firstHidden
            /\ probe' =
                 IF marks.end > 0 THEN
                   [p EXCEPT !.framesAfter = 1, !.endSeen = TRUE]
                 ELSE IF marks.start > 0 THEN
                   [p EXCEPT !.framesDuring =
                               IF @ < MaxFrames THEN @ + 1 ELSE @]
                 ELSE
                   [p EXCEPT !.framesBefore = 1]
      <3>1. probe \in Probes
        BY DEF ProbeOK
      <3>. QED
        BY <1>4, <3>1, RecordedBoundary DEF Tick
    <2>2. /\ probe' \in Probes
          /\ probe'.active = p.active /\ probe'.collected = p.collected
          /\ probe'.loops = p.loops /\ probe'.marksAtStart = p.marksAtStart
          /\ probe'.firstHidden = p.firstHidden
      <3>1. CASE marks.end > 0
        BY <2>1, <3>1 DEF Probes
      <3>2. CASE ~(marks.end > 0) /\ marks.start > 0
        <4>. DEFINE n == IF p.framesDuring < MaxFrames
                           THEN p.framesDuring + 1 ELSE p.framesDuring
        <4>1. probe' = [p EXCEPT !.framesDuring = n]
          BY <2>1, <3>2, Zenon
        <4>2. n \in Nat
          BY DEF Probes
        <4>. HIDE DEF n
        <4>. QED
          BY <4>1, <4>2 DEF Probes
      <3>3. CASE ~(marks.end > 0) /\ ~(marks.start > 0)
        BY <2>1, <3>3 DEF Probes
      <3>. QED
        BY <3>1, <3>2, <3>3
    <2>3. UNCHANGED <<loops, hiddenLater>>
      BY <1>4 DEF Tick, historyVars
    <2>. QED
      BY <2>1, <2>2, <2>3 DEF ProbeOK
  <1>5. CASE ChangeFocus
    <2>1. UNCHANGED <<loops, hiddenLater>> /\ probe \in Probes
      BY <1>5 DEF ChangeFocus, historyVars, ProbeOK
    <2>2. CASE probe' = RecordBoundaryState(probe)
      <3>1. /\ probe' \in Probes
            /\ probe'.active = probe.active
            /\ probe'.collected = probe.collected
            /\ probe'.loops = probe.loops
            /\ probe'.marksAtStart = probe.marksAtStart
            /\ probe'.firstHidden = probe.firstHidden
        BY <2>1, <2>2, RecordedBoundary
      <3>. QED
        BY <2>1, <3>1 DEF ProbeOK
    <2>. QED
      BY <1>1, <1>5, <2>1, <2>2 DEF ChangeFocus
  <1>6. CASE ChangeVisibility
    <2>1. /\ UNCHANGED <<loops, marks, phase>> /\ probe \in Probes
          /\ hiddenLater' = (hiddenLater \/ (phase = "end" /\ ~visible'))
      BY <1>6 DEF ChangeVisibility, probedVars, ProbeOK
    <2>2. CASE ~probe.active
      BY <1>6, <2>2 DEF ChangeVisibility, ProbeOK
    <2>3. CASE probe.active
      <3>1. PICK q \in Probes :
              /\ q.active = probe.active /\ q.collected = probe.collected
              /\ q.loops = probe.loops /\ q.marksAtStart = probe.marksAtStart
              /\ q.firstHidden = probe.firstHidden
              /\ probe' = IF /\ marks.start > probe.marksAtStart
                             /\ marks.end = 0 /\ ~visible'
                            THEN [q EXCEPT !.firstHidden = TRUE]
                            ELSE q
        BY <1>6, <2>1, <2>3, RecordedBoundary
        DEF ChangeVisibility, OnVisibilityChange
      <3>2. /\ probe' \in Probes
            /\ probe'.active = q.active /\ probe'.collected = q.collected
            /\ probe'.loops = q.loops /\ probe'.marksAtStart = q.marksAtStart
            /\ q.firstHidden => probe'.firstHidden
        BY <3>1 DEF Probes
      <3>3. CASE phase = "end" /\ ~visible'
        <4>1. marks.start > probe.marksAtStart /\ marks.end = 0
          BY <2>3, <3>3 DEF PhaseOK, ProbeOK
        <4>2. probe'.firstHidden
          BY <3>1, <3>3, <4>1 DEF Probes
        <4>. QED
          BY <2>1, <2>3, <3>1, <3>2, <4>2 DEF ProbeOK
      <3>4. CASE ~(phase = "end" /\ ~visible')
        <4>1. hiddenLater' => hiddenLater
          BY <2>1, <3>4
        <4>. QED
          BY <2>1, <2>3, <3>1, <3>2, <4>1 DEF ProbeOK
      <3>. QED
        BY <3>3, <3>4
    <2>. QED
      BY <2>2, <2>3
  <1>7. CASE Ready \/ BringToFront \/ ReadVisibilityFrameState
             \/ BeginCapture \/ EndCapture \/ UNCHANGED probeVars
    BY <1>1, <1>7
    DEF Ready, BringToFront, ReadVisibilityFrameState, BeginCapture,
        EndCapture, probeVars, historyVars
  <1>. QED
    BY <1>2, <1>3, <1>4, <1>5, <1>6, <1>7 DEF ProbeNext

\* The frames of the capture and the page that was given them.
LEMMA FramesStep ==
  ASSUME PhaseOK, ProbeOK, FramesOK, [ProbeNext]_probeVars
  PROVE  FramesOK'
  <1>1. CASE UNCHANGED <<probe, visible, historyVars>> /\ phase' = phase
    BY <1>1 DEF FramesOK, historyVars
  <1>2. CASE StartProbe
    <2>1. /\ UNCHANGED <<visible, historyVars>> /\ phase = "start"
          /\ phase' = "front-2"
      BY <1>2, PhaseOrder DEF StartProbe, Proceed, pageVars
    <2>2. probe'.active => probe'.framesDuring = 0
      <3>1. CASE probe' = NewProbe(loops') /\ loops' = loops + 1
        <4>1. loops' \in Nat
          BY <3>1 DEF PhaseOK
        <4>. QED
          BY <3>1, <4>1, NewProbeFields DEF PhaseOK
      <3>2. CASE UNCHANGED probe
        BY <2>1, <3>2 DEF FramesOK, BeforeBegin
      <3>. QED
        BY <1>2, <3>1, <3>2 DEF StartProbe
    <2>. QED
      BY <2>1, <2>2 DEF FramesOK
  <1>3. CASE CollectProbe
    <2>1. /\ UNCHANGED <<visible, historyVars>> /\ phase = "collect"
          /\ phase' = "over"
      BY <1>3, PhaseOrder DEF CollectProbe, Proceed, pageVars
    <2>2. CASE probe' = [probe EXCEPT !.active = FALSE]
      BY <2>2 DEF FramesOK, ProbeOK, Probes
    <2>3. CASE UNCHANGED probe
      BY <2>1, <2>3 DEF FramesOK, BeforeBegin, AfterEnd, historyVars
    <2>. QED
      BY <1>3, <2>2, <2>3 DEF CollectProbe
  <1>4. CASE Tick
    <2>1. /\ UNCHANGED <<phase, marks, historyVars>> /\ visible' /\ visible
      BY <1>4 DEF Tick, pageVars
    <2>2. probe'.active => probe.active
      BY <1>4 DEF Tick
    <2>3. phase # "end" => probe'.framesDuring = probe.framesDuring
      <3>1. PICK p \in Probes :
              /\ p.framesDuring = probe.framesDuring
              /\ ~(marks.end > 0) /\ ~(marks.start > 0) =>
                   probe' = [p EXCEPT !.framesBefore = 1]
              /\ marks.end > 0 =>
                   probe' = [p EXCEPT !.framesAfter = 1, !.endSeen = TRUE]
        BY <1>4, RecordedBoundary DEF Tick, ProbeOK
      <3>2. CASE phase \in BeforeBegin
        <4>1. ~(marks.end > 0) /\ ~(marks.start > 0)
          BY <3>2 DEF PhaseOK
        <4>. QED
          BY <3>1, <4>1 DEF Probes
      <3>3. CASE phase \in AfterEnd
        <4>1. marks.end > 0
          BY <3>3 DEF PhaseOK
        <4>. QED
          BY <3>1, <4>1 DEF Probes
      <3>. QED
        BY <3>2, <3>3 DEF PhaseOK
    <2>4. "end" \notin BeforeBegin /\ "end" \notin AfterEnd
      BY DEF BeforeBegin, AfterEnd
    <2>. QED
      BY <2>1, <2>2, <2>3, <2>4 DEF FramesOK, historyVars
  <1>5. CASE ChangeFocus
    <2>1. /\ UNCHANGED <<phase, visible, historyVars>>
          /\ probe'.active = probe.active
          /\ probe'.framesDuring = probe.framesDuring
      BY <1>5, RecordedBoundary DEF ChangeFocus, ProbeOK
    <2>. QED
      BY <2>1 DEF FramesOK, historyVars
  <1>6. CASE ChangeVisibility
    <2>1. /\ UNCHANGED <<phase, hiddenAtEnd>>
          /\ phase = "end" /\ ~visible' => hiddenLater'
          /\ hiddenLater => hiddenLater'
      BY <1>6 DEF ChangeVisibility
    <2>2. /\ probe'.active = probe.active
          /\ probe'.framesDuring = probe.framesDuring
      <3>1. CASE ~probe.active
        BY <1>6, <3>1 DEF ChangeVisibility
      <3>2. CASE probe.active
        <4>1. PICK q \in Probes :
                /\ q.active = probe.active
                /\ q.framesDuring = probe.framesDuring
                /\ \/ probe' = [q EXCEPT !.firstHidden = TRUE]
                   \/ probe' = q
          BY <1>6, <3>2, RecordedBoundary
          DEF ChangeVisibility, OnVisibilityChange, ProbeOK
        <4>. QED
          BY <4>1 DEF Probes
      <3>. QED
        BY <3>1, <3>2
    <2>. QED
      BY <2>1, <2>2 DEF FramesOK
  <1>7. CASE BeginCapture
    <2>1. /\ UNCHANGED probe /\ phase = "begin" /\ phase' = "end"
      BY <1>7, PhaseOrder DEF BeginCapture, Proceed
    <2>2. probe.active => probe.framesDuring = 0
      BY <2>1 DEF FramesOK, BeforeBegin
    <2>. QED
      BY <2>1, <2>2 DEF FramesOK, BeforeBegin, AfterEnd
  <1>8. CASE EndCapture
    <2>1. /\ UNCHANGED <<probe, hiddenLater>> /\ phase = "end"
          /\ phase' = "after" /\ hiddenAtEnd' = ~visible
      BY <1>8, PhaseOrder DEF EndCapture, Proceed
    <2>. QED
      BY <2>1 DEF FramesOK, BeforeBegin, AfterEnd
  <1>9. CASE Ready \/ BringToFront \/ ReadVisibilityFrameState
    <2>1. UNCHANGED <<probe, visible, historyVars>>
      BY <1>9
      DEF Ready, BringToFront, ReadVisibilityFrameState, pageVars
    <2>2. \/ phase \in BeforeBegin /\ phase' \in BeforeBegin
          \/ phase \in AfterEnd /\ phase' \in AfterEnd
      BY <1>9, PhaseOrder
      DEF Ready, BringToFront, ReadVisibilityFrameState, Proceed,
          BeforeBegin, AfterEnd
    <2>3. /\ BeforeBegin \cap AfterEnd = {}
          /\ "end" \notin BeforeBegin /\ "end" \notin AfterEnd
      BY DEF BeforeBegin, AfterEnd
    <2>. QED
      BY <2>1, <2>2, <2>3 DEF FramesOK, historyVars
  <1>10. CASE UNCHANGED probeVars
    BY <1>1, <1>10 DEF probeVars, pageVars
  <1>. QED
    BY <1>2, <1>3, <1>4, <1>5, <1>6, <1>7, <1>8, <1>9, <1>10 DEF ProbeNext

\* What was collected, after every step.
LEMMA RafStep ==
  ASSUME ProbeIInv, [ProbeNext]_probeVars
  PROVE  RafOK'
  <1>1. CASE phase = "over" \/ ~raf.collected
    <2>1. CASE UNCHANGED <<raf, phase, loops, historyVars>>
      BY <2>1 DEF ProbeIInv, RafOK, historyVars
    <2>2. CASE StartProbe
      <3>1. CASE /\ raf' = probe' /\ probe' = NewProbe(loops')
                 /\ loops' = loops + 1
        <4>1. loops' \in Nat
          BY <3>1 DEF ProbeIInv, PhaseOK
        <4>2. ~raf'.collected
          BY <3>1, <4>1, NewProbeFields DEF ProbeIInv, PhaseOK
        <4>. QED
          BY <4>2 DEF RafOK
      <3>2. CASE UNCHANGED raf
        BY <1>1, <2>2, <3>2 DEF StartProbe, RafOK
      <3>. QED
        BY <2>2, <3>1, <3>2 DEF StartProbe
    <2>3. CASE CollectProbe
      <3>1. /\ UNCHANGED <<loops, hiddenLater, hiddenAtEnd>>
            /\ phase = "collect" /\ phase' = "over"
        BY <2>3, PhaseOrder DEF CollectProbe, Proceed, historyVars
      <3>2. CASE probe.active /\ raf' = [probe EXCEPT !.collected = TRUE]
        <4>1. /\ raf'.loops = probe.loops
              /\ raf'.firstHidden = probe.firstHidden
              /\ raf'.framesDuring = probe.framesDuring
              /\ raf'.framesDuring \in Nat
          BY <3>2 DEF ProbeIInv, ProbeOK, Probes
        <4>2. probe.framesDuring > 0 /\ hiddenAtEnd => hiddenLater
          BY <3>1, <3>2 DEF ProbeIInv, FramesOK, AfterEnd
        <4>. QED
          BY <3>1, <3>2, <4>1, <4>2 DEF ProbeIInv, ProbeOK, RafOK
      <3>3. CASE UNCHANGED raf
        BY <1>1, <2>3, <3>3 DEF CollectProbe, RafOK
      <3>. QED
        BY <2>3, <3>2, <3>3 DEF CollectProbe
    <2>4. CASE \/ Ready \/ BringToFront \/ ReadVisibilityFrameState
               \/ BeginCapture \/ EndCapture
      <3>1. phase # "over" /\ UNCHANGED raf
        BY <2>4
        DEF Ready, BringToFront, ReadVisibilityFrameState, BeginCapture,
            EndCapture, probedVars
      <3>. QED
        BY <1>1, <3>1 DEF RafOK
    <2>5. CASE ChangeVisibility
      <3>1. UNCHANGED <<raf, phase, loops, hiddenAtEnd>>
        BY <2>5 DEF ChangeVisibility, probedVars
      <3>2. phase = "over" => (hiddenLater' <=> hiddenLater)
        BY <2>5 DEF ChangeVisibility
      <3>. QED
        BY <1>1, <3>1, <3>2 DEF ProbeIInv, RafOK
    <2>6. CASE ChangeFocus \/ Tick \/ UNCHANGED probeVars
      BY <2>1, <2>6
      DEF ChangeFocus, Tick, probeVars, probedVars, historyVars
    <2>. QED
      BY <2>2, <2>3, <2>4, <2>5, <2>6 DEF ProbeNext
  <1>. QED
    BY <1>1 DEF ProbeIInv, RafOK

LEMMA ProbeStart == ProbeInit => ProbeIInv
  <1> SUFFICES ASSUME ProbeInit
               PROVE  ProbeIInv
    OBVIOUS
  <1>1. /\ phase = "ready" /\ marks = [start |-> 0, end |-> 0]
        /\ front = {} /\ loops \in Nat /\ hiddenLater = FALSE
        /\ probe = NoProbe /\ raf = NoProbe
    BY LoopsAssumption DEF ProbeInit
  <1>2. /\ NewProbe(0) \in Probes /\ ~NewProbe(0).collected
    BY <1>1, NewProbeFields
  <1>3. NoProbe \in Probes /\ ~NoProbe.collected /\ ~NoProbe.active
    BY <1>2 DEF NoProbe, Probes
  <1>. QED
    BY <1>1, <1>3
    DEF ProbeIInv, PhaseOK, ProbeOK, FramesOK, RafOK, BeforeBegin, AfterEnd

(***************************************************************************)
(* The invariant of the probe, for every length of the capture and every   *)
(* bound on its frames.                                                    *)
(***************************************************************************)
THEOREM ProbeInvariant == ProbeSpec => []ProbeIInv
  <1>1. ProbeIInv /\ [ProbeNext]_probeVars => ProbeIInv'
    BY PhaseStep, ProbeStep, FramesStep, RafStep DEF ProbeIInv
  <1>. QED
    BY <1>1, ProbeStart, PTL DEF ProbeSpec

(***************************************************************************)
(* A capture that is used was probed in full, has had one probe, was never *)
(* hidden after its start mark and was seen at its end mark, however often *)
(* the page was hidden and shown (:360-366, :503-531, :834-925,            *)
(* :977-1010).                                                             *)
(***************************************************************************)
THEOREM UsableWasSeen == ProbeSpec => []UsableMeansSeen
  <1>1. ASSUME ProbeIInv, Usable
        PROVE  /\ enabled /\ front = {"front-1", "front-2"}
               /\ before.read /\ after.read /\ raf.collected
               /\ loops = 1
               /\ ParityStatus # "fail"
               /\ ~hiddenLater /\ ~hiddenAtEnd
    <2>1. enabled /\ ProbeErrors = {} /\ StreamFailReasons = {}
      BY <1>1 DEF Usable, ProbeStatus
    <2>2. /\ before.read /\ after.read /\ raf.collected
          /\ "front-1" \in front /\ "front-2" \in front /\ raf.loops = 1
      BY <2>1 DEF ProbeErrors, Reasons
    <2>3. front = {"front-1", "front-2"} /\ loops = 1
      BY <1>1, <2>2 DEF ProbeIInv, PhaseOK, RafOK
    <2>4. ~raf.firstHidden
      BY <2>1 DEF StreamFailReasons, Reasons
    <2>5. ~hiddenLater
      BY <1>1, <2>2, <2>4 DEF ProbeIInv, RafOK
    <2>8. raf.framesDuring > 0
      <3>1. ~(raf.framesDuring < ExpectedMinCount)
        BY <2>1, <2>2 DEF StreamFailReasons, Reasons
      <3>2. ExpectedMinCount \in Nat /\ ExpectedMinCount >= 1
        <4>1. Seconds * MinFps \in Nat
          BY SecondsAssumption, FpsAssumption
        <4>. QED
          BY <4>1 DEF ExpectedMinCount
      <3>3. raf.framesDuring \in Nat
        BY <1>1, <2>2 DEF ProbeIInv, RafOK
      <3>. QED
        BY <3>1, <3>2, <3>3
    <2>9. ~hiddenAtEnd
      BY <1>1, <2>2, <2>5, <2>8 DEF ProbeIInv, RafOK
    <2>6. AggregateFailReasons = {}
      BY <1>1, <2>1, <2>2 DEF AggregateFailReasons, Reasons, Usable
    <2>7. ParityStatus # "fail"
      BY <2>1, <2>6 DEF ParityStatus
    <2>. QED
      BY <2>1, <2>2, <2>3, <2>5, <2>7, <2>9
  <1>2. ProbeIInv => UsableMeansSeen
    BY <1>1 DEF UsableMeansSeen
  <1>. QED
    BY <1>2, ProbeInvariant, PTL
-----------------------------------------------------------------------------
(***************************************************************************)
(* Sets of numbers without a gap, and the greatest element of a finite     *)
(* set.                                                                    *)
(***************************************************************************)
NoGap(T) == \A j \in T : 1 .. j \subseteq T

(* A finite set has an element that a transitive, irreflexive relation     *)
(* leads to no other from: the one with the least set of others.           *)
LEMMA LastOne ==
  ASSUME NEW E, IsFiniteSet(E), E # {}, NEW Later,
         \A x \in E : <<x, x>> \notin Later,
         \A x, y, z \in E :
           <<x, y>> \in Later /\ <<y, z>> \in Later => <<x, z>> \in Later
  PROVE  \E x \in E : \A y \in E : <<x, y>> \notin Later
  <1>. DEFINE beyond(x) == { y \in E : <<x, y>> \in Later }
              sets == { beyond(x) : x \in E }
              S == FiniteSubsetsOf(E)
              R == StrictSubsetOrdering(E)
  <1>1. IsWellFoundedOn(R, S)
    BY FS_StrictSubsetOrderingWellFounded
  <1>2. sets \subseteq S /\ sets # {}
    <2>1. ASSUME NEW x \in E PROVE beyond(x) \in S
      <3>1. IsFiniteSet(beyond(x))
        BY FS_Subset
      <3>. QED
        BY <3>1 DEF FiniteSubsetsOf
    <2>. HIDE DEF beyond, S
    <2>. QED
      BY <2>1
  <1>3. \E t \in sets : \A u \in sets : ~ (<<u, t>> \in R)
    <2>. HIDE DEF sets, S, R
    <2>. QED
      BY <1>1, <1>2, WFMin
  <1>4. PICK x \in E : \A y \in E : ~ (<<beyond(y), beyond(x)>> \in R)
    <2>. HIDE DEF beyond, R
    <2>. QED
      BY <1>3
  <1>5. ASSUME NEW y \in E, <<x, y>> \in Later
        PROVE  FALSE
    <2>1. /\ beyond(y) \subseteq beyond(x) /\ beyond(x) \subseteq E
          /\ y \in beyond(x) /\ y \notin beyond(y)
      BY <1>5
    <2>2. beyond(y) # beyond(x)
      BY <2>1
    <2>3. <<beyond(y), beyond(x)>> \in R
      BY <2>1, <2>2 DEF StrictSubsetOrdering
    <2>. QED
      BY <1>4, <2>3
  <1>. QED
    BY <1>5

LEMMA NumbersBelow ==
  ASSUME NEW n \in Nat, NEW T \in SUBSET (1 .. n), NoGap(T)
  PROVE  IsFiniteSet(T) /\ Cardinality(T) \in 0 .. n
         /\ T = 1 .. Cardinality(T)
  <1>1. PICK c \in 0 .. n : T = 1 .. c
    <2>1. CASE T = {}
      <3>1. T = 1 .. 0
        BY <2>1
      <3>. QED
        BY <3>1
    <2>2. CASE T # {}
      <3>. DEFINE Later == { p \in T \X T : p[1] < p[2] }
      <3>1. IsFiniteSet(T)
        <4>1. IsFiniteSet(1 .. n)
          BY FS_Interval
        <4>. QED
          BY <4>1, FS_Subset
      <3>2. PICK c \in T : \A y \in T : <<c, y>> \notin Later
        <4>1. \A x \in T : <<x, x>> \notin Later
          OBVIOUS
        <4>2. \A x, y, z \in T :
                <<x, y>> \in Later /\ <<y, z>> \in Later
                  => <<x, z>> \in Later
          OBVIOUS
        <4>. HIDE DEF Later
        <4>. QED
          BY <2>2, <3>1, <4>1, <4>2, LastOne
      <3>3. ASSUME NEW y \in T, c < y
            PROVE  FALSE
        <4>1. <<c, y>> \in T \X T /\ <<c, y>>[1] = c /\ <<c, y>>[2] = y
          OBVIOUS
        <4>. QED
          BY <3>2, <3>3, <4>1
      <3>4. T = 1 .. c
        <4>1. 1 .. c \subseteq T
          BY DEF NoGap
        <4>2. ASSUME NEW y \in T PROVE y \in 1 .. c
          BY <3>3
        <4>. QED
          BY <4>1, <4>2
      <3>. QED
        BY <3>4
    <2>. QED
      BY <2>1, <2>2
  <1>2. c \in Int /\ 1 \in Int
    OBVIOUS
  <1>3. IsFiniteSet(1 .. c) /\ Cardinality(1 .. c) = c
    BY <1>2, FS_Interval
  <1>. QED
    BY <1>1, <1>3

\* The bound need not be known: a finite set has one.
LEMMA NumbersWithoutGap ==
  ASSUME NEW T \in SUBSET (Nat \ {0}), IsFiniteSet(T), NoGap(T)
  PROVE  Cardinality(T) \in Nat /\ T = 1 .. Cardinality(T)
  <1>. DEFINE c == Cardinality(T)
  <1>1. c \in Nat
    BY FS_CardinalityType
  <1>2. c + 1 \notin T
    <2>. SUFFICES ASSUME c + 1 \in T PROVE FALSE
      OBVIOUS
    <2>1. PICK d \in Nat : d = c + 1
      BY <1>1
    <2>2. 1 .. d \subseteq T
      BY <2>1 DEF NoGap
    <2>3. Cardinality(1 .. d) <= c
      BY <2>2, FS_Subset
    <2>4. Cardinality(1 .. d) = d
      <3>1. 1 \in Int /\ d \in Int
        OBVIOUS
      <3>2. Cardinality(1 .. d) = IF 1 > d THEN 0 ELSE d - 1 + 1
        BY <3>1, FS_Interval
      <3>. QED
        BY <1>1, <2>1, <3>2
    <2>. QED
      BY <1>1, <2>1, <2>3, <2>4
  <1>3. T \in SUBSET (1 .. c)
    <2>1. ASSUME NEW j \in T, j > c
          PROVE  FALSE
      <3>1. c + 1 \in 1 .. j
        BY <1>1, <2>1
      <3>. QED
        BY <1>2, <3>1 DEF NoGap
    <2>. QED
      BY <1>1, <2>1
  <1>. QED
    BY <1>1, <1>3, NumbersBelow
-----------------------------------------------------------------------------
(***************************************************************************)
(* A session of captures: what the files say of one another, and what the  *)
(* script knows of them between two of its steps, wherever it is stopped.  *)
(***************************************************************************)
FileName == [slot : Nat \ {0}, index : Nat]
TraceFile == [run : Nat, parseable : BOOLEAN]
MetaFile == [attempt : Nat, target : Nat]
LogLine == [status : {"pending", "confirmed", "reverted"}, file : FileName]

TracesOK ==
  /\ DOMAIN traces \subseteq FileName /\ IsFiniteSet(DOMAIN traces)
  /\ traces \in [DOMAIN traces -> TraceFile]
  /\ \A n \in DOMAIN traces : n.index = 0 => traces[n].parseable

\* The attempts of a slot are numbered without a gap.
AttemptsOK ==
  \A n \in DOMAIN traces : \A k \in 1 .. n.index :
    Name(n.slot, k) \in DOMAIN traces

\* A run gets its metadata after its trace, and slots are committed in turn.
MetasOK ==
  /\ DOMAIN metas \subseteq DOMAIN traces
  /\ metas \in [DOMAIN metas -> MetaFile]
  /\ \A n \in DOMAIN metas : n.index = 0 =>
       /\ n.slot <= metas[n].target
       /\ \A s \in 1 .. n.slot : Committed(s)

\* The log is about attempts that were not kept.
LogOK ==
  /\ log \in Seq(LogLine)
  /\ \A i \in 1 .. Len(log) : log[i].file.index # 0

\* The slot is free, and is the first that is.
SlotIsFree ==
  /\ Name(slot, 0) \notin DOMAIN metas /\ slot <= target
  /\ \A s \in 1 .. slot - 1 : Committed(s)

InSlot == {"capture", "decide", "commit", "commit-meta", "reject",
           "reject-meta", "reject-log"}

ScriptOK ==
  /\ target \in Nat /\ attempt \in Nat /\ captures \in Nat
  /\ candidate \in TraceFile
  /\ pc \in InSlot => slot \in Nat \ {0}
  /\ pc \in {"capture", "decide", "commit", "commit-meta"} => SlotIsFree
  /\ pc \in {"decide", "commit"} => candidate.parseable
  /\ pc = "commit-meta" => Name(slot, 0) \in DOMAIN traces
  /\ pc \in {"reject-meta", "reject-log"} =>
       base \in DOMAIN traces /\ base.index # 0
  /\ pc = "reject-meta" => base \notin DOMAIN metas

SessionIInv == TracesOK /\ AttemptsOK /\ MetasOK /\ LogOK /\ ScriptOK

LEMMA Names ==
  ASSUME NEW s \in Nat \ {0}, NEW k \in Nat
  PROVE  /\ Name(s, k) \in FileName
         /\ Name(s, k).slot = s /\ Name(s, k).index = k
  BY DEF Name, FileName

LEMMA SameName ==
  ASSUME NEW n \in FileName
  PROVE  n = Name(n.slot, n.index)
  BY DEF Name, FileName

\* The count of the committed slots tells the first that is free.
LEMMA CountTells ==
  ASSUME MetasOK, TracesOK, target \in Nat, CountCommitted < target
  PROVE  /\ CountCommitted \in Nat
         /\ \A s \in 1 .. CountCommitted : Committed(s)
         /\ Name(CountCommitted + 1, 0) \notin DOMAIN metas
  <1>. DEFINE T == { s \in 1 .. target : Committed(s) }
              c == CountCommitted
  <1>1. NoGap(T)
    <2>. SUFFICES ASSUME NEW j \in T, NEW s \in 1 .. j PROVE s \in T
      BY DEF NoGap
    <2>1. /\ j \in 1 .. target /\ j \in Nat \ {0} /\ s \in 1 .. target
          /\ Name(j, 0) \in DOMAIN metas
      BY DEF Committed
    <2>2. Name(j, 0).index = 0 /\ Name(j, 0).slot = j
      BY <2>1, Names
    <2>3. Committed(s)
      BY <2>1, <2>2 DEF MetasOK
    <2>. QED
      BY <2>1, <2>3
  <1>2. c \in 0 .. target /\ T = 1 .. c
    BY <1>1, NumbersBelow DEF CountCommitted
  <1>3. \A s \in 1 .. c : Committed(s)
    BY <1>2
  <1>4. ASSUME Name(c + 1, 0) \in DOMAIN metas
        PROVE  FALSE
    <2>1. c + 1 \in Nat \ {0} /\ c + 1 \in 1 .. target /\ c + 1 \notin 1 .. c
      BY <1>2
    <2>2. Committed(c + 1)
      BY <1>4 DEF MetasOK, Committed
    <2>. QED
      BY <1>2, <2>1, <2>2
  <1>. QED
    BY <1>2, <1>3, <1>4

\* The count of the attempts of a slot tells the next free index.
LEMMA IndexIsFree ==
  ASSUME TracesOK, AttemptsOK, slot \in Nat \ {0}
  PROVE  /\ NextInvalidIndex \in Nat \ {0}
         /\ Name(slot, NextInvalidIndex) \notin DOMAIN traces
         /\ \A k \in 1 .. NextInvalidIndex - 1 :
              Name(slot, k) \in DOMAIN traces
  <1>. DEFINE A == { n \in DOMAIN traces : n.slot = slot /\ n.index > 0 }
              K == { n.index : n \in A }
              f == [n \in A |-> n.index]
  <1>1. IsFiniteSet(A) /\ A \subseteq FileName
    BY FS_Subset DEF TracesOK
  <1>2. f \in Bijection(A, K)
    <2>1. f \in Surjection(A, K)
      BY DEF Surjection
    <2>2. ASSUME NEW m \in A, NEW n \in A, f[m] = f[n]
          PROVE  m = n
      <3>1. m = Name(m.slot, m.index) /\ n = Name(n.slot, n.index)
        BY <1>1, SameName
      <3>. QED
        BY <2>2, <3>1
    <2>3. f \in Injection(A, K)
      <3>1. f \in [A -> K]
        OBVIOUS
      <3>. HIDE DEF f, A, K
      <3>. QED
        BY <2>2, <3>1 DEF Injection, IsInjective
    <2>. QED
      BY <2>1, <2>3 DEF Bijection
  <1>3. IsFiniteSet(K) /\ Cardinality(K) = Cardinality(A)
    <2>1. ExistsBijection(A, K)
      BY <1>2 DEF ExistsBijection
    <2>. HIDE DEF A, K
    <2>. QED
      BY <1>1, <2>1, FS_Bijection
  <1>4. K \in SUBSET (Nat \ {0})
    BY <1>1 DEF FileName
  <1>5. ASSUME NEW k \in Nat \ {0}
        PROVE  k \in K <=> Name(slot, k) \in DOMAIN traces
    <2>1. ASSUME k \in K PROVE Name(slot, k) \in DOMAIN traces
      <3>1. PICK n \in A : n.index = k
        BY <2>1
      <3>2. n = Name(n.slot, n.index)
        BY <1>1, SameName
      <3>. QED
        BY <3>1, <3>2
    <2>2. ASSUME Name(slot, k) \in DOMAIN traces PROVE k \in K
      <3>1. Name(slot, k) \in A
        BY <2>2, Names
      <3>. QED
        BY <3>1, Names
    <2>. QED
      BY <2>1, <2>2
  <1>6. NoGap(K)
    <2>. SUFFICES ASSUME NEW j \in K, NEW k \in 1 .. j PROVE k \in K
      BY DEF NoGap
    <2>1. j \in Nat \ {0} /\ k \in Nat \ {0}
      BY <1>4
    <2>2. /\ Name(slot, j) \in DOMAIN traces
          /\ Name(slot, j).slot = slot /\ Name(slot, j).index = j
      BY <1>5, <2>1, Names
    <2>3. Name(slot, k) \in DOMAIN traces
      BY <2>2 DEF AttemptsOK
    <2>. QED
      BY <1>5, <2>1, <2>3
  <1>. HIDE DEF A, K, f
  <1>7. Cardinality(K) \in Nat /\ K = 1 .. Cardinality(K)
    BY <1>3, <1>4, <1>6, NumbersWithoutGap
  <1>8. NextInvalidIndex = 1 + Cardinality(K)
    BY <1>3 DEF NextInvalidIndex, A
  <1>. QED
    BY <1>5, <1>7, <1>8

LEMMA SessionInit == Init => SessionIInv
  <1>. SUFFICES ASSUME Init PROVE SessionIInv
    OBVIOUS
  <1>1. /\ DOMAIN traces = {} /\ DOMAIN metas = {} /\ log = <<>>
        /\ traces \in [{} -> TraceFile] /\ metas \in [{} -> MetaFile]
    BY DEF Init, NoFiles
  <1>2. TracesOK /\ AttemptsOK /\ MetasOK
    BY <1>1, FS_EmptySet DEF TracesOK, AttemptsOK, MetasOK
  <1>3. LogOK
    BY <1>1 DEF LogOK
  <1>4. ScriptOK
    BY TargetsAssumption DEF Init, ScriptOK, TraceFile, InSlot
  <1>. QED
    BY <1>2, <1>3, <1>4 DEF SessionIInv

\* What does not write keeps what the files say.
LEMMA FilesStay ==
  ASSUME TracesOK, AttemptsOK, MetasOK, LogOK, UNCHANGED dirVars
  PROVE  TracesOK' /\ AttemptsOK' /\ MetasOK' /\ LogOK'
  <1>1. traces' = traces /\ metas' = metas /\ log' = log
    BY DEF dirVars
  <1>2. TracesOK' /\ AttemptsOK'
    BY <1>1 DEF TracesOK, AttemptsOK
  <1>3. MetasOK' /\ LogOK'
    BY <1>1 DEF MetasOK, LogOK, Committed
  <1>. QED
    BY <1>2, <1>3

LEMMA FreeStays ==
  ASSUME SlotIsFree, UNCHANGED <<traces, metas, slot, target>>
  PROVE  SlotIsFree'
  BY DEF SlotIsFree, Committed

LEMMA ScriptStops ==
  ASSUME ScriptOK, pc' \notin InSlot, target' \in Nat, attempt' \in Nat,
         UNCHANGED <<candidate, captures>>
  PROVE  ScriptOK'
  BY DEF ScriptOK, InSlot

LEMMA QuietStep ==
  ASSUME SessionIInv, Start \/ Warmup \/ Review \/ Crash
  PROVE  SessionIInv'
  <1>1. UNCHANGED dirVars /\ UNCHANGED <<candidate, captures>>
    BY DEF Start, Warmup, Review, Crash, bounds
  <1>2. /\ pc' \notin InSlot
        /\ target' \in Targets \cup {target} /\ attempt' \in {1, attempt}
    BY DEF Start, Warmup, Review, Crash, InSlot
  <1>3. target' \in Nat /\ attempt' \in Nat
    <2>1. target \in Nat /\ attempt \in Nat
      BY DEF SessionIInv, ScriptOK
    <2>. QED
      BY <1>2, <2>1, TargetsAssumption
  <1>4. ScriptOK'
    BY <1>1, <1>2, <1>3, ScriptStops DEF SessionIInv
  <1>. QED
    BY <1>1, <1>4, FilesStay DEF SessionIInv

\* A stutter is a step that writes nothing, too.
LEMMA StutterStep ==
  ASSUME SessionIInv, UNCHANGED sessionVars
  PROVE  SessionIInv'
  <1>1. /\ UNCHANGED dirVars /\ traces' = traces /\ metas' = metas
        /\ pc' = pc /\ target' = target /\ slot' = slot
        /\ attempt' = attempt /\ candidate' = candidate /\ base' = base
        /\ captures' = captures
    BY DEF sessionVars, dirVars, bounds
  <1>2. SlotIsFree => SlotIsFree'
    BY <1>1, FreeStays
  <1>3. ScriptOK'
    BY <1>1, <1>2 DEF SessionIInv, ScriptOK
  <1>. QED
    BY <1>1, <1>3, FilesStay DEF SessionIInv

LEMMA NextSlotStep ==
  ASSUME SessionIInv, NextSlot
  PROVE  SessionIInv'
  <1>1. /\ UNCHANGED dirVars /\ traces' = traces /\ metas' = metas
        /\ target' = target /\ attempt' = attempt
        /\ candidate' = candidate /\ captures' = captures
    BY DEF NextSlot, dirVars, bounds
  <1>2. CASE CountCommitted < target
    <2>1. slot' = CountCommitted + 1 /\ pc' = "capture"
      BY <1>2 DEF NextSlot
    <2>2. /\ CountCommitted \in Nat
          /\ \A s \in 1 .. CountCommitted : Committed(s)
          /\ Name(CountCommitted + 1, 0) \notin DOMAIN metas
      BY <1>2, CountTells DEF SessionIInv, ScriptOK
    <2>3. SlotIsFree'
      <3>1. Name(slot', 0) \notin DOMAIN metas' /\ slot' <= target'
        BY <1>1, <1>2, <2>1, <2>2 DEF SessionIInv, ScriptOK
      <3>2. \A s \in 1 .. slot' - 1 : s \in 1 .. CountCommitted
        BY <2>1, <2>2
      <3>3. \A s : Committed(s) => Committed(s)'
        BY <1>1 DEF Committed
      <3>. QED
        BY <2>2, <3>1, <3>2, <3>3 DEF SlotIsFree, Name
    <2>4. slot' \in Nat \ {0}
      BY <2>1, <2>2
    <2>5. ScriptOK'
      BY <1>1, <2>1, <2>3, <2>4 DEF SessionIInv, ScriptOK
    <2>. QED
      BY <1>1, <2>5, FilesStay DEF SessionIInv
  <1>3. CASE ~ (CountCommitted < target)
    <2>1. pc' \notin InSlot
      BY <1>3 DEF NextSlot, InSlot
    <2>2. ScriptOK'
      BY <1>1, <2>1, ScriptStops DEF SessionIInv, ScriptOK
    <2>. QED
      BY <1>1, <2>2, FilesStay DEF SessionIInv
  <1>. QED
    BY <1>2, <1>3

LEMMA MeasureStep ==
  ASSUME SessionIInv, Capture
  PROVE  SessionIInv'
  <1>1. /\ pc = "capture"
        /\ UNCHANGED dirVars /\ traces' = traces /\ metas' = metas
        /\ target' = target /\ attempt' = attempt /\ slot' = slot
        /\ base' = base /\ captures' = captures + 1
    BY DEF Capture, dirVars
  <1>2. /\ captures' \in Nat /\ slot' \in Nat \ {0} /\ target' \in Nat
        /\ attempt' \in Nat /\ candidate \in TraceFile /\ SlotIsFree
    BY <1>1 DEF SessionIInv, ScriptOK, InSlot
  <1>3. SlotIsFree'
    BY <1>1, <1>2, FreeStays
  <1>4. \/ pc' = "decide"
             /\ candidate' = [run |-> captures', parseable |-> TRUE]
        \/ pc' = "reject"
             /\ candidate' = [run |-> captures', parseable |-> FALSE]
        \/ pc' = "stopped" /\ candidate' = candidate
    BY DEF Capture
  <1>5. candidate' \in TraceFile /\ (pc' = "decide" => candidate'.parseable)
    <2>1. /\ [run |-> captures', parseable |-> TRUE] \in TraceFile
          /\ [run |-> captures', parseable |-> FALSE] \in TraceFile
      BY <1>2 DEF TraceFile
    <2>2. [run |-> captures', parseable |-> TRUE].parseable
      OBVIOUS
    <2>. QED
      BY <1>2, <1>4, <2>1, <2>2, Zenon
  <1>6. ScriptOK'
    BY <1>2, <1>3, <1>4, <1>5 DEF ScriptOK, InSlot
  <1>. QED
    BY <1>1, <1>6, FilesStay DEF SessionIInv

LEMMA DecideStep ==
  ASSUME SessionIInv, Decide
  PROVE  SessionIInv'
  <1>1. /\ pc = "decide" /\ pc' \in {"commit", "reject"}
        /\ UNCHANGED dirVars /\ traces' = traces /\ metas' = metas
        /\ target' = target /\ attempt' = attempt /\ slot' = slot
        /\ candidate' = candidate /\ base' = base /\ captures' = captures
    BY DEF Decide, dirVars, bounds
  <1>2. SlotIsFree'
    BY <1>1, FreeStays DEF SessionIInv, ScriptOK
  <1>3. ScriptOK'
    BY <1>1, <1>2 DEF SessionIInv, ScriptOK, InSlot
  <1>. QED
    BY <1>1, <1>3, FilesStay DEF SessionIInv

\* The trace of an attempt gets the next free index of its slot.
LEMMA RejectTraceStep ==
  ASSUME SessionIInv, RejectTrace
  PROVE  SessionIInv'
  <1>. DEFINE k == NextInvalidIndex
              n == Name(slot, k)
  <1>1. /\ pc = "reject" /\ pc' = "reject-meta" /\ base' = n
        /\ metas' = metas /\ log' = log /\ target' = target
        /\ slot' = slot /\ attempt' = attempt /\ candidate' = candidate
        /\ captures' = captures /\ traces' = Write(traces, n, candidate)
    BY DEF RejectTrace, bounds
  <1>2. /\ TracesOK /\ AttemptsOK /\ MetasOK /\ LogOK
        /\ slot \in Nat \ {0} /\ candidate \in TraceFile
        /\ target \in Nat /\ attempt \in Nat /\ captures \in Nat
    BY <1>1 DEF SessionIInv, ScriptOK, InSlot
  <1>3. /\ k \in Nat \ {0} /\ n \notin DOMAIN traces
        /\ \A j \in 1 .. k - 1 : Name(slot, j) \in DOMAIN traces
    BY <1>2, IndexIsFree
  <1>. HIDE DEF k
  <1>4. n \in FileName /\ n.slot = slot /\ n.index = k
    BY <1>2, <1>3, Names
  <1>. HIDE DEF n
  <1>5. /\ DOMAIN traces' = DOMAIN traces \cup {n}
        /\ traces'[n] = candidate
        /\ \A m \in DOMAIN traces : traces'[m] = traces[m]
    BY <1>1, <1>3 DEF Write
  <1>6. TracesOK'
    <2>1. IsFiniteSet(DOMAIN traces')
      BY <1>2, <1>5, FS_AddElement DEF TracesOK
    <2>2. traces' \in [DOMAIN traces' -> TraceFile]
      <3>1. traces' = [m \in DOMAIN traces' |-> traces'[m]]
        BY <1>1 DEF Write
      <3>2. \A m \in DOMAIN traces' : traces'[m] \in TraceFile
        BY <1>2, <1>5 DEF TracesOK
      <3>. QED
        BY <3>1, <3>2
    <2>. QED
      BY <1>2, <1>3, <1>4, <1>5, <2>1, <2>2 DEF TracesOK
  <1>7. AttemptsOK'
    <2>. SUFFICES ASSUME NEW m \in DOMAIN traces', NEW j \in 1 .. m.index
                  PROVE  Name(m.slot, j) \in DOMAIN traces'
      BY DEF AttemptsOK, Name
    <2>1. CASE m = n
      <3>1. j \in 1 .. k - 1 \/ j = k
        BY <1>3, <1>4, <2>1
      <3>2. n = Name(slot, k)
        BY DEF n
      <3>. QED
        BY <1>3, <1>4, <1>5, <2>1, <3>1, <3>2
    <2>2. CASE m # n
      BY <1>2, <1>5, <2>2 DEF AttemptsOK
    <2>. QED
      BY <2>1, <2>2
  <1>8. MetasOK' /\ LogOK'
    <2>1. \A s : Committed(s) => Committed(s)'
      BY <1>1, <1>5 DEF Committed, Name
    <2>. QED
      BY <1>1, <1>2, <1>5, <2>1 DEF MetasOK, LogOK
  <1>9. ScriptOK'
    <2>1. n \notin DOMAIN metas
      BY <1>2, <1>3 DEF MetasOK
    <2>. QED
      BY <1>1, <1>2, <1>3, <1>4, <1>5, <2>1 DEF ScriptOK, InSlot
  <1>. QED
    BY <1>6, <1>7, <1>8, <1>9 DEF SessionIInv

\* The committed trace of a free slot may be there from an earlier start
\* that was stopped before the metadata.
LEMMA CommitTraceStep ==
  ASSUME SessionIInv, CommitTrace
  PROVE  SessionIInv'
  <1>. DEFINE n == Name(slot, 0)
  <1>1. /\ pc = "commit" /\ pc' = "commit-meta"
        /\ metas' = metas /\ log' = log /\ target' = target
        /\ slot' = slot /\ attempt' = attempt /\ candidate' = candidate
        /\ captures' = captures /\ traces' = Write(traces, n, candidate)
    BY DEF CommitTrace, bounds
  <1>2. /\ TracesOK /\ AttemptsOK /\ MetasOK /\ LogOK /\ SlotIsFree
        /\ slot \in Nat \ {0} /\ candidate \in TraceFile
        /\ candidate.parseable
        /\ target \in Nat /\ attempt \in Nat /\ captures \in Nat
    BY <1>1 DEF SessionIInv, ScriptOK, InSlot
  <1>3. n \in FileName /\ n.slot = slot /\ n.index = 0
    BY <1>2, Names
  <1>4. n \notin DOMAIN metas
    BY <1>2 DEF SlotIsFree
  <1>. HIDE DEF n
  <1>5. /\ DOMAIN traces' = DOMAIN traces \cup {n}
        /\ traces'[n] = candidate
        /\ \A m \in DOMAIN traces \ {n} : traces'[m] = traces[m]
    BY <1>1 DEF Write
  <1>6. TracesOK'
    <2>1. IsFiniteSet(DOMAIN traces')
      BY <1>2, <1>5, FS_AddElement DEF TracesOK
    <2>2. traces' \in [DOMAIN traces' -> TraceFile]
      <3>1. traces' = [m \in DOMAIN traces' |-> traces'[m]]
        BY <1>1 DEF Write
      <3>2. \A m \in DOMAIN traces' : traces'[m] \in TraceFile
        BY <1>2, <1>5 DEF TracesOK
      <3>. QED
        BY <3>1, <3>2
    <2>. QED
      BY <1>2, <1>3, <1>5, <2>1, <2>2 DEF TracesOK
  <1>7. AttemptsOK'
    <2>. SUFFICES ASSUME NEW m \in DOMAIN traces', NEW j \in 1 .. m.index
                  PROVE  Name(m.slot, j) \in DOMAIN traces'
      BY DEF AttemptsOK, Name
    <2>1. m # n
      BY <1>3
    <2>. QED
      BY <1>2, <1>5, <2>1 DEF AttemptsOK
  <1>8. \A s : Committed(s) => Committed(s)'
    BY <1>1, <1>5 DEF Committed, Name
  <1>9. MetasOK' /\ LogOK'
    BY <1>1, <1>2, <1>5, <1>8 DEF MetasOK, LogOK
  <1>10. SlotIsFree'
    BY <1>1, <1>2, <1>8 DEF SlotIsFree, Name
  <1>11. ScriptOK'
    <2>1. Name(slot', 0) \in DOMAIN traces'
      BY <1>1, <1>5 DEF n
    <2>. QED
      BY <1>1, <1>2, <1>10, <2>1 DEF ScriptOK, InSlot
  <1>. QED
    BY <1>6, <1>7, <1>9, <1>11 DEF SessionIInv

\* What gets metadata n is a trace without one: an attempt that was not
\* kept, or the run of the free slot.
LEMMA MetaWritten ==
  ASSUME MetasOK, TracesOK, traces' = traces, NEW n \in DOMAIN traces,
         n.index = 0 => \A s \in 1 .. n.slot - 1 : Committed(s),
         NEW a \in Nat, NEW t \in Nat, n.index = 0 => n.slot <= t,
         metas' = Write(metas, n, [attempt |-> a, target |-> t])
  PROVE  MetasOK' /\ \A s : Committed(s) => Committed(s)'
  <1>1. /\ DOMAIN metas' = DOMAIN metas \cup {n}
        /\ metas'[n] = [attempt |-> a, target |-> t]
        /\ \A m \in DOMAIN metas \ {n} : metas'[m] = metas[m]
        /\ metas' = [m \in DOMAIN metas' |-> metas'[m]]
    BY DEF Write
  <1>2. [attempt |-> a, target |-> t] \in MetaFile
    BY DEF MetaFile
  <1>3. metas' \in [DOMAIN metas' -> MetaFile]
    <2>1. \A m \in DOMAIN metas' : metas'[m] \in MetaFile
      BY <1>1, <1>2 DEF MetasOK
    <2>. QED
      BY <1>1, <2>1
  <1>4. \A s : Committed(s) => Committed(s)'
    BY <1>1 DEF Committed
  <1>5. ASSUME NEW m \in DOMAIN metas', m.index = 0, NEW s \in 1 .. m.slot
        PROVE  Committed(s)'
    <2>1. CASE m = n
      <3>1. n \in FileName
        BY DEF TracesOK
      <3>2. n = Name(n.slot, 0)
        BY <1>5, <2>1, <3>1, SameName
      <3>3. n.slot \in Nat \ {0}
        BY <3>1 DEF FileName
      <3>4. s \in 1 .. n.slot - 1 \/ s = n.slot
        BY <2>1, <3>3
      <3>5. CASE s = n.slot
        <4>1. Name(s, 0) = n
          BY <3>2, <3>5
        <4>. QED
          BY <1>1, <4>1 DEF Committed, Name
      <3>6. CASE s \in 1 .. n.slot - 1
        BY <1>4, <1>5, <2>1, <3>6
      <3>. QED
        BY <3>4, <3>5, <3>6
    <2>2. CASE m # n
      BY <1>1, <1>4, <1>5, <2>2 DEF MetasOK
    <2>. QED
      BY <2>1, <2>2
  <1>6. DOMAIN metas' \subseteq DOMAIN traces'
    BY <1>1 DEF MetasOK
  <1>7. ASSUME NEW m \in DOMAIN metas', m.index = 0
        PROVE  m.slot <= metas'[m].target
    BY <1>1, <1>7 DEF MetasOK
  <1>. QED
    BY <1>3, <1>4, <1>5, <1>6, <1>7 DEF MetasOK

LEMMA TracesStay ==
  ASSUME TracesOK, AttemptsOK, traces' = traces
  PROVE  TracesOK' /\ AttemptsOK'
  BY DEF TracesOK, AttemptsOK

LEMMA RejectMetaStep ==
  ASSUME SessionIInv, RejectMeta
  PROVE  SessionIInv'
  <1>1. /\ pc = "reject-meta" /\ pc' = "reject-log" /\ base' = base
        /\ traces' = traces /\ log' = log /\ target' = target
        /\ slot' = slot /\ attempt' = attempt /\ candidate' = candidate
        /\ captures' = captures
        /\ metas' = Write(metas, base,
                          [attempt |-> attempt, target |-> target])
    BY DEF RejectMeta, bounds
  <1>2. /\ TracesOK /\ AttemptsOK /\ MetasOK /\ LogOK
        /\ slot \in Nat \ {0} /\ candidate \in TraceFile
        /\ base \in DOMAIN traces /\ base.index # 0
        /\ target \in Nat /\ attempt \in Nat /\ captures \in Nat
    BY <1>1 DEF SessionIInv, ScriptOK, InSlot
  <1>3. MetasOK'
    BY <1>1, <1>2, MetaWritten
  <1>4. LogOK'
    BY <1>1, <1>2 DEF LogOK
  <1>5. ScriptOK'
    BY <1>1, <1>2 DEF ScriptOK, InSlot
  <1>. QED
    BY <1>1, <1>2, <1>3, <1>4, <1>5, TracesStay DEF SessionIInv

LEMMA CommitMetaStep ==
  ASSUME SessionIInv, CommitMeta
  PROVE  SessionIInv'
  <1>. DEFINE n == Name(slot, 0)
  <1>1. /\ pc = "commit-meta" /\ pc' = "next" /\ attempt' = attempt + 1
        /\ traces' = traces /\ log' = log /\ target' = target
        /\ candidate' = candidate /\ captures' = captures
        /\ metas' = Write(metas, n, [attempt |-> attempt, target |-> target])
    BY DEF CommitMeta, bounds
  <1>2. /\ TracesOK /\ AttemptsOK /\ MetasOK /\ LogOK /\ SlotIsFree
        /\ slot \in Nat \ {0} /\ n \in DOMAIN traces
        /\ target \in Nat /\ attempt \in Nat
    BY <1>1 DEF SessionIInv, ScriptOK, InSlot
  <1>3. n.slot = slot /\ n.index = 0
    BY <1>2, Names
  <1>4. n.slot <= target /\ \A s \in 1 .. n.slot - 1 : Committed(s)
    BY <1>2, <1>3 DEF SlotIsFree
  <1>. HIDE DEF n
  <1>5. MetasOK'
    BY <1>1, <1>2, <1>4, MetaWritten
  <1>6. LogOK'
    BY <1>1, <1>2 DEF LogOK
  <1>7. ScriptOK'
    <2>1. pc' \notin InSlot /\ attempt' \in Nat /\ target' \in Nat
      BY <1>1, <1>2 DEF InSlot
    <2>. QED
      BY <1>1, <2>1, ScriptStops DEF SessionIInv
  <1>. QED
    BY <1>1, <1>2, <1>5, <1>6, <1>7, TracesStay DEF SessionIInv

LEMMA RejectLogStep ==
  ASSUME SessionIInv, RejectLog
  PROVE  SessionIInv'
  <1>. DEFINE line == [status |-> "pending", file |-> base]
  <1>1. /\ pc = "reject-log" /\ pc' = "next" /\ attempt' = attempt + 1
        /\ traces' = traces /\ metas' = metas /\ target' = target
        /\ candidate' = candidate /\ captures' = captures
        /\ log' = Append(log, line)
    BY DEF RejectLog, bounds
  <1>2. /\ TracesOK /\ AttemptsOK /\ MetasOK /\ LogOK
        /\ base \in DOMAIN traces /\ base.index # 0
        /\ target \in Nat /\ attempt \in Nat
    BY <1>1 DEF SessionIInv, ScriptOK
  <1>3. line \in LogLine /\ line.file.index # 0
    BY <1>2 DEF TracesOK, LogLine
  <1>. HIDE DEF line
  <1>4. LogOK'
    <2>1. /\ log \in Seq(LogLine)
          /\ \A i \in 1 .. Len(log) : log[i].file.index # 0
      BY <1>2 DEF LogOK
    <2>2. /\ log' \in Seq(LogLine) /\ Len(log') = Len(log) + 1
          /\ \A i \in 1 .. Len(log) : log'[i] = log[i]
          /\ log'[Len(log) + 1] = line
      BY <1>1, <1>3, <2>1, AppendProperties
    <2>3. Len(log) \in Nat
      BY <2>1, LenProperties
    <2>. QED
      BY <1>3, <2>1, <2>2, <2>3 DEF LogOK
  <1>5. MetasOK'
    BY <1>1, <1>2 DEF MetasOK, Committed
  <1>6. ScriptOK'
    <2>1. pc' \notin InSlot /\ attempt' \in Nat /\ target' \in Nat
      BY <1>1, <1>2 DEF InSlot
    <2>. QED
      BY <1>1, <2>1, ScriptStops DEF SessionIInv
  <1>. QED
    BY <1>1, <1>2, <1>4, <1>5, <1>6, TracesStay DEF SessionIInv

\* The operator writes an outcome, not the name of another file.
LEMMA EditLogStep ==
  ASSUME SessionIInv, EditLog
  PROVE  SessionIInv'
  <1>1. /\ pc = "stopped" /\ pc' = pc /\ traces' = traces /\ metas' = metas
        /\ target' = target /\ attempt' = attempt /\ candidate' = candidate
        /\ captures' = captures
    BY DEF EditLog, bounds
  <1>2. PICK i \in Pending, status \in {"confirmed", "reverted"} :
          log' = [log EXCEPT ![i].status = status]
    BY DEF EditLog
  <1>3. /\ TracesOK /\ AttemptsOK /\ MetasOK
        /\ log \in Seq(LogLine)
        /\ \A j \in 1 .. Len(log) : log[j].file.index # 0
    BY DEF SessionIInv, LogOK
  <1>4. LogOK'
    <2>. DEFINE line == [log[i] EXCEPT !.status = status]
    <2>1. i \in 1 .. Len(log) /\ log[i] \in LogLine
      BY <1>3, ElementOfSeq DEF Pending
    <2>2. line \in LogLine /\ line.file = log[i].file
      BY <1>2, <2>1 DEF LogLine
    <2>3. log' = [log EXCEPT ![i] = line]
      BY <1>2
    <2>. HIDE DEF line
    <2>4. /\ log' \in Seq(LogLine) /\ Len(log') = Len(log)
          /\ \A j \in 1 .. Len(log) :
               log'[j] = IF j = i THEN line ELSE log[j]
      BY <1>3, <2>1, <2>2, <2>3, ExceptSeq
    <2>. QED
      BY <1>3, <2>2, <2>4 DEF LogOK
  <1>5. MetasOK'
    BY <1>1, <1>3 DEF MetasOK, Committed
  <1>6. ScriptOK'
    <2>1. target' \in Nat /\ attempt' \in Nat /\ pc' \notin InSlot
      BY <1>1 DEF SessionIInv, ScriptOK, InSlot
    <2>. QED
      BY <1>1, <2>1, ScriptStops DEF SessionIInv
  <1>. QED
    BY <1>1, <1>3, <1>4, <1>5, <1>6, TracesStay DEF SessionIInv

(***************************************************************************)
(* Wherever the script is stopped and however often it is started again:   *)
(* attempts are numbered without a gap, a run gets its metadata after its  *)
(* trace, slots are committed in turn, and what the script works on is the *)
(* first free slot and a free name.                                        *)
(***************************************************************************)
THEOREM SessionInvariant == SessionSpec => []SessionIInv
  <1>1. SessionIInv /\ [Next]_sessionVars => SessionIInv'
    BY QuietStep, StutterStep, NextSlotStep, MeasureStep, DecideStep,
       RejectTraceStep, RejectMetaStep, RejectLogStep, CommitTraceStep,
       CommitMetaStep, EditLogStep
       DEF Next, ScriptStep
  <1>. QED
    BY <1>1, SessionInit, PTL DEF SessionSpec

(***************************************************************************)
(* Once a run has its metadata neither file is written over: the script    *)
(* writes a trace under the next free index or for a slot without          *)
(* metadata, and metadata for a trace that has none (run_capture.sh:       *)
(* 262-267, 688-719).                                                      *)
(***************************************************************************)
THEOREM RecordsAreKept == SessionSpec => RecordedRunsAreKept
  <1>. DEFINE Kept == \A n \in DOMAIN metas :
                        /\ n \in DOMAIN metas' /\ metas'[n] = metas[n]
                        /\ n \in DOMAIN traces' /\ traces'[n] = traces[n]
  <1>1. ASSUME SessionIInv, Next PROVE Kept
    <2>. SUFFICES ASSUME NEW n \in DOMAIN metas
                  PROVE  /\ n \in DOMAIN metas' /\ metas'[n] = metas[n]
                         /\ n \in DOMAIN traces' /\ traces'[n] = traces[n]
      OBVIOUS
    <2>1. n \in DOMAIN traces
      BY <1>1 DEF SessionIInv, MetasOK
    <2>2. CASE UNCHANGED <<traces, metas>>
      BY <2>1, <2>2
    <2>3. CASE RejectTrace
      <3>1. slot \in Nat \ {0}
        BY <1>1, <2>3 DEF RejectTrace, SessionIInv, ScriptOK, InSlot
      <3>2. Name(slot, NextInvalidIndex) \notin DOMAIN traces
        BY <1>1, <3>1, IndexIsFree DEF SessionIInv
      <3>. QED
        BY <2>1, <2>3, <3>2 DEF RejectTrace, Write
    <2>4. CASE CommitTrace
      <3>1. Name(slot, 0) \notin DOMAIN metas
        BY <1>1, <2>4 DEF CommitTrace, SessionIInv, ScriptOK, SlotIsFree
      <3>. QED
        BY <2>1, <2>4, <3>1 DEF CommitTrace, Write
    <2>5. CASE RejectMeta
      <3>1. base \notin DOMAIN metas
        BY <1>1, <2>5 DEF RejectMeta, SessionIInv, ScriptOK
      <3>. QED
        BY <2>1, <2>5, <3>1 DEF RejectMeta, Write
    <2>6. CASE CommitMeta
      <3>1. Name(slot, 0) \notin DOMAIN metas
        BY <1>1, <2>6 DEF CommitMeta, SessionIInv, ScriptOK, SlotIsFree
      <3>. QED
        BY <2>1, <2>6, <3>1 DEF CommitMeta, Write
    <2>7. CASE \/ Start \/ Warmup \/ NextSlot \/ Capture \/ Decide
               \/ RejectLog \/ Review \/ Crash \/ EditLog
      <3>1. UNCHANGED <<traces, metas>>
        BY <2>7 DEF Start, Warmup, NextSlot, Capture, Decide, RejectLog,
                    Review, Crash, EditLog, dirVars
      <3>. QED
        BY <2>2, <3>1
    <2>. QED
      BY <1>1, <2>3, <2>4, <2>5, <2>6, <2>7 DEF Next, ScriptStep
  <1>2. SessionIInv /\ [Next]_sessionVars => [Kept]_sessionVars
    BY <1>1
  <1>. QED
    BY <1>2, SessionInvariant, PTL DEF SessionSpec, RecordedRunsAreKept

\* What is left of a slot has a last one, by attempt and directory order.
LEMMA LatestOne ==
  ASSUME TracesOK, MetasOK, NEW s, Eligible(s) # {}
  PROVE  Latest(Eligible(s)) \in Eligible(s)
  <1>. DEFINE E == Eligible(s)
              Later == { p \in E \X E : Earlier(p[1], p[2]) }
  <1>1. /\ E \subseteq DOMAIN metas
        /\ \A n \in E : n.slot = s
    BY DEF Eligible
  <1>2. IsFiniteSet(E)
    <2>1. E \in SUBSET DOMAIN traces
      BY <1>1 DEF MetasOK
    <2>. HIDE DEF E
    <2>. QED
      BY <2>1, FS_Subset DEF TracesOK
  <1>3. ASSUME NEW n \in E
        PROVE  /\ metas[n].attempt \in Nat /\ n.index \in Nat
               /\ n \in FileName /\ n.slot = s
    BY <1>1 DEF MetasOK, TracesOK, MetaFile, FileName
  <1>4. \A m \in E : s \in Nat
    BY <1>3 DEF FileName
  <1>5. ASSUME NEW m \in E, NEW n \in E
        PROVE  /\ <<m, n>> \in Later <=> Earlier(m, n)
               /\ Earlier(m, n) <=>
                    \/ metas[m].attempt < metas[n].attempt
                    \/ /\ metas[m].attempt = metas[n].attempt
                       /\ m.index # 0
                       /\ n.index = 0 \/ m.index < n.index
    BY <1>3, <1>4 DEF Earlier, Before
  <1>. HIDE DEF E, Later
  <1>6. \A m \in E : <<m, m>> \notin Later
    BY <1>3, <1>5
  <1>7. ASSUME NEW l \in E, NEW m \in E, NEW n \in E,
               <<l, m>> \in Later, <<m, n>> \in Later
        PROVE  <<l, n>> \in Later
    BY <1>3, <1>5, <1>7
  <1>8. PICK n \in E : \A m \in E : <<n, m>> \notin Later
    BY <1>2, <1>6, <1>7, LastOne DEF E
  <1>9. ASSUME NEW m \in E, m # n
        PROVE  Earlier(m, n)
    <2>1. m.index # n.index
      BY <1>3, <1>9, SameName
    <2>2. ~ Earlier(n, m)
      BY <1>5, <1>8
    <2>3. /\ metas[m].attempt \in Nat /\ metas[n].attempt \in Nat
          /\ m.index \in Nat /\ n.index \in Nat
      BY <1>3
    <2>4. ~ (metas[n].attempt < metas[m].attempt)
      BY <1>5, <2>2
    <2>5. CASE metas[m].attempt < metas[n].attempt
      BY <1>5, <2>5
    <2>6. CASE metas[m].attempt = metas[n].attempt
      <3>1. ~ (n.index # 0 /\ (m.index = 0 \/ n.index < m.index))
        BY <1>5, <2>2, <2>6
      <3>2. m.index # 0 /\ (n.index = 0 \/ m.index < n.index)
        BY <2>1, <2>3, <3>1
      <3>. QED
        BY <1>5, <2>6, <3>2
    <2>. QED
      BY <2>3, <2>4, <2>5, <2>6
  <1>10. \E x \in E : \A m \in E \ {x} : Earlier(m, x)
    BY <1>9
  <1>. QED
    BY <1>10 DEF Latest, E

\* The directory has a first metadata file, whose target is a number.
LEMMA FirstMeta ==
  ASSUME TracesOK, MetasOK
  PROVE  SummaryTarget \in Nat
  <1>. DEFINE D == DOMAIN metas
              Later == { p \in D \X D : Before(p[2], p[1]) }
  <1>1. IsFiniteSet(D) /\ D \subseteq FileName
    BY FS_Subset DEF TracesOK, MetasOK
  <1>2. CASE D = {}
    BY <1>2 DEF SummaryTarget
  <1>3. CASE D # {}
    <2>. HIDE DEF D
    <2>1. ASSUME NEW m \in D, NEW n \in D
          PROVE  /\ <<m, n>> \in Later <=> Before(n, m)
                 /\ m.slot \in Nat /\ m.index \in Nat
                 /\ n.slot \in Nat /\ n.index \in Nat
      <3>1. m \in FileName /\ n \in FileName
        BY <1>1
      <3>2. /\ m.slot \in Nat /\ m.index \in Nat
            /\ n.slot \in Nat /\ n.index \in Nat
        BY <3>1 DEF FileName
      <3>3. <<m, n>> \in Later <=> Before(n, m)
        BY <3>2 DEF Before
      <3>. QED
        BY <3>2, <3>3
    <2>. HIDE DEF Later
    <2>2. \A m \in D : <<m, m>> \notin Later
      BY <2>1 DEF Before
    <2>3. ASSUME NEW l \in D, NEW m \in D, NEW n \in D,
                 <<l, m>> \in Later, <<m, n>> \in Later
          PROVE  <<l, n>> \in Later
      BY <2>1, <2>3 DEF Before
    <2>4. PICK n \in D : \A m \in D : <<n, m>> \notin Later
      BY <1>1, <1>3, <2>2, <2>3, LastOne
    <2>5. ASSUME NEW m \in D \ {n}
          PROVE  Before(n, m)
      <3>1. m.slot # n.slot \/ m.index # n.index
        <4>1. m \in FileName /\ n \in FileName
          BY <1>1
        <4>. QED
          BY <4>1, SameName
      <3>2. /\ m.slot \in Nat /\ m.index \in Nat
            /\ n.slot \in Nat /\ n.index \in Nat
            /\ ~Before(m, n)
        BY <2>1, <2>4
      <3>. QED
        BY <3>1, <3>2 DEF Before
    <2>6. (CHOOSE x \in D : \A m \in D \ {x} : Before(x, m)) \in D
      BY <2>5
    <2>. QED
      BY <1>3, <2>6 DEF D, SummaryTarget, MetasOK, MetaFile
  <1>. QED
    BY <1>2, <1>3

(***************************************************************************)
(* Whatever was stopped, rejected and edited, the committed slots are the  *)
(* first ones, and every committed run is counted up to the target of the  *)
(* summary: it is parseable and the log never names it; one beyond was     *)
(* committed under a higher target (run_capture.sh:726-736,                *)
(* summarize_trace.mjs:347, :383-401).                                     *)
(***************************************************************************)
THEOREM CommittedCount == SessionSpec => []CommittedAreCounted
  <1>1. SessionIInv => CommittedAreCounted
    <2>. SUFFICES ASSUME SessionIInv PROVE CommittedAreCounted
      OBVIOUS
    <2>1. TracesOK /\ MetasOK /\ LogOK
      BY DEF SessionIInv
    <2>. SUFFICES ASSUME NEW n \in DOMAIN metas, n.index = 0
                  PROVE  /\ \A s \in 1 .. n.slot : Committed(s)
                         /\ n.slot <= SummaryTarget => n \in Included
                         /\ n.slot > SummaryTarget
                              => metas[n].target > SummaryTarget
      BY DEF CommittedAreCounted
    <2>2. /\ \A s \in 1 .. n.slot : Committed(s)
          /\ n.slot <= metas[n].target /\ n \in DOMAIN traces
      BY <2>1 DEF MetasOK
    <2>3. /\ n \in FileName /\ n = Name(n.slot, 0)
          /\ n.slot \in Nat \ {0} /\ metas[n].target \in Nat
          /\ SummaryTarget \in Nat
      <3>1. n \in FileName /\ metas[n] \in MetaFile
        BY <2>1, <2>2 DEF TracesOK, MetasOK
      <3>. QED
        BY <2>1, <3>1, SameName, FirstMeta DEF FileName, MetaFile
    <2>4. n.slot > SummaryTarget => metas[n].target > SummaryTarget
      BY <2>2, <2>3
    <2>5. n \in Eligible(n.slot)
      <3>1. traces[n].parseable
        BY <2>1, <2>2 DEF TracesOK
      <3>2. StatusOf(n) = "none"
        <4>1. { i \in 1 .. Len(log) : log[i].file = n } = {}
          BY <2>1 DEF LogOK
        <4>. QED
          BY <4>1 DEF StatusOf
      <3>. QED
        BY <2>2, <3>1, <3>2 DEF Eligible
    <2>6. ASSUME n.slot <= SummaryTarget
          PROVE  n \in Included
      <3>1. n.slot \in 1 .. SummaryTarget
        BY <2>3, <2>6
      <3>2. Selected(n.slot) = n
        BY <2>3, <2>5 DEF Selected
      <3>. QED
        BY <2>5, <3>1, <3>2 DEF Included
    <2>. QED
      BY <2>2, <2>4, <2>6
  <1>. QED
    BY <1>1, SessionInvariant, PTL
-----------------------------------------------------------------------------
(***************************************************************************)
(* The report of a trace: induction over numbers, and functions that go on *)
(* step by step.                                                           *)
(***************************************************************************)
LEMMA LeastIndex ==
  ASSUME NEW n \in Nat, NEW T \in SUBSET (1 .. n), T # {}
  PROVE  \E i \in T : \A j \in T : i <= j
  <1>. DEFINE Later == { p \in T \X T : p[2] < p[1] }
  <1>1. IsFiniteSet(T)
    <2>1. IsFiniteSet(1 .. n)
      BY FS_Interval
    <2>. QED
      BY <2>1, FS_Subset
  <1>2. \A x \in T : <<x, x>> \notin Later
    OBVIOUS
  <1>3. \A x, y, z \in T :
          <<x, y>> \in Later /\ <<y, z>> \in Later => <<x, z>> \in Later
    OBVIOUS
  <1>4. PICK i \in T : \A j \in T : <<i, j>> \notin Later
    <2>. HIDE DEF Later
    <2>. QED
      BY <1>1, <1>2, <1>3, LastOne
  <1>5. ASSUME NEW j \in T, j < i
        PROVE  FALSE
    <2>1. <<i, j>> \in T \X T /\ <<i, j>>[1] = i /\ <<i, j>>[2] = j
      OBVIOUS
    <2>. QED
      BY <1>4, <1>5, <2>1
  <1>. QED
    BY <1>5

LEMMA UpTo ==
  ASSUME NEW N \in Nat, NEW P \in SUBSET (0 .. N), 0 \in P,
         \A k \in 0 .. N - 1 : k \in P => k + 1 \in P
  PROVE  P = 0 .. N
  <1>. DEFINE T == (0 .. N) \ P
  <1>. SUFFICES ASSUME T # {} PROVE FALSE
    OBVIOUS
  <1>1. PICK n \in T : \A m \in T : n <= m
    <2>1. T \in SUBSET (1 .. N)
      OBVIOUS
    <2>. HIDE DEF T
    <2>. QED
      BY <2>1, LeastIndex
  <1>2. n - 1 \in 0 .. N - 1 /\ n - 1 \notin T /\ n - 1 + 1 = n
    <2>1. n # 0 /\ n \in 0 .. N
      OBVIOUS
    <2>2. n - 1 \in 0 .. N - 1 /\ n - 1 + 1 = n /\ ~(n <= n - 1)
      BY <2>1
    <2>. QED
      BY <1>1, <2>2
  <1>3. n - 1 \in P
    BY <1>2
  <1>. QED
    BY <1>2, <1>3

GoesOn(N, V, a, F, g) ==
  /\ g \in [0 .. N -> V] /\ g[0] = a
  /\ \A n \in 1 .. N : g[n] = F[<<g[n - 1], n>>]

LEMMA StepByStep ==
  ASSUME NEW N \in Nat, NEW V, NEW a \in V, NEW F \in [V \X (1 .. N) -> V]
  PROVE  \E g : GoesOn(N, V, a, F, g)
  <1>. DEFINE Up(k, g) == /\ g \in [0 .. k -> V]
                          /\ g[0] = a
                          /\ \A n \in 1 .. k : g[n] = F[<<g[n - 1], n>>]
              P == {k \in 0 .. N : \E g : Up(k, g)}
  <1>1. 0 \in P
    <2>1. Up(0, [n \in 0 .. 0 |-> a])
      OBVIOUS
    <2>. HIDE DEF Up
    <2>. QED
      BY <2>1
  <1>2. ASSUME NEW k \in 0 .. N - 1, k \in P
        PROVE  k + 1 \in P
    <2>1. PICK g : Up(k, g)
      BY <1>2
    <2>. DEFINE h == [n \in 0 .. k + 1 |->
                        IF n <= k THEN g[n] ELSE F[<<g[k], k + 1>>]]
    <2>2. F[<<g[k], k + 1>>] \in V
      <3>1. g[k] \in V /\ k + 1 \in 1 .. N
        BY <2>1
      <3>. QED
        BY <3>1
    <2>3. h \in [0 .. k + 1 -> V]
      BY <2>1, <2>2
    <2>4. \A n \in 0 .. k : h[n] = g[n]
      BY <2>1
    <2>5. h[k + 1] = F[<<g[k], k + 1>>]
      OBVIOUS
    <2>. HIDE DEF h
    <2>6. h[0] = a
      BY <2>1, <2>4
    <2>7. ASSUME NEW n \in 1 .. k + 1
          PROVE  h[n] = F[<<h[n - 1], n>>]
      <3>1. CASE n = k + 1
        <4>1. n - 1 = k
          BY <3>1
        <4>. QED
          BY <2>4, <2>5, <3>1, <4>1
      <3>2. CASE n # k + 1
        <4>1. n \in 1 .. k /\ n - 1 \in 0 .. k /\ n \in 0 .. k
          BY <3>2
        <4>. QED
          BY <2>1, <2>4, <4>1
      <3>. QED
        BY <3>1, <3>2
    <2>8. Up(k + 1, h)
      BY <2>3, <2>6, <2>7
    <2>. HIDE DEF Up
    <2>9. k + 1 \in 0 .. N
      OBVIOUS
    <2>. QED
      BY <2>8, <2>9
  <1>3. P = 0 .. N
    <2>1. P \in SUBSET (0 .. N)
      OBVIOUS
    <2>2. 0 \in P /\ \A k \in 0 .. N - 1 : k \in P => k + 1 \in P
      BY <1>1, <1>2
    <2>. HIDE DEF P
    <2>. QED
      BY <2>1, <2>2, UpTo
  <1>4. N \in P
    <2>1. N \in 0 .. N
      OBVIOUS
    <2>. HIDE DEF P
    <2>. QED
      BY <1>3, <2>1
  <1>. QED
    BY <1>4 DEF GoesOn
-----------------------------------------------------------------------------
(* Where something is in a sequence.                                       *)

\* The one place of a mark is its first and its last one.
LEMMA OneMark ==
  ASSUME NEW evs, Len(evs) \in Nat, NEW name,
         NEW i \in 1 .. Len(evs), IsMark(evs[i], name),
         \A j \in 1 .. Len(evs) : IsMark(evs[j], name) => j = i
  PROVE  FirstMark(evs, name) = i /\ LastMark(evs, name) = i
  <1>. DEFINE I == { j \in 1 .. Len(evs) : IsMark(evs[j], name) }
  <1>1. I = {i}
    OBVIOUS
  <1>2. Min(I) = i /\ Max(I) = i
    <2>. HIDE DEF I
    <2>. QED
      BY <1>1 DEF Min, Max
  <1>. HIDE DEF I
  <1>3. I # {}
    BY <1>1
  <1>4. FirstMark(evs, name) = IF I # {} THEN Min(I) ELSE 0
    BY DEF FirstMark, SelectInSeq, I
  <1>5. LastMark(evs, name) = IF I # {} THEN Max(I) ELSE 0
    BY DEF LastMark, SelectLastInSeq, I
  <1>. QED
    BY <1>2, <1>3, <1>4, <1>5

LEMMA NoMark ==
  ASSUME NEW evs, Len(evs) \in Nat, NEW name,
         \A j \in 1 .. Len(evs) : ~IsMark(evs[j], name)
  PROVE  FirstMark(evs, name) = 0 /\ LastMark(evs, name) = 0
  <1>. DEFINE I == { j \in 1 .. Len(evs) : IsMark(evs[j], name) }
  <1>1. I = {}
    OBVIOUS
  <1>. HIDE DEF I
  <1>4. FirstMark(evs, name) = IF I # {} THEN Min(I) ELSE 0
    BY DEF FirstMark, SelectInSeq, I
  <1>5. LastMark(evs, name) = IF I # {} THEN Max(I) ELSE 0
    BY DEF LastMark, SelectLastInSeq, I
  <1>. QED
    BY <1>1, <1>4, <1>5

LEMMA MinIs ==
  ASSUME NEW n \in Nat, NEW I \in SUBSET (1 .. n), I # {}
  PROVE  Min(I) \in I /\ \A j \in I : Min(I) <= j
  <1>1. \E i \in I : \A j \in I : i <= j
    BY LeastIndex
  <1>. QED
    BY <1>1 DEF Min

-----------------------------------------------------------------------------
(* Rows of a map: what was added under a name.                             *)

\* The provers do not know the literals for strings.
MetricName == STRING \cup {"gc", "function-call", "layout-paint", "other"}
MetricRow == [name : MetricName, count : Nat, total : Nat, max : Nat]

\* A map that has one more row, or one of whose rows has something added.
Adds(map, longer, name, time) ==
  \/ /\ \A i \in 1 .. Len(map) : map[i].name # name
     /\ longer = Append(map, [name |-> name, count |-> 1, total |-> time,
                              max |-> time])
  \/ \E i \in 1 .. Len(map) :
       /\ map[i].name = name
       /\ longer = [map EXCEPT
                      ![i] = [name |-> name, count |-> map[i].count + 1,
                              total |-> map[i].total + time,
                              max |-> Larger(map[i].max, time)]]

LEMMA AddMetricAdds ==
  ASSUME NEW map \in Seq(MetricRow), NEW key, NEW dur
  PROVE  Adds(map, AddMetric(map, key, dur), key, dur)
  <1>. DEFINE I == { j \in 1 .. Len(map) : map[j].name = key }
              found == IF I # {} THEN Min(I) ELSE 0
  <1>1. Len(map) \in Nat
    OBVIOUS
  <1>2. AddMetric(map, key, dur) =
          IF found = 0
            THEN Append(map, [name |-> key, count |-> 1, total |-> dur,
                              max |-> dur])
            ELSE [map EXCEPT
                    ![found] = [name |-> key, count |-> @.count + 1,
                                total |-> @.total + dur,
                                max |-> Larger(@.max, dur)]]
    BY DEF AddMetric, SelectInSeq
  <1>3. CASE I = {}
    <2>1. found = 0
      BY <1>3
    <2>2. \A i \in 1 .. Len(map) : map[i].name # key
      BY <1>3
    <2>. HIDE DEF found
    <2>. QED
      BY <1>2, <2>1, <2>2 DEF Adds
  <1>4. CASE I # {}
    <2>1. found = Min(I)
      BY <1>4
    <2>2. Min(I) \in I
      <3>1. I \in SUBSET (1 .. Len(map))
        OBVIOUS
      <3>. HIDE DEF I
      <3>. QED
        BY <1>1, <1>4, <3>1, MinIs
    <2>3. found \in 1 .. Len(map) /\ map[found].name = key /\ found # 0
      <3>. HIDE DEF found
      <3>. QED
        BY <1>1, <2>1, <2>2
    <2>. HIDE DEF found
    <2>4. AddMetric(map, key, dur) =
            [map EXCEPT
               ![found] = [name |-> key, count |-> map[found].count + 1,
                           total |-> map[found].total + dur,
                           max |-> Larger(map[found].max, dur)]]
      BY <1>2, <2>3
    <2>. QED
      BY <2>3, <2>4 DEF Adds
  <1>. QED
    BY <1>3, <1>4

LEMMA AddMetricType ==
  ASSUME NEW map \in Seq(MetricRow), NEW key \in MetricName, NEW dur \in Nat
  PROVE  AddMetric(map, key, dur) \in Seq(MetricRow)
  <1>1. [name |-> key, count |-> 1, total |-> dur, max |-> dur] \in MetricRow
    BY DEF MetricRow
  <1>2. ASSUME NEW i \in 1 .. Len(map)
        PROVE  [name |-> key, count |-> map[i].count + 1,
                total |-> map[i].total + dur,
                max |-> Larger(map[i].max, dur)] \in MetricRow
    <2>1. map[i] \in MetricRow
      OBVIOUS
    <2>2. map[i].count \in Nat /\ map[i].total \in Nat /\ map[i].max \in Nat
      BY <2>1 DEF MetricRow
    <2>3. /\ map[i].count + 1 \in Nat /\ map[i].total + dur \in Nat
          /\ Larger(map[i].max, dur) \in Nat
      BY <2>2 DEF Larger
    <2>. QED
      BY <2>3 DEF MetricRow
  <1>3. CASE AddMetric(map, key, dur) =
               Append(map, [name |-> key, count |-> 1, total |-> dur,
                            max |-> dur])
    BY <1>1, <1>3
  <1>4. ASSUME NEW i \in 1 .. Len(map),
               AddMetric(map, key, dur) =
                 [map EXCEPT
                    ![i] = [name |-> key, count |-> map[i].count + 1,
                            total |-> map[i].total + dur,
                            max |-> Larger(map[i].max, dur)]]
        PROVE  AddMetric(map, key, dur) \in Seq(MetricRow)
    BY <1>2, <1>4, ExceptSeq
  <1>. QED
    BY <1>3, <1>4, AddMetricAdds DEF Adds

\* The sums of the first numbers of w.
SumsOf(N, w, s) ==
  /\ s \in [0 .. N -> Nat] /\ s[0] = 0
  /\ \A n \in 1 .. N : s[n] = s[n - 1] + w[n]

SumTo(N, w) == CHOOSE s : SumsOf(N, w, s)

LEMMA SumToIs ==
  ASSUME NEW N \in Nat, NEW w \in [1 .. N -> Nat]
  PROVE  SumsOf(N, w, SumTo(N, w))
  <1>. DEFINE F == [t \in Nat \X (1 .. N) |-> t[1] + w[t[2]]]
  <1>1. F \in [Nat \X (1 .. N) -> Nat]
    OBVIOUS
  <1>2. PICK g : GoesOn(N, Nat, 0, F, g)
    <2>. HIDE DEF F
    <2>. QED
      BY <1>1, StepByStep
  <1>3. ASSUME NEW n \in 1 .. N
        PROVE  g[n] = g[n - 1] + w[n]
    <2>1. g[n - 1] \in Nat
      <3>1. n - 1 \in 0 .. N
        OBVIOUS
      <3>. QED
        BY <1>2, <3>1 DEF GoesOn
    <2>2. <<g[n - 1], n>> \in Nat \X (1 .. N)
      BY <2>1
    <2>3. g[n] = F[<<g[n - 1], n>>]
      BY <1>2 DEF GoesOn
    <2>. QED
      BY <2>2, <2>3
  <1>4. SumsOf(N, w, g)
    BY <1>2, <1>3 DEF SumsOf, GoesOn
  <1>. QED
    BY <1>4 DEF SumTo

\* A sum of nothing.
LEMMA SumOfNone ==
  ASSUME NEW N \in Nat, NEW w \in [1 .. N -> Nat], NEW n \in 0 .. N,
         \A i \in 1 .. n : w[i] = 0
  PROVE  SumTo(N, w)[n] = 0
  <1>. DEFINE P == { k \in 0 .. n : SumTo(N, w)[k] = 0 }
  <1>. DEFINE s == SumTo(N, w)
  <1>5. SumsOf(N, w, s)
    BY SumToIs
  <1>1. 0 \in P
    BY <1>5 DEF SumsOf
  <1>2. ASSUME NEW k \in 0 .. n - 1, k \in P
        PROVE  k + 1 \in P
    <2>1. k + 1 \in 1 .. n /\ k + 1 \in 1 .. N /\ k + 1 - 1 = k
      OBVIOUS
    <2>2. SumTo(N, w)[k + 1] = SumTo(N, w)[k + 1 - 1] + w[k + 1]
      <3>. HIDE DEF s
      <3>1. s[k + 1] = s[k + 1 - 1] + w[k + 1]
        BY <1>5, <2>1 DEF SumsOf
      <3>. QED
        BY <3>1 DEF s
    <2>3. SumTo(N, w)[k] = 0 /\ w[k + 1] = 0
      BY <1>2, <2>1
    <2>. QED
      BY <2>1, <2>2, <2>3
  <1>3. n \in Nat /\ P \in SUBSET (0 .. n) /\ n \in 0 .. n
    OBVIOUS
  <1>4. P = 0 .. n
    <2>. HIDE DEF P
    <2>. QED
      BY <1>1, <1>2, <1>3, UpTo
  <1>. QED
    BY <1>3, <1>4

\* The order makes no difference to a sum.
LEMMA SumMirrored ==
  ASSUME NEW N \in Nat, NEW w \in [1 .. N -> Nat], NEW v \in [1 .. N -> Nat],
         \A i \in 1 .. N : v[i] = w[N - i + 1]
  PROVE  SumTo(N, w)[N] = SumTo(N, v)[N]
  <1>. DEFINE s == SumTo(N, w)
              t == SumTo(N, v)
              P == { k \in 0 .. N : t[k] = s[N] - s[N - k] }
  <1>1. SumsOf(N, w, s) /\ SumsOf(N, v, t)
    BY SumToIs
  <1>. HIDE DEF s, t
  <1>2. 0 \in P
    <2>1. s[N] \in Nat /\ t[0] = 0 /\ N - 0 = N
      BY <1>1 DEF SumsOf
    <2>. QED
      BY <2>1
  <1>3. ASSUME NEW k \in 0 .. N - 1, k \in P
        PROVE  k + 1 \in P
    <2>1. /\ k + 1 \in 1 .. N /\ k + 1 - 1 = k /\ N - k \in 1 .. N
          /\ N - (k + 1) + 1 = N - k /\ N - k - 1 = N - (k + 1)
          /\ N - k - 1 \in 0 .. N /\ N \in 0 .. N /\ k + 1 \in 0 .. N
      OBVIOUS
    <2>2. t[k + 1] = t[k] + v[k + 1] /\ v[k + 1] = w[N - k]
      BY <1>1, <2>1 DEF SumsOf
    <2>3. s[N - k] = s[N - (k + 1)] + w[N - k]
      BY <1>1, <2>1 DEF SumsOf
    <2>4. s[N - (k + 1)] \in Nat /\ s[N] \in Nat /\ w[N - k] \in Nat
      BY <1>1, <2>1 DEF SumsOf
    <2>5. t[k] = s[N] - s[N - k]
      BY <1>3
    <2>6. t[k + 1] = s[N] - s[N - (k + 1)]
      BY <2>2, <2>3, <2>4, <2>5
    <2>. QED
      BY <2>1, <2>6
  <1>4. P = 0 .. N
    <2>1. P \in SUBSET (0 .. N)
      OBVIOUS
    <2>. HIDE DEF P
    <2>. QED
      BY <1>2, <1>3, <2>1, UpTo
  <1>5. t[N] = s[N] - s[N - N] /\ N - N = 0
    BY <1>4
  <1>6. s[0] = 0 /\ s[N] \in Nat
    BY <1>1 DEF SumsOf
  <1>. QED
    BY <1>5, <1>6 DEF s, t

-----------------------------------------------------------------------------
(* A row holds what the counted events of its name have.  taken says which *)
(* of the N events count, key under what name, dur how long they took.     *)

Ones(N, taken, key, name) ==
  [i \in 1 .. N |-> IF taken[i] /\ key[i] = name THEN 1 ELSE 0]

Durations(N, taken, key, dur, name) ==
  [i \in 1 .. N |-> IF taken[i] /\ key[i] = name THEN dur[i] ELSE 0]

Named(n, taken, key, name) ==
  { j \in 1 .. n : taken[j] /\ key[j] = name }

Measured(N, taken, key, dur) ==
  /\ taken \in [1 .. N -> BOOLEAN]
  /\ \A i \in 1 .. N : taken[i] => key[i] \in MetricName /\ dur[i] \in Nat

RowOK(N, taken, key, dur, row, n) ==
  /\ row.count = SumTo(N, Ones(N, taken, key, row.name))[n]
  /\ row.total = SumTo(N, Durations(N, taken, key, dur, row.name))[n]
  /\ \A j \in Named(n, taken, key, row.name) : dur[j] <= row.max
  /\ \E j \in Named(n, taken, key, row.name) : dur[j] = row.max

RowsOK(N, taken, key, dur, map, n) ==
  /\ map \in Seq(MetricRow)
  /\ \A i, j \in 1 .. Len(map) : map[i].name = map[j].name => i = j
  /\ \A i \in 1 .. Len(map) : RowOK(N, taken, key, dur, map[i], n)
  /\ \A j \in 1 .. n : taken[j] =>
       \E i \in 1 .. Len(map) : map[i].name = key[j]

LEMMA NoRows ==
  ASSUME NEW N \in Nat, NEW taken, NEW key, NEW dur
  PROVE  RowsOK(N, taken, key, dur, <<>>, 0)
  BY DEF RowsOK

LEMMA MeasuredSums ==
  ASSUME NEW N \in Nat, NEW taken, NEW key, NEW dur,
         Measured(N, taken, key, dur), NEW name
  PROVE  /\ Ones(N, taken, key, name) \in [1 .. N -> Nat]
         /\ Durations(N, taken, key, dur, name) \in [1 .. N -> Nat]
  BY DEF Measured, Ones, Durations

\* One more event, as to the row of its name.
LEMMA OneMore ==
  ASSUME NEW N \in Nat, NEW taken, NEW key, NEW dur,
         Measured(N, taken, key, dur), NEW name, NEW n \in 1 .. N,
         taken[n], key[n] = name
  PROVE  /\ SumTo(N, Ones(N, taken, key, name))[n] =
              SumTo(N, Ones(N, taken, key, name))[n - 1] + 1
         /\ SumTo(N, Durations(N, taken, key, dur, name))[n] =
              SumTo(N, Durations(N, taken, key, dur, name))[n - 1] + dur[n]
         /\ Named(n, taken, key, name) =
              Named(n - 1, taken, key, name) \cup {n}
  <1>. DEFINE o == Ones(N, taken, key, name)
              d == Durations(N, taken, key, dur, name)
  <1>1. SumsOf(N, o, SumTo(N, o)) /\ SumsOf(N, d, SumTo(N, d))
    <2>1. o \in [1 .. N -> Nat] /\ d \in [1 .. N -> Nat]
      BY MeasuredSums
    <2>. HIDE DEF o, d
    <2>. QED
      BY <2>1, SumToIs
  <1>2. o[n] = 1 /\ d[n] = dur[n]
    BY DEF Ones, Durations
  <1>3. Named(n, taken, key, name) = Named(n - 1, taken, key, name) \cup {n}
    <2>1. 1 .. n = (1 .. n - 1) \cup {n}
      OBVIOUS
    <2>. QED
      BY <2>1 DEF Named
  <1>. HIDE DEF o, d
  <1>4. /\ SumTo(N, o)[n] = SumTo(N, o)[n - 1] + o[n]
        /\ SumTo(N, d)[n] = SumTo(N, d)[n - 1] + d[n]
    BY <1>1 DEF SumsOf
  <1>. QED
    BY <1>2, <1>3, <1>4 DEF o, d

\* One more event, as to the row of another name.
LEMMA OneElse ==
  ASSUME NEW N \in Nat, NEW taken, NEW key, NEW dur,
         Measured(N, taken, key, dur), NEW name, NEW n \in 1 .. N,
         ~taken[n] \/ key[n] # name
  PROVE  /\ SumTo(N, Ones(N, taken, key, name))[n] =
              SumTo(N, Ones(N, taken, key, name))[n - 1]
         /\ SumTo(N, Durations(N, taken, key, dur, name))[n] =
              SumTo(N, Durations(N, taken, key, dur, name))[n - 1]
         /\ Named(n, taken, key, name) = Named(n - 1, taken, key, name)
  <1>. DEFINE o == Ones(N, taken, key, name)
              d == Durations(N, taken, key, dur, name)
  <1>1. SumsOf(N, o, SumTo(N, o)) /\ SumsOf(N, d, SumTo(N, d))
    <2>1. o \in [1 .. N -> Nat] /\ d \in [1 .. N -> Nat]
      BY MeasuredSums
    <2>. HIDE DEF o, d
    <2>. QED
      BY <2>1, SumToIs
  <1>2. o[n] = 0 /\ d[n] = 0
    BY DEF Ones, Durations
  <1>3. Named(n, taken, key, name) = Named(n - 1, taken, key, name)
    <2>1. 1 .. n = (1 .. n - 1) \cup {n}
      OBVIOUS
    <2>. QED
      BY <2>1 DEF Named
  <1>. HIDE DEF o, d
  <1>4. /\ SumTo(N, o)[n] = SumTo(N, o)[n - 1] + o[n]
        /\ SumTo(N, d)[n] = SumTo(N, d)[n - 1] + d[n]
        /\ SumTo(N, o)[n - 1] \in Nat /\ SumTo(N, d)[n - 1] \in Nat
    <2>1. n - 1 \in 0 .. N
      OBVIOUS
    <2>. QED
      BY <1>1, <2>1 DEF SumsOf
  <1>. QED
    BY <1>2, <1>3, <1>4 DEF o, d

LEMMA RowSkips ==
  ASSUME NEW N \in Nat, NEW taken, NEW key, NEW dur,
         Measured(N, taken, key, dur), NEW map, NEW n \in 1 .. N,
         RowsOK(N, taken, key, dur, map, n - 1), ~taken[n]
  PROVE  RowsOK(N, taken, key, dur, map, n)
  <1>1. ASSUME NEW i \in 1 .. Len(map)
        PROVE  RowOK(N, taken, key, dur, map[i], n)
    <2>1. RowOK(N, taken, key, dur, map[i], n - 1)
      BY DEF RowsOK
    <2>. DEFINE name == map[i].name
    <2>. HIDE DEF name
    <2>2. /\ SumTo(N, Ones(N, taken, key, name))[n] =
               SumTo(N, Ones(N, taken, key, name))[n - 1]
          /\ SumTo(N, Durations(N, taken, key, dur, name))[n] =
               SumTo(N, Durations(N, taken, key, dur, name))[n - 1]
          /\ Named(n, taken, key, name) = Named(n - 1, taken, key, name)
      BY OneElse
    <2>. QED
      BY <2>1, <2>2 DEF RowOK, name
  <1>2. ASSUME NEW j \in 1 .. n, taken[j]
        PROVE  \E i \in 1 .. Len(map) : map[i].name = key[j]
    <2>1. j \in 1 .. n - 1
      BY <1>2
    <2>. QED
      BY <1>2, <2>1 DEF RowsOK
  <1>. QED
    BY <1>1, <1>2 DEF RowsOK

\* The row of another name.
LEMMA OtherRow ==
  ASSUME NEW N \in Nat, NEW taken, NEW key, NEW dur,
         Measured(N, taken, key, dur), NEW row, NEW n \in 1 .. N,
         RowOK(N, taken, key, dur, row, n - 1), row.name # key[n]
  PROVE  RowOK(N, taken, key, dur, row, n)
  <1>. DEFINE name == row.name
  <1>. HIDE DEF name
  <1>1. name # key[n]
    BY DEF name
  <1>2. /\ SumTo(N, Ones(N, taken, key, name))[n] =
             SumTo(N, Ones(N, taken, key, name))[n - 1]
        /\ SumTo(N, Durations(N, taken, key, dur, name))[n] =
             SumTo(N, Durations(N, taken, key, dur, name))[n - 1]
        /\ Named(n, taken, key, name) = Named(n - 1, taken, key, name)
    BY <1>1, OneElse
  <1>. QED
    BY <1>2 DEF RowOK, name

LEMMA NewRow ==
  ASSUME NEW N \in Nat, NEW taken, NEW key, NEW dur,
         Measured(N, taken, key, dur), NEW n \in 1 .. N, taken[n],
         NEW row, row = [name |-> key[n], count |-> 1, total |-> dur[n],
                         max |-> dur[n]],
         Named(n - 1, taken, key, key[n]) = {}
  PROVE  RowOK(N, taken, key, dur, row, n) /\ row \in MetricRow
  <1>. DEFINE name == key[n]
              o == Ones(N, taken, key, name)
              d == Durations(N, taken, key, dur, name)
  <1>1. name \in MetricName /\ dur[n] \in Nat
    BY DEF Measured
  <1>2. \A i \in 1 .. n - 1 : o[i] = 0 /\ d[i] = 0
    <2>1. ASSUME NEW i \in 1 .. n - 1
          PROVE  ~(taken[i] /\ key[i] = name) /\ i \in 1 .. N
      BY DEF Named
    <2>. QED
      BY <2>1 DEF Ones, Durations
  <1>3. o \in [1 .. N -> Nat] /\ d \in [1 .. N -> Nat]
    BY MeasuredSums
  <1>4. SumTo(N, o)[n - 1] = 0 /\ SumTo(N, d)[n - 1] = 0
    <2>1. n - 1 \in 0 .. N
      OBVIOUS
    <2>. HIDE DEF o, d
    <2>. QED
      BY <1>2, <1>3, <2>1, SumOfNone
  <1>5. /\ SumTo(N, o)[n] = SumTo(N, o)[n - 1] + 1
        /\ SumTo(N, d)[n] = SumTo(N, d)[n - 1] + dur[n]
        /\ Named(n, taken, key, name) =
             Named(n - 1, taken, key, name) \cup {n}
    BY OneMore
  <1>6. /\ row.name = name /\ row.count = 1 /\ row.total = dur[n]
        /\ row.max = dur[n] /\ row \in MetricRow
    BY <1>1 DEF MetricRow
  <1>7. row.count = SumTo(N, o)[n] /\ row.total = SumTo(N, d)[n]
    <2>. HIDE DEF o, d, name
    <2>. QED
      BY <1>1, <1>4, <1>5, <1>6
  <1>8. Named(n, taken, key, name) = {n}
    BY <1>5
  <1>9. dur[n] <= row.max /\ dur[n] = row.max
    BY <1>1, <1>6
  <1>10. /\ \A j \in Named(n, taken, key, name) : dur[j] <= row.max
         /\ \E j \in Named(n, taken, key, name) : dur[j] = row.max
    <2>. HIDE DEF name
    <2>. QED
      BY <1>8, <1>9
  <1>. QED
    BY <1>6, <1>7, <1>10 DEF RowOK

LEMMA MoreOfRow ==
  ASSUME NEW N \in Nat, NEW taken, NEW key, NEW dur,
         Measured(N, taken, key, dur), NEW n \in 1 .. N, taken[n],
         NEW row \in MetricRow, row.name = key[n],
         RowOK(N, taken, key, dur, row, n - 1),
         NEW more, more = [name |-> key[n], count |-> row.count + 1,
                           total |-> row.total + dur[n],
                           max |-> Larger(row.max, dur[n])]
  PROVE  RowOK(N, taken, key, dur, more, n) /\ more \in MetricRow
  <1>. DEFINE name == key[n]
              o == Ones(N, taken, key, name)
              d == Durations(N, taken, key, dur, name)
  <1>1. /\ name \in MetricName /\ dur[n] \in Nat
        /\ row.count \in Nat /\ row.total \in Nat /\ row.max \in Nat
    BY DEF Measured, MetricRow
  <1>2. /\ row.count = SumTo(N, o)[n - 1] /\ row.total = SumTo(N, d)[n - 1]
        /\ \A j \in Named(n - 1, taken, key, name) : dur[j] <= row.max
        /\ \E j \in Named(n - 1, taken, key, name) : dur[j] = row.max
    BY DEF RowOK
  <1>3. /\ SumTo(N, o)[n] = SumTo(N, o)[n - 1] + 1
        /\ SumTo(N, d)[n] = SumTo(N, d)[n - 1] + dur[n]
        /\ Named(n, taken, key, name) =
             Named(n - 1, taken, key, name) \cup {n}
    BY OneMore
  <1>4. /\ more.name = name /\ more.count = row.count + 1
        /\ more.total = row.total + dur[n]
        /\ more.max = Larger(row.max, dur[n])
    OBVIOUS
  <1>5. more \in MetricRow
    BY <1>1 DEF MetricRow, Larger
  <1>6. more.count = SumTo(N, o)[n] /\ more.total = SumTo(N, d)[n]
    <2>. HIDE DEF o, d, name
    <2>. QED
      BY <1>2, <1>3, <1>4
  <1>7. \A j \in Named(n - 1, taken, key, name) : dur[j] \in Nat
    BY DEF Named, Measured
  <1>8. /\ \A j \in Named(n, taken, key, name) : dur[j] <= more.max
        /\ \E j \in Named(n, taken, key, name) : dur[j] = more.max
    <2>1. /\ more.max = IF row.max > dur[n] THEN row.max ELSE dur[n]
          /\ row.max \in Nat /\ dur[n] \in Nat
      BY <1>1, <1>4 DEF Larger
    <2>. HIDE DEF name
    <2>. QED
      BY <1>2, <1>3, <1>7, <2>1
  <1>. QED
    BY <1>4, <1>5, <1>6, <1>8 DEF RowOK

LEMMA RowTakes ==
  ASSUME NEW N \in Nat, NEW taken, NEW key, NEW dur,
         Measured(N, taken, key, dur), NEW map, NEW n \in 1 .. N,
         RowsOK(N, taken, key, dur, map, n - 1), taken[n],
         NEW name, name = key[n], NEW time, time = dur[n]
  PROVE  RowsOK(N, taken, key, dur, AddMetric(map, name, time), n)
  <1>. DEFINE longer == AddMetric(map, name, time)
  <1>1. /\ map \in Seq(MetricRow) /\ Len(map) \in Nat
        /\ \A i, j \in 1 .. Len(map) : map[i].name = map[j].name => i = j
        /\ \A i \in 1 .. Len(map) :
             /\ map[i] \in MetricRow
             /\ RowOK(N, taken, key, dur, map[i], n - 1)
        /\ \A j \in 1 .. n - 1 : taken[j] =>
             \E i \in 1 .. Len(map) : map[i].name = key[j]
    BY DEF RowsOK
  <1>5. 1 .. n = (1 .. n - 1) \cup {n}
    OBVIOUS
  <1>2. CASE /\ \A i \in 1 .. Len(map) : map[i].name # name
             /\ longer = Append(map, [name |-> name, count |-> 1,
                                      total |-> time, max |-> time])
    <2>. DEFINE row == [name |-> name, count |-> 1, total |-> time,
                        max |-> time]
    <2>1. Named(n - 1, taken, key, key[n]) = {}
      <3>1. \A j \in 1 .. n - 1 : ~(taken[j] /\ key[j] = name)
        <4>. HIDE DEF longer
        <4>. QED
          BY <1>1, <1>2
      <3>. QED
        BY <3>1 DEF Named
    <2>2. RowOK(N, taken, key, dur, row, n) /\ row \in MetricRow
      BY <2>1, NewRow
    <2>3. row.name = name
      OBVIOUS
    <2>. HIDE DEF row
    <2>4. /\ longer \in Seq(MetricRow) /\ Len(longer) = Len(map) + 1
          /\ \A i \in 1 .. Len(map) : longer[i] = map[i]
          /\ longer[Len(map) + 1] = row
      BY <1>1, <1>2, <2>2 DEF row
    <2>. HIDE DEF longer
    <2>5. \A i \in 1 .. Len(map) : RowOK(N, taken, key, dur, longer[i], n)
      BY <1>1, <1>2, <2>4, OtherRow
    <2>6. 1 .. Len(longer) = (1 .. Len(map)) \cup {Len(map) + 1}
      BY <1>1, <2>4
    <2>7. \A i, j \in 1 .. Len(longer) :
            longer[i].name = longer[j].name => i = j
      BY <1>1, <1>2, <2>3, <2>4, <2>6
    <2>8. \A j \in 1 .. n : taken[j] =>
            \E i \in 1 .. Len(longer) : longer[i].name = key[j]
      BY <1>1, <1>5, <2>3, <2>4, <2>6
    <2>9. \A i \in 1 .. Len(longer) :
            RowOK(N, taken, key, dur, longer[i], n)
      BY <2>2, <2>4, <2>5, <2>6
    <2>. QED
      BY <2>4, <2>7, <2>8, <2>9 DEF RowsOK, longer
  <1>3. ASSUME NEW i \in 1 .. Len(map), map[i].name = name,
               longer = [map EXCEPT
                           ![i] = [name |-> name,
                                   count |-> map[i].count + 1,
                                   total |-> map[i].total + time,
                                   max |-> Larger(map[i].max, time)]]
        PROVE  RowsOK(N, taken, key, dur, longer, n)
    <2>. DEFINE row == [name |-> name, count |-> map[i].count + 1,
                        total |-> map[i].total + time,
                        max |-> Larger(map[i].max, time)]
    <2>2. RowOK(N, taken, key, dur, row, n) /\ row \in MetricRow
      BY <1>1, <1>3, MoreOfRow
    <2>3. row.name = name
      OBVIOUS
    <2>1. longer = [map EXCEPT ![i] = row]
      BY <1>3
    <2>. HIDE DEF row, longer
    <2>4. /\ longer \in Seq(MetricRow) /\ Len(longer) = Len(map)
          /\ \A j \in 1 .. Len(map) :
               longer[j] = IF j = i THEN row ELSE map[j]
      BY <1>1, <2>1, <2>2, ExceptSeq
    <2>5. \A j \in 1 .. Len(map) : longer[j].name = map[j].name
      BY <1>3, <2>3, <2>4
    <2>6. ASSUME NEW j \in 1 .. Len(longer)
          PROVE  RowOK(N, taken, key, dur, longer[j], n)
      <3>1. CASE j = i
        BY <2>2, <2>4, <3>1
      <3>2. CASE j # i
        <4>1. map[j].name # name /\ longer[j] = map[j]
          BY <1>1, <1>3, <2>4, <3>2
        <4>2. RowOK(N, taken, key, dur, map[j], n - 1)
          BY <1>1, <2>4
        <4>. QED
          BY <4>1, <4>2, OtherRow
      <3>. QED
        BY <3>1, <3>2
    <2>7. \A j \in 1 .. n : taken[j] =>
            \E k \in 1 .. Len(longer) : longer[k].name = key[j]
      BY <1>1, <1>3, <1>5, <2>4, <2>5
    <2>8. \A j, k \in 1 .. Len(longer) :
            longer[j].name = longer[k].name => j = k
      BY <1>1, <2>4, <2>5
    <2>. QED
      BY <2>4, <2>6, <2>7, <2>8 DEF RowsOK
  <1>4. Adds(map, longer, name, time)
    <2>1. map \in Seq(MetricRow)
      BY <1>1
    <2>. QED
      BY <2>1, AddMetricAdds
  <1>. HIDE DEF longer
  <1>. QED
    BY <1>2, <1>3, <1>4 DEF Adds, longer

Mirrored(N, f, g) == \A i \in 1 .. N : g[i] = f[N - i + 1]

\* Rows of the same events in the opposite order are the same rows.
LEMMA RowsMirrored ==
  ASSUME NEW N \in Nat, NEW t1, NEW k1, NEW d1, NEW t2, NEW k2, NEW d2,
         Measured(N, t1, k1, d1), Measured(N, t2, k2, d2),
         Mirrored(N, t1, t2), Mirrored(N, k1, k2), Mirrored(N, d1, d2),
         NEW m1, NEW m2,
         RowsOK(N, t1, k1, d1, m1, N), RowsOK(N, t2, k2, d2, m2, N)
  PROVE  ToSet(m1) \subseteq ToSet(m2)
  <1>1. /\ m1 \in Seq(MetricRow) /\ DOMAIN m1 = 1 .. Len(m1)
        /\ m2 \in Seq(MetricRow) /\ DOMAIN m2 = 1 .. Len(m2)
    BY DEF RowsOK
  <1>. SUFFICES ASSUME NEW i \in 1 .. Len(m1)
                PROVE  \E q \in 1 .. Len(m2) : m2[q] = m1[i]
    BY <1>1 DEF ToSet
  <1>. DEFINE name == m1[i].name
              S1 == Named(N, t1, k1, name)
              S2 == Named(N, t2, k2, name)
  <1>2. RowOK(N, t1, k1, d1, m1[i], N)
    BY DEF RowsOK
  <1>3. /\ \A j \in S1 : d1[j] <= m1[i].max
        /\ \E j \in S1 : d1[j] = m1[i].max
    BY <1>2 DEF RowOK
  <1>4. /\ \A j \in S1 : N - j + 1 \in S2 /\ d2[N - j + 1] = d1[j]
        /\ \A j \in S2 : N - j + 1 \in S1 /\ d2[j] = d1[N - j + 1]
    <2>1. \A j \in 1 .. N :
            /\ N - j + 1 \in 1 .. N /\ N - (N - j + 1) + 1 = j
            /\ t2[j] = t1[N - j + 1] /\ k2[j] = k1[N - j + 1]
            /\ d2[j] = d1[N - j + 1]
      BY DEF Mirrored
    <2>2. \A j \in 1 .. N :
            /\ t2[N - j + 1] = t1[j] /\ k2[N - j + 1] = k1[j]
            /\ d2[N - j + 1] = d1[j]
      BY <2>1
    <2>. HIDE DEF name
    <2>. QED
      BY <2>1, <2>2 DEF Named
  <1>5. PICK q \in 1 .. Len(m2) : m2[q].name = name
    <2>1. PICK j \in S2 : TRUE
      BY <1>3, <1>4
    <2>2. j \in 1 .. N /\ t2[j] /\ k2[j] = name
      BY <2>1 DEF Named
    <2>. QED
      BY <2>2 DEF RowsOK
  <1>6. RowOK(N, t2, k2, d2, m2[q], N)
    BY DEF RowsOK
  <1>7. /\ \A j \in S2 : d2[j] <= m2[q].max
        /\ \E j \in S2 : d2[j] = m2[q].max
    BY <1>5, <1>6 DEF RowOK
  <1>8. m1[i] \in MetricRow /\ m2[q] \in MetricRow
    BY <1>1
  <1>9. m1[i].max = m2[q].max
    <2>1. m1[i].max \in Nat /\ m2[q].max \in Nat
      BY <1>8 DEF MetricRow
    <2>2. m1[i].max <= m2[q].max
      BY <1>3, <1>4, <1>7
    <2>3. m2[q].max <= m1[i].max
      BY <1>3, <1>4, <1>7
    <2>. QED
      BY <2>1, <2>2, <2>3
  <1>10. m1[i].count = m2[q].count /\ m1[i].total = m2[q].total
    <2>. DEFINE o1 == Ones(N, t1, k1, name)
                o2 == Ones(N, t2, k2, name)
                e1 == Durations(N, t1, k1, d1, name)
                e2 == Durations(N, t2, k2, d2, name)
    <2>1. /\ o1 \in [1 .. N -> Nat] /\ o2 \in [1 .. N -> Nat]
          /\ e1 \in [1 .. N -> Nat] /\ e2 \in [1 .. N -> Nat]
      BY MeasuredSums
    <2>2. ASSUME NEW j \in 1 .. N
          PROVE  o2[j] = o1[N - j + 1] /\ e2[j] = e1[N - j + 1]
      <3>1. /\ N - j + 1 \in 1 .. N
            /\ t2[j] = t1[N - j + 1] /\ k2[j] = k1[N - j + 1]
            /\ d2[j] = d1[N - j + 1]
        BY DEF Mirrored
      <3>. HIDE DEF name
      <3>. QED
        BY <3>1 DEF Ones, Durations
    <2>3. /\ m1[i].count = SumTo(N, o1)[N] /\ m1[i].total = SumTo(N, e1)[N]
          /\ m2[q].count = SumTo(N, o2)[N] /\ m2[q].total = SumTo(N, e2)[N]
      BY <1>2, <1>5, <1>6 DEF RowOK
    <2>. HIDE DEF o1, o2, e1, e2
    <2>4. SumTo(N, o1)[N] = SumTo(N, o2)[N]
      BY <2>1, <2>2, SumMirrored
    <2>5. SumTo(N, e1)[N] = SumTo(N, e2)[N]
      BY <2>1, <2>2, SumMirrored
    <2>. QED
      BY <2>3, <2>4, <2>5
  <1>. QED
    BY <1>5, <1>8, <1>9, <1>10 DEF MetricRow
-----------------------------------------------------------------------------
(* What is read out of the tasks of a window.                              *)

TasksIn(evs) ==
  \A i \in 1 .. Len(evs) :
    evs[i].kind = "task" => evs[i] \in TaskEvent

WindowMetrics ==
  [runTask : Nat, maxRunTask : Nat, byName : Seq(MetricRow),
   byClass : Seq(MetricRow), long : SUBSET TaskEvent, gc : Seq(TaskEvent)]

LEMMA ClassIsName ==
  ASSUME NEW name
  PROVE  ClassifyEventName(name) \in MetricName
  BY DEF ClassifyEventName, MetricName

LEMMA AddEventIs ==
  ASSUME NEW m \in WindowMetrics, NEW e \in TaskEvent
  PROVE  LET a == AddEvent(m, e) IN
         /\ a \in WindowMetrics
         /\ a.byName = AddMetric(m.byName, e.name, e.dur)
         /\ a.byClass = AddMetric(m.byClass, ClassifyEventName(e.name), e.dur)
         /\ a.runTask = IF e.name = "RunTask" THEN m.runTask + e.dur
                        ELSE m.runTask
         /\ a.maxRunTask = IF e.name = "RunTask"
                             THEN Larger(m.maxRunTask, e.dur)
                             ELSE m.maxRunTask
         /\ a.long = IF e.name = "RunTask" /\ e.dur >= LongTask
                       THEN m.long \cup {e} ELSE m.long
         /\ a.gc = IF IsGc(e) THEN Append(m.gc, e) ELSE m.gc
  <1>. DEFINE n1 == AddMetric(m.byName, e.name, e.dur)
              n2 == AddMetric(m.byClass, ClassifyEventName(e.name), e.dur)
              n3 == IF e.name = "RunTask" THEN m.runTask + e.dur
                    ELSE m.runTask
              n4 == IF e.name = "RunTask" THEN Larger(m.maxRunTask, e.dur)
                    ELSE m.maxRunTask
              n5 == IF e.name = "RunTask" /\ e.dur >= LongTask
                      THEN m.long \cup {e} ELSE m.long
              n6 == IF IsGc(e) THEN Append(m.gc, e) ELSE m.gc
  <1>1. /\ m.runTask \in Nat /\ m.maxRunTask \in Nat
        /\ m.byName \in Seq(MetricRow) /\ m.byClass \in Seq(MetricRow)
        /\ m.long \in SUBSET TaskEvent /\ m.gc \in Seq(TaskEvent)
        /\ e.name \in MetricName /\ e.dur \in Nat
    BY DEF WindowMetrics, TaskEvent, MetricName
  <1>2. n1 \in Seq(MetricRow) /\ n2 \in Seq(MetricRow)
    BY <1>1, AddMetricType, ClassIsName
  <1>3. n3 \in Nat /\ n4 \in Nat
    BY <1>1 DEF Larger
  <1>4. n5 \in SUBSET TaskEvent
    BY <1>1
  <1>5. n6 \in Seq(TaskEvent)
    BY <1>1
  <1>6. AddEvent(m, e) = [m EXCEPT !.byName = n1, !.byClass = n2,
                                   !.runTask = n3, !.maxRunTask = n4,
                                   !.long = n5, !.gc = n6]
    BY DEF AddEvent
  <1>. HIDE DEF n1, n2, n3, n4, n5, n6
  <1>7. /\ AddEvent(m, e) \in WindowMetrics
        /\ AddEvent(m, e).byName = n1 /\ AddEvent(m, e).byClass = n2
        /\ AddEvent(m, e).runTask = n3 /\ AddEvent(m, e).maxRunTask = n4
        /\ AddEvent(m, e).long = n5 /\ AddEvent(m, e).gc = n6
    BY <1>2, <1>3, <1>4, <1>5, <1>6 DEF WindowMetrics
  <1>. QED
    BY <1>7 DEF n1, n2, n3, n4, n5, n6

NextMetrics(evs, main, from, to, m, n) ==
  IF Counts(evs[n], main, from, to) THEN AddEvent(m, evs[n]) ELSE m

WindowUpTo(evs, from, to, then) ==
  /\ then \in [0 .. Len(evs) -> WindowMetrics]
  /\ then[0] = NoMetrics
  /\ \A n \in 1 .. Len(evs) :
       then[n] = NextMetrics(evs, MainThreads(evs), from, to,
                             then[n - 1], n)

LEMMA NextMetricsType ==
  ASSUME NEW evs, Len(evs) \in Nat, TasksIn(evs), NEW main,
         NEW from, NEW to, NEW m \in WindowMetrics, NEW n \in 1 .. Len(evs)
  PROVE  NextMetrics(evs, main, from, to, m, n) \in WindowMetrics
  <1>2. CASE Counts(evs[n], main, from, to)
    <2>1. evs[n] \in TaskEvent
      BY <1>2 DEF Counts, TasksIn
    <2>2. AddEvent(m, evs[n]) \in WindowMetrics
      BY <2>1, AddEventIs
    <2>. QED
      BY <1>2, <2>2 DEF NextMetrics
  <1>3. CASE ~Counts(evs[n], main, from, to)
    BY <1>3 DEF NextMetrics
  <1>. QED
    BY <1>2, <1>3

LEMMA NoMetricsType == NoMetrics \in WindowMetrics
  <1>1. <<>> \in Seq(MetricRow) /\ <<>> \in Seq(TaskEvent)
    OBVIOUS
  <1>. QED
    BY <1>1 DEF NoMetrics, WindowMetrics

LEMMA WindowUnfold ==
  ASSUME NEW evs, Len(evs) \in Nat, TasksIn(evs), NEW from, NEW to
  PROVE  \E then : /\ WindowUpTo(evs, from, to, then)
                   /\ AnalyzeWindow(evs, from, to) = then[Len(evs)]
  <1>. DEFINE N == Len(evs)
              main == MainThreads(evs)
              next(m, n) == NextMetrics(evs, main, from, to, m, n)
              F == [t \in WindowMetrics \X (1 .. N) |-> next(t[1], t[2])]
  <1>1. N \in Nat
    OBVIOUS
  <1>2. F \in [WindowMetrics \X (1 .. N) -> WindowMetrics]
    <2>1. ASSUME NEW m \in WindowMetrics, NEW n \in 1 .. N
          PROVE  next(m, n) \in WindowMetrics
      BY NextMetricsType
    <2>. HIDE DEF next, N
    <2>. QED
      BY <2>1
  <1>3. PICK g : GoesOn(N, WindowMetrics, NoMetrics, F, g)
    <2>. HIDE DEF F, N
    <2>. QED
      BY <1>1, <1>2, NoMetricsType, StepByStep
  <1>4. ASSUME NEW n \in 1 .. N
        PROVE  g[n] = next(g[n - 1], n)
    <2>1. g[n - 1] \in WindowMetrics
      <3>1. n - 1 \in 0 .. N
        BY <1>1
      <3>. HIDE DEF N, F
      <3>. QED
        BY <1>3, <3>1 DEF GoesOn
    <2>2. <<g[n - 1], n>> \in WindowMetrics \X (1 .. N)
      BY <2>1
    <2>3. g[n] = F[<<g[n - 1], n>>]
      BY <1>3 DEF GoesOn
    <2>. HIDE DEF next, N
    <2>. QED
      BY <2>2, <2>3
  <1>5. g = [n \in 0 .. Len(evs) |->
               IF n = 0 THEN NoMetrics
               ELSE IF Counts(evs[n], main, from, to)
                 THEN AddEvent(g[n - 1], evs[n]) ELSE g[n - 1]]
    <2>1. ASSUME NEW n \in 0 .. N
          PROVE  g[n] = IF n = 0 THEN NoMetrics
                        ELSE IF Counts(evs[n], main, from, to)
                          THEN AddEvent(g[n - 1], evs[n]) ELSE g[n - 1]
      <3>1. n = 0 \/ n \in 1 .. N
        BY <1>1
      <3>2. CASE n = 0
        BY <1>3, <3>2 DEF GoesOn
      <3>3. CASE n # 0
        <4>1. g[n] = next(g[n - 1], n)
          BY <1>4, <3>1, <3>3
        <4>. QED
          BY <3>3, <4>1 DEF NextMetrics
      <3>. QED
        BY <3>2, <3>3
    <2>2. g \in [0 .. N -> WindowMetrics]
      BY <1>3 DEF GoesOn
    <2>. HIDE DEF F, next, main
    <2>. QED
      BY <2>1, <2>2
  <1>. DEFINE A == CHOOSE then :
                then = [n \in 0 .. Len(evs) |->
                          IF n = 0 THEN NoMetrics
                          ELSE IF Counts(evs[n], MainThreads(evs),
                                         from, to)
                             THEN AddEvent(then[n - 1], evs[n])
                             ELSE then[n - 1]]
  <1>6. AnalyzeWindow(evs, from, to) = A[N]
    BY DEF AnalyzeWindow
  <1>7. A = [n \in 0 .. N |->
               IF n = 0 THEN NoMetrics
               ELSE IF Counts(evs[n], main, from, to)
                 THEN AddEvent(A[n - 1], evs[n]) ELSE A[n - 1]]
    <2>. HIDE DEF F, next
    <2>. QED
      BY <1>5
  <1>. HIDE DEF A
  <1>8. A[0] = NoMetrics /\ \A n \in 1 .. N : A[n] = next(A[n - 1], n)
    <2>1. 0 \in 0 .. N /\ \A n \in 1 .. N : n \in 0 .. N /\ n # 0
      BY <1>1
    <2>2. A[0] = NoMetrics
      <3>. HIDE DEF N, F, main
      <3>. QED
        BY <1>7, <2>1
    <2>3. ASSUME NEW n \in 1 .. N
          PROVE  A[n] = IF Counts(evs[n], main, from, to)
                          THEN AddEvent(A[n - 1], evs[n]) ELSE A[n - 1]
      <3>. HIDE DEF N, F, main
      <3>. QED
        BY <1>7, <2>1
    <2>. QED
      BY <2>2, <2>3 DEF NextMetrics
  <1>9. \A n \in 0 .. N : A[n] \in WindowMetrics
    <2>. DEFINE P == { n \in 0 .. N : A[n] \in WindowMetrics }
    <2>1. 0 \in P
      BY <1>1, <1>8, NoMetricsType
    <2>2. ASSUME NEW k \in 0 .. N - 1, k \in P
          PROVE  k + 1 \in P
      <3>1. k + 1 \in 1 .. N /\ k + 1 \in 0 .. N /\ k + 1 - 1 = k
        BY <1>1
      <3>2. A[k + 1] = next(A[k + 1 - 1], k + 1)
        BY <1>8, <3>1
      <3>3. next(A[k], k + 1) \in WindowMetrics
        BY <2>2, <3>1, NextMetricsType
      <3>. HIDE DEF next
      <3>. QED
        BY <3>1, <3>2, <3>3
    <2>3. P = 0 .. N
      <3>. HIDE DEF N
      <3>. QED
        BY <1>1, <2>1, <2>2, UpTo
    <2>. QED
      BY <2>3
  <1>10. A \in [0 .. N -> WindowMetrics]
    BY <1>7, <1>9
  <1>11. WindowUpTo(evs, from, to, A)
    BY <1>8, <1>10 DEF WindowUpTo
  <1>. QED
    BY <1>6, <1>11

\* Which events count, and their names, classes and durations.
Taken(evs, main, from, to) ==
  [i \in 1 .. Len(evs) |-> Counts(evs[i], main, from, to)]
NamesOf(evs) == [i \in 1 .. Len(evs) |-> evs[i].name]
ClassesOf(evs) ==
  [i \in 1 .. Len(evs) |-> ClassifyEventName(evs[i].name)]
DursOf(evs) == [i \in 1 .. Len(evs) |-> evs[i].dur]

IsLong(e) == e.name = "RunTask" /\ e.dur >= LongTask

RunTasksOK(evs, taken, m, n) ==
  LET own == Named(n, taken, NamesOf(evs), "RunTask") IN
  /\ m.runTask = SumTo(Len(evs), Durations(Len(evs), taken,
                         NamesOf(evs), DursOf(evs), "RunTask"))[n]
  /\ \A j \in own : DursOf(evs)[j] <= m.maxRunTask
  /\ m.maxRunTask = 0 \/ \E j \in own : DursOf(evs)[j] = m.maxRunTask

ListsOK(evs, taken, m, n) ==
  /\ m.long = { evs[j] : j \in { i \in 1 .. n :
                                   taken[i] /\ IsLong(evs[i]) } }
  /\ ToSet(m.gc) = { evs[j] : j \in { i \in 1 .. n :
                                        taken[i] /\ IsGc(evs[i]) } }
  /\ (\A i, j \in 1 .. Len(evs) : evs[i] = evs[j] => i = j) =>
       \A i, j \in 1 .. Len(m.gc) : m.gc[i] = m.gc[j] => i = j

MetricsOK(evs, taken, m, n) ==
  /\ m \in WindowMetrics
  /\ RowsOK(Len(evs), taken, NamesOf(evs), DursOf(evs), m.byName, n)
  /\ RowsOK(Len(evs), taken, ClassesOf(evs), DursOf(evs),
            m.byClass, n)
  /\ RunTasksOK(evs, taken, m, n)
  /\ ListsOK(evs, taken, m, n)

LEMMA TakenMeasured ==
  ASSUME NEW evs, Len(evs) \in Nat, TasksIn(evs), NEW main,
         NEW from, NEW to
  PROVE  LET taken == Taken(evs, main, from, to) IN
         /\ Measured(Len(evs), taken, NamesOf(evs), DursOf(evs))
         /\ Measured(Len(evs), taken, ClassesOf(evs), DursOf(evs))
  <1>. DEFINE taken == Taken(evs, main, from, to)
              N == Len(evs)
  <1>1. taken \in [1 .. N -> BOOLEAN]
    BY DEF Taken, Counts
  <1>2. ASSUME NEW i \in 1 .. N, taken[i]
        PROVE  /\ NamesOf(evs)[i] \in MetricName
               /\ ClassesOf(evs)[i] \in MetricName
               /\ DursOf(evs)[i] \in Nat
    <2>1. evs[i] \in TaskEvent
      BY <1>2 DEF Taken, Counts, TasksIn
    <2>2. evs[i].name \in MetricName /\ evs[i].dur \in Nat
      BY <2>1 DEF TaskEvent, MetricName
    <2>3. /\ NamesOf(evs)[i] = evs[i].name
          /\ ClassesOf(evs)[i] = ClassifyEventName(evs[i].name)
          /\ DursOf(evs)[i] = evs[i].dur
      BY DEF NamesOf, ClassesOf, DursOf
    <2>. QED
      BY <2>2, <2>3, ClassIsName
  <1>. HIDE DEF taken
  <1>3. /\ Measured(N, taken, NamesOf(evs), DursOf(evs))
        /\ Measured(N, taken, ClassesOf(evs), DursOf(evs))
    BY <1>1, <1>2 DEF Measured
  <1>. QED
    BY <1>3 DEF taken

LEMMA MetricsStart ==
  ASSUME NEW evs, Len(evs) \in Nat, TasksIn(evs), NEW main,
         NEW from, NEW to
  PROVE  MetricsOK(evs, Taken(evs, main, from, to), NoMetrics, 0)
  <1>. DEFINE taken == Taken(evs, main, from, to)
              N == Len(evs)
              d == Durations(N, taken, NamesOf(evs), DursOf(evs),
                             "RunTask")
  <1>1. d \in [1 .. N -> Nat]
    BY TakenMeasured, MeasuredSums
  <1>2. SumTo(N, d)[0] = 0
    <2>1. SumsOf(N, d, SumTo(N, d))
      <3>. HIDE DEF d
      <3>. QED
        BY <1>1, SumToIs
    <2>. QED
      BY <2>1 DEF SumsOf
  <1>. HIDE DEF taken
  <1>3. /\ NoMetrics.runTask = 0 /\ NoMetrics.maxRunTask = 0
        /\ NoMetrics.byName = <<>> /\ NoMetrics.byClass = <<>>
        /\ NoMetrics.long = {} /\ NoMetrics.gc = <<>>
    BY DEF NoMetrics
  <1>4. RunTasksOK(evs, taken, NoMetrics, 0)
    <2>1. Named(0, taken, NamesOf(evs), "RunTask") = {}
      BY DEF Named
    <2>. QED
      BY <1>2, <1>3, <2>1 DEF RunTasksOK
  <1>5. ListsOK(evs, taken, NoMetrics, 0)
    <2>1. ToSet(<<>>) = {} /\ Len(<<>>) = 0
      BY DEF ToSet
    <2>. QED
      BY <1>3, <2>1 DEF ListsOK
  <1>6. /\ RowsOK(N, taken, NamesOf(evs), DursOf(evs), <<>>, 0)
        /\ RowsOK(N, taken, ClassesOf(evs), DursOf(evs), <<>>, 0)
    BY NoRows
  <1>. QED
    BY <1>3, <1>4, <1>5, <1>6, NoMetricsType DEF MetricsOK, taken

LEMMA MetricsSkip ==
  ASSUME NEW evs, Len(evs) \in Nat, TasksIn(evs), NEW main,
         NEW from, NEW to, NEW taken, taken = Taken(evs, main, from, to),
         NEW m, NEW n \in 1 .. Len(evs),
         MetricsOK(evs, taken, m, n - 1), ~taken[n]
  PROVE  MetricsOK(evs, taken, m, n)
  <1>. DEFINE N == Len(evs)
  <1>1. /\ Measured(N, taken, NamesOf(evs), DursOf(evs))
        /\ Measured(N, taken, ClassesOf(evs), DursOf(evs))
    BY TakenMeasured
  <1>2. RowsOK(N, taken, NamesOf(evs), DursOf(evs), m.byName, n)
    BY <1>1, RowSkips DEF MetricsOK
  <1>3. RowsOK(N, taken, ClassesOf(evs), DursOf(evs), m.byClass, n)
    BY <1>1, RowSkips DEF MetricsOK
  <1>4. RunTasksOK(evs, taken, m, n)
    <2>. DEFINE names == NamesOf(evs)
                durs == DursOf(evs)
    <2>1. Measured(N, taken, names, durs)
      BY <1>1
    <2>. HIDE DEF names, durs
    <2>2. /\ SumTo(N, Durations(N, taken, names, durs, "RunTask"))[n] =
               SumTo(N, Durations(N, taken, names, durs, "RunTask"))[n - 1]
          /\ Named(n, taken, names, "RunTask") =
               Named(n - 1, taken, names, "RunTask")
      BY <2>1, OneElse
    <2>3. RunTasksOK(evs, taken, m, n - 1)
      BY DEF MetricsOK
    <2>. QED
      BY <2>2, <2>3 DEF RunTasksOK, names, durs
  <1>5. ListsOK(evs, taken, m, n)
    <2>1. 1 .. n = (1 .. n - 1) \cup {n}
      OBVIOUS
    <2>2. /\ { i \in 1 .. n : taken[i] /\ IsLong(evs[i]) } =
               { i \in 1 .. n - 1 : taken[i] /\ IsLong(evs[i]) }
          /\ { i \in 1 .. n : taken[i] /\ IsGc(evs[i]) } =
               { i \in 1 .. n - 1 : taken[i] /\ IsGc(evs[i]) }
      BY <2>1
    <2>3. ListsOK(evs, taken, m, n - 1)
      BY DEF MetricsOK
    <2>. QED
      BY <2>2, <2>3 DEF ListsOK
  <1>. QED
    BY <1>2, <1>3, <1>4, <1>5 DEF MetricsOK

LEMMA MetricsTake ==
  ASSUME NEW evs, Len(evs) \in Nat, TasksIn(evs), NEW main,
         NEW from, NEW to, NEW taken, taken = Taken(evs, main, from, to),
         NEW m, NEW n \in 1 .. Len(evs),
         MetricsOK(evs, taken, m, n - 1), taken[n]
  PROVE  MetricsOK(evs, taken, AddEvent(m, evs[n]), n)
  <1>. DEFINE N == Len(evs)
              e == evs[n]
              a == AddEvent(m, e)
              names == NamesOf(evs)
              classes == ClassesOf(evs)
              durs == DursOf(evs)
  <1>1. /\ Measured(N, taken, names, durs)
        /\ Measured(N, taken, classes, durs)
    BY TakenMeasured
  <1>2. e \in TaskEvent
    BY DEF Taken, Counts, TasksIn
  <1>3. /\ e.name = names[n] /\ ClassifyEventName(e.name) = classes[n]
        /\ e.dur = durs[n]
    BY DEF NamesOf, ClassesOf, DursOf
  <1>4. m \in WindowMetrics
    BY DEF MetricsOK
  <1>5. /\ a \in WindowMetrics
        /\ a.byName = AddMetric(m.byName, e.name, e.dur)
        /\ a.byClass = AddMetric(m.byClass, ClassifyEventName(e.name), e.dur)
        /\ a.runTask = IF e.name = "RunTask" THEN m.runTask + e.dur
                       ELSE m.runTask
        /\ a.maxRunTask = IF e.name = "RunTask"
                            THEN Larger(m.maxRunTask, e.dur)
                            ELSE m.maxRunTask
        /\ a.long = IF IsLong(e) THEN m.long \cup {e} ELSE m.long
        /\ a.gc = IF IsGc(e) THEN Append(m.gc, e) ELSE m.gc
    <2>. HIDE DEF e
    <2>. QED
      BY <1>2, <1>4, AddEventIs DEF IsLong
  <1>6. /\ RowsOK(N, taken, names, durs, m.byName, n - 1)
        /\ RowsOK(N, taken, classes, durs, m.byClass, n - 1)
        /\ RunTasksOK(evs, taken, m, n - 1)
        /\ ListsOK(evs, taken, m, n - 1)
    BY DEF MetricsOK
  <1>7. e.dur \in Nat /\ m.maxRunTask \in Nat /\ m.gc \in Seq(TaskEvent)
    BY <1>2, <1>4 DEF TaskEvent, WindowMetrics
  <1>8. 1 .. n = (1 .. n - 1) \cup {n}
    OBVIOUS
  <1>. HIDE DEF a
  <1>9. RowsOK(N, taken, names, durs, a.byName, n)
    <2>. HIDE DEF names, durs, e
    <2>. QED
      BY <1>1, <1>3, <1>5, <1>6, RowTakes
  <1>10. RowsOK(N, taken, classes, durs, a.byClass, n)
    <2>. DEFINE class == ClassifyEventName(e.name)
    <2>1. class = classes[n] /\ a.byClass = AddMetric(m.byClass, class, e.dur)
      BY <1>3, <1>5
    <2>. HIDE DEF classes, durs, e, class
    <2>. QED
      BY <1>1, <1>3, <1>6, <2>1, RowTakes
  <1>11. RunTasksOK(evs, taken, a, n)
    <2>. DEFINE d == Durations(N, taken, names, durs, "RunTask")
                old == Named(n - 1, taken, names, "RunTask")
                own == Named(n, taken, names, "RunTask")
    <2>1. /\ m.runTask = SumTo(N, d)[n - 1]
          /\ \A j \in old : durs[j] <= m.maxRunTask
          /\ m.maxRunTask = 0 \/ \E j \in old : durs[j] = m.maxRunTask
      BY <1>6 DEF RunTasksOK
    <2>2. CASE e.name = "RunTask"
      <3>1. /\ SumTo(N, d)[n] = SumTo(N, d)[n - 1] + durs[n]
            /\ own = old \cup {n}
        <4>1. names[n] = "RunTask"
          BY <1>3, <2>2
        <4>. HIDE DEF names, durs
        <4>. QED
          BY <1>1, <4>1, OneMore
      <3>2. a.runTask = SumTo(N, d)[n]
        <4>. HIDE DEF d, names, durs, e
        <4>. QED
          BY <1>3, <1>5, <2>1, <2>2, <3>1
      <3>3. a.maxRunTask = IF m.maxRunTask > e.dur THEN m.maxRunTask
                           ELSE e.dur
        BY <1>5, <2>2 DEF Larger
      <3>4. \A j \in old : durs[j] \in Nat
        BY <1>1 DEF Named, Measured
      <3>5. /\ \A j \in own : durs[j] <= a.maxRunTask
            /\ a.maxRunTask = 0 \/ \E j \in own : durs[j] = a.maxRunTask
        <4>. HIDE DEF own, old, durs, e
        <4>. QED
          BY <1>3, <1>7, <2>1, <3>1, <3>3, <3>4
      <3>. QED
        BY <3>2, <3>5 DEF RunTasksOK
    <2>3. CASE e.name # "RunTask"
      <3>1. SumTo(N, d)[n] = SumTo(N, d)[n - 1] /\ own = old
        <4>1. names[n] # "RunTask"
          BY <1>3, <2>3
        <4>. HIDE DEF names, durs
        <4>. QED
          BY <1>1, <4>1, OneElse
      <3>2. a.runTask = m.runTask /\ a.maxRunTask = m.maxRunTask
        BY <1>5, <2>3
      <3>. HIDE DEF e
      <3>. QED
        BY <2>1, <3>1, <3>2 DEF RunTasksOK
    <2>. QED
      BY <2>2, <2>3
  <1>12. ListsOK(evs, taken, a, n)
    <2>. DEFINE L(k) == { i \in 1 .. k : taken[i] /\ IsLong(evs[i]) }
                G(k) == { i \in 1 .. k : taken[i] /\ IsGc(evs[i]) }
    <2>1. /\ m.long = { evs[j] : j \in L(n - 1) }
          /\ ToSet(m.gc) = { evs[j] : j \in G(n - 1) }
          /\ (\A i, j \in 1 .. N : evs[i] = evs[j] => i = j) =>
               \A i, j \in 1 .. Len(m.gc) : m.gc[i] = m.gc[j] => i = j
      BY <1>6 DEF ListsOK
    <2>2. /\ L(n) = IF IsLong(e) THEN L(n - 1) \cup {n} ELSE L(n - 1)
          /\ G(n) = IF IsGc(e) THEN G(n - 1) \cup {n} ELSE G(n - 1)
      BY <1>8
    <2>3. n \notin G(n - 1) /\ G(n - 1) \subseteq 1 .. N
      OBVIOUS
    <2>. HIDE DEF L, G
    <2>4. a.long = { evs[j] : j \in L(n) }
      BY <1>5, <2>1, <2>2
    <2>5. /\ ToSet(a.gc) = { evs[j] : j \in G(n) }
          /\ (\A i, j \in 1 .. N : evs[i] = evs[j] => i = j) =>
               \A i, j \in 1 .. Len(a.gc) : a.gc[i] = a.gc[j] => i = j
      <3>1. CASE IsGc(e)
        <4>. DEFINE k == Len(m.gc)
        <4>1. /\ a.gc \in Seq(TaskEvent) /\ Len(a.gc) = k + 1 /\ k \in Nat
              /\ \A i \in 1 .. k : a.gc[i] = m.gc[i]
              /\ a.gc[k + 1] = e
              /\ DOMAIN a.gc = 1 .. k + 1 /\ DOMAIN m.gc = 1 .. k
              /\ 1 .. k + 1 = (1 .. k) \cup {k + 1}
          <5>. HIDE DEF e
          <5>. QED
            BY <1>2, <1>5, <1>7, <3>1
        <4>. HIDE DEF k
        <4>2. ToSet(a.gc) = ToSet(m.gc) \cup {e}
          BY <4>1 DEF ToSet
        <4>3. ToSet(a.gc) = { evs[j] : j \in G(n) }
          BY <2>1, <2>2, <3>1, <4>2
        <4>4. ASSUME \A i, j \in 1 .. N : evs[i] = evs[j] => i = j
              PROVE  \A i, j \in 1 .. Len(a.gc) : a.gc[i] = a.gc[j] => i = j
          <5>1. e \notin ToSet(m.gc)
            BY <2>1, <2>3, <4>4
          <5>2. \A i \in 1 .. k : m.gc[i] # e
            BY <4>1, <5>1 DEF ToSet
          <5>3. \A i, j \in 1 .. k : m.gc[i] = m.gc[j] => i = j
            BY <2>1, <4>4 DEF k
          <5>4. ASSUME NEW i \in 1 .. k + 1, NEW j \in 1 .. k + 1,
                       a.gc[i] = a.gc[j]
                PROVE  i = j
            <6>1. (i \in 1 .. k \/ i = k + 1) /\ (j \in 1 .. k \/ j = k + 1)
              BY <4>1
            <6>. HIDE DEF e
            <6>. QED
              BY <4>1, <5>2, <5>3, <5>4, <6>1
          <5>. QED
            BY <4>1, <5>4
        <4>. QED
          BY <4>3, <4>4
      <3>2. CASE ~IsGc(e)
        <4>1. a.gc = m.gc /\ G(n) = G(n - 1)
          BY <1>5, <2>2, <3>2
        <4>. QED
          BY <2>1, <4>1
      <3>. QED
        BY <3>1, <3>2
    <2>. QED
      BY <2>4, <2>5 DEF ListsOK, L, G
  <1>. QED
    BY <1>5, <1>9, <1>10, <1>11, <1>12 DEF MetricsOK, a

\* What a pass over the events gives.
LEMMA WindowMeasured ==
  ASSUME NEW evs, Len(evs) \in Nat, TasksIn(evs),
         NEW from, NEW to
  PROVE  MetricsOK(evs, Taken(evs, MainThreads(evs), from, to),
                   AnalyzeWindow(evs, from, to), Len(evs))
  <1>. DEFINE N == Len(evs)
              main == MainThreads(evs)
              taken == Taken(evs, main, from, to)
  <1>1. PICK then : /\ WindowUpTo(evs, from, to, then)
                    /\ AnalyzeWindow(evs, from, to) = then[Len(evs)]
    BY WindowUnfold
  <1>. DEFINE P == { n \in 0 .. N : MetricsOK(evs, taken, then[n], n) }
  <1>2. 0 \in P
    BY <1>1, MetricsStart DEF WindowUpTo
  <1>3. ASSUME NEW k \in 0 .. N - 1, k \in P
        PROVE  k + 1 \in P
    <2>. DEFINE n == k + 1
    <2>1. n \in 1 .. N /\ n \in 0 .. N /\ n - 1 = k
      OBVIOUS
    <2>2. MetricsOK(evs, taken, then[n - 1], n - 1)
      BY <1>3, <2>1
    <2>3. then[n] = NextMetrics(evs, main, from, to, then[n - 1], n)
      BY <1>1, <2>1 DEF WindowUpTo
    <2>4. taken[n] <=> Counts(evs[n], main, from, to)
      BY <2>1 DEF Taken
    <2>5. CASE taken[n]
      <3>1. then[n] = AddEvent(then[n - 1], evs[n])
        BY <2>3, <2>4, <2>5 DEF NextMetrics
      <3>. HIDE DEF n, main
      <3>2. MetricsOK(evs, taken, then[n], n)
        BY <2>1, <2>2, <2>5, <3>1, MetricsTake
      <3>. QED
        BY <2>1, <3>2 DEF n
    <2>6. CASE ~taken[n]
      <3>1. then[n] = then[n - 1]
        BY <2>3, <2>4, <2>6 DEF NextMetrics
      <3>. HIDE DEF n, main
      <3>2. MetricsOK(evs, taken, then[n], n)
        BY <2>1, <2>2, <2>6, <3>1, MetricsSkip
      <3>. QED
        BY <2>1, <3>2 DEF n
    <2>. QED
      BY <2>5, <2>6
  <1>4. P = 0 .. N
    <2>1. P \in SUBSET (0 .. N)
      OBVIOUS
    <2>. HIDE DEF P
    <2>. QED
      BY <1>2, <1>3, <2>1, UpTo
  <1>5. MetricsOK(evs, taken, then[N], N)
    <2>1. N \in 0 .. N
      OBVIOUS
    <2>. QED
      BY <1>4, <2>1
  <1>. QED
    BY <1>1, <1>5

LEMMA MirroredBack ==
  ASSUME NEW N \in Nat, NEW f, NEW g, Mirrored(N, f, g)
  PROVE  Mirrored(N, g, f)
  <1>1. ASSUME NEW i \in 1 .. N
        PROVE  f[i] = g[N - i + 1]
    <2>1. N - i + 1 \in 1 .. N /\ N - (N - i + 1) + 1 = i
      OBVIOUS
    <2>. QED
      BY <2>1 DEF Mirrored
  <1>. QED
    BY <1>1 DEF Mirrored

LEMMA ThreadsMirrored ==
  ASSUME NEW N \in Nat, NEW one, NEW other,
         DOMAIN one = 1 .. N, DOMAIN other = 1 .. N, Mirrored(N, one, other)
  PROVE  MainThreads(one) = MainThreads(other)
  <1>1. ToSet(other) \subseteq ToSet(one)
    <2>1. \A i \in 1 .. N : N - i + 1 \in 1 .. N
      OBVIOUS
    <2>. QED
      BY <2>1 DEF Mirrored, ToSet
  <1>2. ToSet(one) \subseteq ToSet(other)
    <2>1. \A i \in 1 .. N : N - i + 1 \in 1 .. N
      OBVIOUS
    <2>2. Mirrored(N, other, one)
      BY MirroredBack
    <2>. QED
      BY <2>1, <2>2 DEF Mirrored, ToSet
  <1>. QED
    BY <1>1, <1>2 DEF MainThreads

\* Everything but the windows of SameMeasures.
SameTasks(A, B) ==
  /\ A.runTask = B.runTask /\ A.maxRunTask = B.maxRunTask
  /\ A.long = B.long /\ ToSet(A.gc) = ToSet(B.gc)
  /\ ToSet(A.byName) = ToSet(B.byName)
  /\ ToSet(A.byClass) = ToSet(B.byClass)

LEMMA WindowMirrored ==
  ASSUME NEW N \in Nat, NEW one, NEW other,
         Len(one) = N, Len(other) = N,
         DOMAIN one = 1 .. N, DOMAIN other = 1 .. N,
         TasksIn(one), TasksIn(other), Mirrored(N, one, other),
         NEW from, NEW to
  PROVE  SameTasks(AnalyzeWindow(one, from, to),
                   AnalyzeWindow(other, from, to))
  <1>. DEFINE main == MainThreads(one)
              A == AnalyzeWindow(one, from, to)
              B == AnalyzeWindow(other, from, to)
              ta == Taken(one, main, from, to)
              tb == Taken(other, main, from, to)
              na == NamesOf(one)
              nb == NamesOf(other)
              ca == ClassesOf(one)
              cb == ClassesOf(other)
              da == DursOf(one)
              db == DursOf(other)
  <1>1. main = MainThreads(other)
    BY ThreadsMirrored
  <1>2. MetricsOK(one, ta, A, N) /\ MetricsOK(other, tb, B, N)
    BY <1>1, WindowMeasured
  <1>3. /\ Measured(N, ta, na, da) /\ Measured(N, ta, ca, da)
        /\ Measured(N, tb, nb, db) /\ Measured(N, tb, cb, db)
    <2>1. Measured(N, ta, na, da) /\ Measured(N, ta, ca, da)
      BY TakenMeasured
    <2>2. Measured(N, tb, nb, db) /\ Measured(N, tb, cb, db)
      BY TakenMeasured
    <2>. QED
      BY <2>1, <2>2
  <1>4. /\ Mirrored(N, ta, tb) /\ Mirrored(N, na, nb)
        /\ Mirrored(N, ca, cb) /\ Mirrored(N, da, db)
    <2>1. ASSUME NEW i \in 1 .. N
          PROVE  N - i + 1 \in 1 .. N /\ other[i] = one[N - i + 1]
      BY DEF Mirrored
    <2>2. ASSUME NEW i \in 1 .. N
          PROVE  tb[i] = ta[N - i + 1]
      BY <2>1 DEF Taken
    <2>3. ASSUME NEW i \in 1 .. N
          PROVE  /\ nb[i] = na[N - i + 1] /\ cb[i] = ca[N - i + 1]
                 /\ db[i] = da[N - i + 1]
      BY <2>1 DEF NamesOf, ClassesOf, DursOf
    <2>. HIDE DEF ta, tb, na, nb, ca, cb, da, db
    <2>. QED
      BY <2>2, <2>3 DEF Mirrored
  <1>5. /\ Mirrored(N, tb, ta) /\ Mirrored(N, nb, na)
        /\ Mirrored(N, cb, ca) /\ Mirrored(N, db, da)
    <2>. HIDE DEF ta, tb, na, nb, ca, cb, da, db
    <2>. QED
      BY <1>4, MirroredBack
  <1>6. /\ \A i \in 1 .. N : (ta[i] <=> Counts(one[i], main, from, to))
        /\ \A i \in 1 .. N : (tb[i] <=> Counts(other[i], main, from, to))
    BY DEF Taken
  <1>. HIDE DEF main, A, B, ta, tb, na, nb, ca, cb, da, db
  <1>7. ToSet(A.byName) = ToSet(B.byName)
    <2>1. /\ RowsOK(N, ta, na, da, A.byName, N)
          /\ RowsOK(N, tb, nb, db, B.byName, N)
      BY <1>2 DEF MetricsOK, na, nb, da, db
    <2>2. ToSet(A.byName) \subseteq ToSet(B.byName)
      BY <1>3, <1>4, <2>1, RowsMirrored
    <2>3. ToSet(B.byName) \subseteq ToSet(A.byName)
      BY <1>3, <1>5, <2>1, RowsMirrored
    <2>. QED
      BY <2>2, <2>3
  <1>8. ToSet(A.byClass) = ToSet(B.byClass)
    <2>1. /\ RowsOK(N, ta, ca, da, A.byClass, N)
          /\ RowsOK(N, tb, cb, db, B.byClass, N)
      BY <1>2 DEF MetricsOK, ca, cb, da, db
    <2>2. ToSet(A.byClass) \subseteq ToSet(B.byClass)
      BY <1>3, <1>4, <2>1, RowsMirrored
    <2>3. ToSet(B.byClass) \subseteq ToSet(A.byClass)
      BY <1>3, <1>5, <2>1, RowsMirrored
    <2>. QED
      BY <2>2, <2>3
  <1>9. A.runTask = B.runTask /\ A.maxRunTask = B.maxRunTask
    <2>. DEFINE wa == Durations(N, ta, na, da, "RunTask")
                wb == Durations(N, tb, nb, db, "RunTask")
                Sa == Named(N, ta, na, "RunTask")
                Sb == Named(N, tb, nb, "RunTask")
    <2>1. /\ A.runTask = SumTo(N, wa)[N] /\ B.runTask = SumTo(N, wb)[N]
          /\ \A j \in Sa : da[j] <= A.maxRunTask
          /\ A.maxRunTask = 0 \/ \E j \in Sa : da[j] = A.maxRunTask
          /\ \A j \in Sb : db[j] <= B.maxRunTask
          /\ B.maxRunTask = 0 \/ \E j \in Sb : db[j] = B.maxRunTask
      BY <1>2 DEF MetricsOK, RunTasksOK, na, nb, da, db
    <2>2. /\ wa \in [1 .. N -> Nat] /\ wb \in [1 .. N -> Nat]
      BY <1>3, MeasuredSums
    <2>3. /\ \A j \in Sa : N - j + 1 \in Sb /\ db[N - j + 1] = da[j]
          /\ \A j \in Sb : N - j + 1 \in Sa /\ db[j] = da[N - j + 1]
      <3>1. \A j \in 1 .. N :
              /\ N - j + 1 \in 1 .. N
              /\ tb[j] = ta[N - j + 1] /\ nb[j] = na[N - j + 1]
              /\ db[j] = da[N - j + 1]
              /\ ta[j] = tb[N - j + 1] /\ na[j] = nb[N - j + 1]
              /\ da[j] = db[N - j + 1]
        BY <1>4, <1>5 DEF Mirrored
      <3>. QED
        BY <3>1 DEF Named
    <2>4. ASSUME NEW j \in 1 .. N
          PROVE  wb[j] = wa[N - j + 1]
      <3>1. /\ N - j + 1 \in 1 .. N
            /\ tb[j] = ta[N - j + 1] /\ nb[j] = na[N - j + 1]
            /\ db[j] = da[N - j + 1]
        BY <1>4 DEF Mirrored
      <3>. QED
        BY <3>1 DEF Durations
    <2>5. A.maxRunTask \in Nat /\ B.maxRunTask \in Nat
      BY <1>2 DEF MetricsOK, WindowMetrics
    <2>6. \A j \in Sa : da[j] \in Nat
      BY <1>3 DEF Named, Measured
    <2>. HIDE DEF wa, wb, Sa, Sb
    <2>7. SumTo(N, wa)[N] = SumTo(N, wb)[N]
      BY <2>2, <2>4, SumMirrored
    <2>8. A.maxRunTask <= B.maxRunTask
      BY <2>1, <2>3, <2>5, <2>6
    <2>9. B.maxRunTask <= A.maxRunTask
      BY <2>1, <2>3, <2>5, <2>6
    <2>. QED
      BY <2>1, <2>5, <2>7, <2>8, <2>9
  <1>10. A.long = B.long /\ ToSet(A.gc) = ToSet(B.gc)
    <2>1. /\ A.long = { one[j] : j \in { i \in 1 .. N :
                                           ta[i] /\ IsLong(one[i]) } }
          /\ B.long = { other[j] : j \in { i \in 1 .. N :
                                             tb[i] /\ IsLong(other[i]) } }
          /\ ToSet(A.gc) = { one[j] : j \in { i \in 1 .. N :
                                                ta[i] /\ IsGc(one[i]) } }
          /\ ToSet(B.gc) = { other[j] : j \in { i \in 1 .. N :
                                                  tb[i] /\ IsGc(other[i]) } }
      BY <1>2 DEF MetricsOK, ListsOK
    <2>2. Mirrored(N, other, one)
      BY MirroredBack
    <2>3. \A j \in 1 .. N :
            /\ N - j + 1 \in 1 .. N
            /\ tb[j] = ta[N - j + 1] /\ other[j] = one[N - j + 1]
            /\ ta[j] = tb[N - j + 1] /\ one[j] = other[N - j + 1]
      BY <1>4, <1>5, <2>2 DEF Mirrored
    <2>4. A.long \subseteq B.long /\ ToSet(A.gc) \subseteq ToSet(B.gc)
      <3>1. ASSUME NEW j \in 1 .. N, ta[j]
            PROVE  \E i \in 1 .. N : tb[i] /\ other[i] = one[j]
        BY <2>3, <3>1
      <3>. QED
        BY <2>1, <3>1
    <2>5. B.long \subseteq A.long /\ ToSet(B.gc) \subseteq ToSet(A.gc)
      <3>1. ASSUME NEW j \in 1 .. N, tb[j]
            PROVE  \E i \in 1 .. N : ta[i] /\ one[i] = other[j]
        BY <2>3, <3>1
      <3>. QED
        BY <2>1, <3>1
    <2>. QED
      BY <2>4, <2>5
  <1>. QED
    BY <1>7, <1>8, <1>9, <1>10 DEF SameTasks, A, B
-----------------------------------------------------------------------------
(* The rows that took longest.                                             *)

LEMMA InsertAtIs ==
  ASSUME NEW V, NEW s \in Seq(V), NEW p \in 1 .. Len(s) + 1, NEW e \in V
  PROVE  LET longer == InsertAt(s, p, e) IN
         /\ longer \in Seq(V) /\ Len(longer) = Len(s) + 1
         /\ \A i \in 1 .. p - 1 : longer[i] = s[i]
         /\ longer[p] = e
         /\ \A i \in p + 1 .. Len(s) + 1 : longer[i] = s[i - 1]
  <1>. DEFINE a == SubSeq(s, 1, p - 1)
              b == SubSeq(s, p, Len(s))
              c == a \o <<e>>
              longer == c \o b
  <1>1. Len(s) \in Nat /\ p \in Nat /\ p - 1 \in Int /\ 1 \in Int
    OBVIOUS
  <1>2. /\ a \in Seq(V) /\ Len(a) = p - 1
        /\ \A i \in 1 .. p - 1 : a[i] = s[i]
    <2>1. \A i \in 1 .. p - 1 : s[i] \in V
      OBVIOUS
    <2>2. /\ a \in Seq(V)
          /\ Len(a) = IF 1 <= p - 1 THEN p - 1 - 1 + 1 ELSE 0
          /\ \A i \in 1 .. p - 1 - 1 + 1 : a[i] = s[1 + i - 1]
      BY <1>1, <2>1, SubSeqProperties
    <2>. HIDE DEF a
    <2>. QED
      BY <1>1, <2>2
  <1>3. /\ b \in Seq(V) /\ Len(b) = Len(s) - p + 1
        /\ \A i \in 1 .. Len(s) - p + 1 : b[i] = s[p + i - 1]
    <2>1. \A i \in p .. Len(s) : s[i] \in V
      OBVIOUS
    <2>2. /\ b \in Seq(V)
          /\ Len(b) = IF p <= Len(s) THEN Len(s) - p + 1 ELSE 0
          /\ \A i \in 1 .. Len(s) - p + 1 : b[i] = s[p + i - 1]
      BY <1>1, <2>1, SubSeqProperties
    <2>. HIDE DEF b
    <2>. QED
      BY <1>1, <2>2
  <1>4. <<e>> \in Seq(V) /\ Len(<<e>>) = 1 /\ <<e>>[1] = e
    OBVIOUS
  <1>. HIDE DEF a, b
  <1>5. /\ c \in Seq(V) /\ Len(c) = p
        /\ \A i \in 1 .. p - 1 : c[i] = s[i]
        /\ c[p] = e
    <2>. DEFINE u == <<e>>
    <2>. HIDE DEF u
    <2>1. /\ a \o u \in Seq(V) /\ Len(a \o u) = Len(a) + Len(u)
          /\ \A i \in 1 .. Len(a) + Len(u) :
               (a \o u)[i] = IF i <= Len(a) THEN a[i] ELSE u[i - Len(a)]
      BY <1>2, <1>4, ConcatProperties DEF u
    <2>2. Len(u) = 1 /\ u[1] = e
      BY <1>4 DEF u
    <2>3. c = a \o u
      BY DEF u
    <2>. HIDE DEF c
    <2>4. Len(c) = p /\ \A i \in 1 .. p - 1 : c[i] = s[i]
      BY <1>1, <1>2, <2>1, <2>2, <2>3
    <2>5. c[p] = e
      <3>1. p \in 1 .. Len(a) + Len(u) /\ ~(p <= Len(a)) /\ p - Len(a) = 1
        BY <1>1, <1>2, <2>2
      <3>. QED
        BY <2>1, <2>2, <2>3, <3>1
    <2>. QED
      BY <2>1, <2>3, <2>4, <2>5
  <1>. HIDE DEF c
  <1>6. /\ longer \in Seq(V) /\ Len(longer) = Len(c) + Len(b)
        /\ \A i \in 1 .. Len(c) + Len(b) :
             longer[i] = IF i <= Len(c) THEN c[i] ELSE b[i - Len(c)]
    BY <1>3, <1>5, ConcatProperties
  <1>7. InsertAt(s, p, e) = longer
    BY DEF InsertAt, a, b, c
  <1>. HIDE DEF longer
  <1>8. Len(longer) = Len(s) + 1
    BY <1>1, <1>3, <1>5, <1>6
  <1>9. \A i \in 1 .. p - 1 : longer[i] = s[i]
    BY <1>1, <1>3, <1>5, <1>6
  <1>10. longer[p] = e
    BY <1>1, <1>3, <1>5, <1>6
  <1>11. ASSUME NEW i \in p + 1 .. Len(s) + 1
         PROVE  longer[i] = s[i - 1]
    <2>1. /\ i \in 1 .. Len(c) + Len(b) /\ ~(i <= Len(c))
          /\ i - Len(c) \in 1 .. Len(s) - p + 1
          /\ p + (i - Len(c)) - 1 = i - 1
      BY <1>1, <1>3, <1>5
    <2>2. longer[i] = b[i - Len(c)]
      BY <1>6, <2>1
    <2>3. b[i - Len(c)] = s[p + (i - Len(c)) - 1]
      BY <1>3, <2>1
    <2>. QED
      BY <2>1, <2>2, <2>3
  <1>. QED
    BY <1>6, <1>7, <1>8, <1>9, <1>10, <1>11

Sorted(top) ==
  \A i, j \in 1 .. Len(top) : i < j => top[i].total >= top[j].total

LEMMA RowTotals ==
  ASSUME NEW rows \in Seq(MetricRow)
  PROVE  /\ \A i \in 1 .. Len(rows) :
              rows[i] \in MetricRow /\ rows[i].total \in Nat
         /\ \A r \in ToSet(rows) : r.total \in Nat
  <1>1. \A r \in MetricRow : r.total \in Nat
    BY DEF MetricRow
  <1>2. \A i \in 1 .. Len(rows) : rows[i] \in MetricRow
    OBVIOUS
  <1>3. DOMAIN rows = 1 .. Len(rows)
    OBVIOUS
  <1>. QED
    BY <1>1, <1>2, <1>3 DEF ToSet

\* Where a row goes: behind the rows that did not take less.
LEMMA InsertedIs ==
  ASSUME NEW top \in Seq(MetricRow), Sorted(top), NEW row \in MetricRow
  PROVE  \E p \in 1 .. Len(top) + 1 :
           /\ \A i \in 1 .. p - 1 : top[i].total >= row.total
           /\ \A i \in p .. Len(top) : row.total > top[i].total
           /\ Inserted(top, row) =
                IF Len(top) + 1 > TopLimit
                  THEN Front(InsertAt(top, p, row))
                  ELSE InsertAt(top, p, row)
  <1>. DEFINE I == { i \in 1 .. Len(top) : row.total > top[i].total }
              smaller == IF I # {} THEN Min(I) ELSE 0
              p == IF smaller = 0 THEN Len(top) + 1 ELSE smaller
  <1>1. /\ Len(top) \in Nat /\ row.total \in Nat
        /\ \A i \in 1 .. Len(top) : top[i].total \in Nat
    <2>1. row.total \in Nat
      BY DEF MetricRow
    <2>. QED
      BY <2>1, RowTotals
  <1>2. I # {} => Min(I) \in I /\ \A j \in I : Min(I) <= j
    <2>1. I \in SUBSET (1 .. Len(top))
      OBVIOUS
    <2>. HIDE DEF I
    <2>. QED
      BY <1>1, <2>1, MinIs
  <1>3. /\ p \in 1 .. Len(top) + 1
        /\ \A i \in 1 .. p - 1 : i \notin I /\ i \in 1 .. Len(top)
        /\ p \in 1 .. Len(top) => p \in I
    <2>1. CASE I = {}
      <3>1. p = Len(top) + 1
        BY <2>1
      <3>. HIDE DEF p
      <3>. QED
        BY <1>1, <2>1, <3>1
    <2>2. CASE I # {}
      <3>1. smaller = Min(I) /\ I \subseteq 1 .. Len(top)
        BY <2>2
      <3>. HIDE DEF I, smaller
      <3>2. smaller \in 1 .. Len(top)
        BY <1>2, <2>2, <3>1
      <3>3. p = Min(I) /\ p \in 1 .. Len(top)
        BY <1>1, <3>1, <3>2
      <3>. HIDE DEF p
      <3>. QED
        BY <1>1, <1>2, <2>2, <3>3
    <2>. QED
      BY <2>1, <2>2
  <1>4. Inserted(top, row) =
          LET longer == InsertAt(top, p, row)
          IN IF Len(longer) > TopLimit THEN Front(longer) ELSE longer
    BY DEF Inserted, SelectInSeq
  <1>5. \A i \in I : row.total > top[i].total
    OBVIOUS
  <1>6. \A i \in 1 .. Len(top) : i \notin I => top[i].total >= row.total
    BY <1>1
  <1>. HIDE DEF I, smaller, p
  <1>7. Len(InsertAt(top, p, row)) = Len(top) + 1
    BY <1>3, InsertAtIs
  <1>8. Inserted(top, row) = IF Len(top) + 1 > TopLimit
                               THEN Front(InsertAt(top, p, row))
                               ELSE InsertAt(top, p, row)
    BY <1>4, <1>7
  <1>9. \A i \in 1 .. p - 1 : top[i].total >= row.total
    BY <1>3, <1>6
  <1>10. ASSUME NEW i \in p .. Len(top)
         PROVE  row.total > top[i].total
    <2>1. p \in 1 .. Len(top) /\ i \in 1 .. Len(top) /\ (i = p \/ p < i)
      BY <1>1, <1>3
    <2>2. row.total > top[p].total
      BY <1>3, <1>5, <2>1
    <2>3. CASE i = p
      BY <2>2, <2>3
    <2>4. CASE p < i
      <3>1. top[p].total >= top[i].total
        BY <2>1, <2>4 DEF Sorted
      <3>. QED
        BY <1>1, <2>1, <2>2, <3>1
    <2>. QED
      BY <2>1, <2>3, <2>4
  <1>. QED
    BY <1>3, <1>8, <1>9, <1>10

TopOK(map, top, n) ==
  /\ top \in Seq(MetricRow)
  /\ Len(top) = Smaller(TopLimit, n)
  /\ Sorted(top)
  /\ \A i \in 1 .. n :
       \/ map[i] \in ToSet(top)
       \/ TopLimit < n /\ \A r \in ToSet(top) : r.total >= map[i].total

LEMMA InsertedTop ==
  ASSUME NEW map \in Seq(MetricRow), NEW n \in 1 .. Len(map), NEW top,
         TopOK(map, top, n - 1)
  PROVE  TopOK(map, Inserted(top, map[n]), n)
  <1>. DEFINE row == map[n]
              L == Len(top)
  <1>1. /\ top \in Seq(MetricRow) /\ L = Smaller(TopLimit, n - 1)
        /\ Sorted(top) /\ row \in MetricRow /\ L \in Nat
        /\ TopLimit \in Nat /\ n \in Nat
    BY TopLimitAssumption DEF TopOK
  <1>2. PICK p \in 1 .. L + 1 :
           /\ \A i \in 1 .. p - 1 : top[i].total >= row.total
           /\ \A i \in p .. L : row.total > top[i].total
           /\ Inserted(top, row) =
                IF L + 1 > TopLimit THEN Front(InsertAt(top, p, row))
                ELSE InsertAt(top, p, row)
    BY <1>1, InsertedIs
  <1>. DEFINE longer == InsertAt(top, p, row)
  <1>. HIDE DEF row
  <1>3. /\ longer \in Seq(MetricRow) /\ Len(longer) = L + 1
        /\ \A i \in 1 .. p - 1 : longer[i] = top[i]
        /\ longer[p] = row
        /\ \A i \in p + 1 .. L + 1 : longer[i] = top[i - 1]
    <2>1. top \in Seq(MetricRow) /\ p \in 1 .. Len(top) + 1
          /\ row \in MetricRow
      BY <1>1
    <2>. HIDE DEF row
    <2>. QED
      BY <2>1, InsertAtIs
  <1>4. /\ row.total \in Nat
        /\ \A i \in 1 .. L : top[i] \in MetricRow /\ top[i].total \in Nat
        /\ \A i \in 1 .. Len(map) : map[i].total \in Nat
        /\ \A r \in ToSet(top) : r.total \in Nat
    <2>1. row.total \in Nat
      BY <1>1 DEF MetricRow
    <2>. QED
      BY <1>1, <2>1, RowTotals
  <1>5. ASSUME NEW i \in 1 .. L + 1
        PROVE  \/ i \in 1 .. p - 1 /\ i \in 1 .. L
               \/ i = p
               \/ i \in p + 1 .. L + 1 /\ i - 1 \in p .. L /\ i - 1 \in 1 .. L
    BY <1>1
  <1>. HIDE DEF longer
  <1>6. Sorted(longer)
    <2>1. ASSUME NEW i \in 1 .. L + 1, NEW j \in 1 .. L + 1, i < j
          PROVE  longer[i].total >= longer[j].total
      <3>1. \A k, l \in 1 .. L : k < l => top[k].total >= top[l].total
        BY <1>1 DEF Sorted
      <3>2. CASE i \in 1 .. p - 1 /\ i \in 1 .. L
        <4>1. longer[i] = top[i]
          BY <1>3, <3>2
        <4>2. CASE j \in 1 .. p - 1 /\ j \in 1 .. L
          BY <1>3, <2>1, <3>1, <3>2, <4>1, <4>2
        <4>3. CASE j = p
          BY <1>2, <1>3, <3>2, <4>1, <4>3
        <4>4. CASE j \in p + 1 .. L + 1 /\ j - 1 \in p .. L
                   /\ j - 1 \in 1 .. L
          <5>1. i < j - 1
            BY <3>2, <4>4
          <5>. QED
            BY <1>3, <3>1, <3>2, <4>1, <4>4, <5>1
        <4>. QED
          BY <1>5, <4>2, <4>3, <4>4
      <3>3. CASE i = p
        <4>1. j \in p + 1 .. L + 1 /\ j - 1 \in p .. L /\ j - 1 \in 1 .. L
          BY <1>1, <2>1, <3>3
        <4>2. longer[i] = row /\ longer[j] = top[j - 1]
          BY <1>3, <3>3, <4>1
        <4>3. row.total > top[j - 1].total
          BY <1>2, <4>1
        <4>. QED
          BY <1>4, <4>1, <4>2, <4>3
      <3>4. CASE i \in p + 1 .. L + 1 /\ i - 1 \in p .. L /\ i - 1 \in 1 .. L
        <4>1. j \in p + 1 .. L + 1 /\ j - 1 \in 1 .. L /\ i - 1 < j - 1
          BY <1>1, <2>1, <3>4
        <4>. QED
          BY <1>3, <3>1, <3>4, <4>1
      <3>. QED
        BY <1>5, <3>2, <3>3, <3>4
    <2>. QED
      BY <1>3, <2>1 DEF Sorted
  <1>7. ToSet(longer) = ToSet(top) \cup {row}
    <2>1. DOMAIN longer = 1 .. L + 1 /\ DOMAIN top = 1 .. L
      BY <1>1, <1>3
    <2>2. ASSUME NEW i \in 1 .. L + 1
          PROVE  longer[i] \in ToSet(top) \cup {row}
      BY <1>3, <1>5, <2>1 DEF ToSet
    <2>3. ASSUME NEW i \in 1 .. L
          PROVE  top[i] \in ToSet(longer)
      <3>1. CASE i < p
        <4>1. i \in 1 .. p - 1 /\ i \in 1 .. L + 1
          BY <1>1, <3>1
        <4>2. longer[i] = top[i]
          BY <1>3, <4>1
        <4>. QED
          BY <2>1, <4>1, <4>2 DEF ToSet
      <3>2. CASE ~(i < p)
        <4>1. i + 1 \in p + 1 .. L + 1 /\ i + 1 - 1 = i /\ i + 1 \in 1 .. L + 1
          BY <1>1, <3>2
        <4>2. longer[i + 1] = top[i]
          BY <1>3, <4>1
        <4>. QED
          BY <2>1, <4>1, <4>2 DEF ToSet
      <3>. QED
        BY <3>1, <3>2
    <2>4. row \in ToSet(longer)
      BY <1>3, <2>1 DEF ToSet
    <2>5. ToSet(longer) \subseteq ToSet(top) \cup {row}
      BY <2>1, <2>2 DEF ToSet
    <2>6. ToSet(top) \subseteq ToSet(longer)
      BY <2>1, <2>3 DEF ToSet
    <2>. QED
      BY <2>4, <2>5, <2>6
  <1>8. 1 .. n = (1 .. n - 1) \cup {n}
    OBVIOUS
  <1>9. CASE ~(L + 1 > TopLimit)
    <2>1. Inserted(top, row) = longer /\ L = n - 1 /\ ~(TopLimit < n - 1)
      BY <1>1, <1>2, <1>9 DEF Smaller, longer
    <2>2. \A i \in 1 .. n - 1 : map[i] \in ToSet(top)
      BY <2>1 DEF TopOK
    <2>3. \A i \in 1 .. n : map[i] \in ToSet(longer)
      BY <1>7, <1>8, <2>2 DEF row
    <2>4. Len(longer) = Smaller(TopLimit, n)
      BY <1>1, <1>3, <1>9, <2>1 DEF Smaller
    <2>. QED
      BY <1>3, <1>6, <2>1, <2>3, <2>4 DEF TopOK, row
  <1>10. CASE L + 1 > TopLimit
    <2>. DEFINE short == Front(longer)
                x == longer[L + 1]
    <2>1. Inserted(top, row) = short /\ L = TopLimit /\ TopLimit < n
      BY <1>1, <1>2, <1>10 DEF Smaller, longer
    <2>2. /\ short \in Seq(MetricRow) /\ Len(short) = L
          /\ \A i \in 1 .. L : short[i] = longer[i]
      <3>1. \A i \in 1 .. L : longer[i] \in MetricRow
        BY <1>1, <1>3
      <3>2. short = SubSeq(longer, 1, L)
        BY <1>1, <1>3 DEF Front
      <3>3. /\ SubSeq(longer, 1, L) \in Seq(MetricRow)
            /\ Len(SubSeq(longer, 1, L)) = IF 1 <= L THEN L - 1 + 1 ELSE 0
            /\ \A i \in 1 .. L - 1 + 1 :
                 SubSeq(longer, 1, L)[i] = longer[1 + i - 1]
        BY <1>1, <3>1, SubSeqProperties
      <3>. HIDE DEF short, L
      <3>. QED
        BY <1>1, <3>2, <3>3
    <2>. HIDE DEF short
    <2>3. Sorted(short)
      BY <1>1, <1>3, <1>6, <2>2 DEF Sorted
    <2>4. \A i \in 1 .. L : short[i].total >= x.total
      <3>1. \A i \in 1 .. L : i \in 1 .. L + 1 /\ i < L + 1
        BY <1>1
      <3>2. L + 1 \in 1 .. L + 1
        BY <1>1
      <3>. QED
        BY <1>3, <1>6, <2>2, <3>1, <3>2 DEF Sorted
    <2>5. ToSet(longer) = ToSet(short) \cup {x}
      <3>1. /\ DOMAIN longer = 1 .. L + 1 /\ DOMAIN short = 1 .. L
            /\ 1 .. L + 1 = (1 .. L) \cup {L + 1}
        BY <1>1, <1>3, <2>2
      <3>. QED
        BY <2>2, <3>1 DEF ToSet
    <2>6. \A r \in ToSet(short) : r.total >= x.total
      BY <2>2, <2>4 DEF ToSet
    <2>7. Len(short) = Smaller(TopLimit, n)
      BY <1>1, <2>1, <2>2 DEF Smaller
    <2>8. ASSUME NEW i \in 1 .. n
          PROVE  \/ map[i] \in ToSet(short)
                 \/ \A r \in ToSet(short) : r.total >= map[i].total
      <3>1. CASE map[i] \in ToSet(longer)
        BY <2>5, <2>6, <3>1
      <3>2. CASE map[i] \notin ToSet(longer)
        <4>1. i \in 1 .. n - 1 /\ map[i] \notin ToSet(top)
          BY <1>7, <1>8, <3>2 DEF row
        <4>2. \A r \in ToSet(top) : r.total >= map[i].total
          BY <4>1 DEF TopOK
        <4>3. ASSUME NEW k \in 1 .. L
              PROVE  short[k].total >= map[i].total
          <5>1. short[k] = longer[k] /\ k \in 1 .. L + 1
            BY <1>1, <2>2
          <5>2. CASE longer[k] \in ToSet(top)
            BY <4>2, <5>1, <5>2
          <5>3. CASE k = p
            <6>1. p \in p .. L /\ p \in 1 .. L
              BY <1>1, <5>3
            <6>2. row.total > top[p].total
              BY <1>2, <6>1
            <6>3. top[p].total >= map[i].total
              <7>1. top[p] \in ToSet(top)
                BY <1>1, <6>1 DEF ToSet
              <7>. QED
                BY <4>2, <7>1
            <6>4. map[i].total \in Nat /\ top[p].total \in Nat
              <7>1. i \in 1 .. Len(map)
                OBVIOUS
              <7>. QED
                BY <1>4, <6>1, <7>1
            <6>. QED
              BY <1>3, <1>4, <5>1, <5>3, <6>2, <6>3, <6>4
          <5>4. CASE k # p
            <6>1. \/ k \in 1 .. p - 1 /\ k \in 1 .. L
                  \/ k \in p + 1 .. L + 1 /\ k - 1 \in 1 .. L
              BY <1>5, <5>1, <5>4
            <6>2. longer[k] \in ToSet(top)
              <7>1. DOMAIN top = 1 .. L
                BY <1>1
              <7>. QED
                BY <1>3, <6>1, <7>1 DEF ToSet
            <6>. QED
              BY <5>2, <6>2
          <5>. QED
            BY <5>3, <5>4
        <4>. QED
          BY <2>2, <4>3 DEF ToSet
      <3>. QED
        BY <3>1, <3>2
    <2>. QED
      BY <2>1, <2>2, <2>3, <2>7, <2>8 DEF TopOK, row
  <1>. QED
    BY <1>9, <1>10

\* The lists that rows are inserted into, one after the other.
TopChain(map, s) ==
  /\ s[0] = <<>>
  /\ \A n \in 1 .. Len(map) :
       Inserted(s[n - 1], map[n]) \in Seq(MetricRow) =>
         s[n] = Inserted(s[n - 1], map[n])

LEMMA TopOfChain ==
  ASSUME NEW map \in Seq(MetricRow), NEW s, TopChain(map, s)
  PROVE  \A n \in 0 .. Len(map) : TopOK(map, s[n], n)
  <1>. DEFINE N == Len(map)
              P == { n \in 0 .. N : TopOK(map, s[n], n) }
  <1>1. N \in Nat
    OBVIOUS
  <1>2. 0 \in P
    <2>1. TopOK(map, <<>>, 0)
      <3>1. <<>> \in Seq(MetricRow) /\ Len(<<>>) = 0 /\ 1 .. 0 = {}
        OBVIOUS
      <3>2. Smaller(TopLimit, 0) = 0
        BY TopLimitAssumption DEF Smaller
      <3>. QED
        BY <3>1, <3>2 DEF TopOK, Sorted
    <2>. QED
      BY <1>1, <2>1 DEF TopChain
  <1>3. ASSUME NEW k \in 0 .. N - 1, k \in P
        PROVE  k + 1 \in P
    <2>. DEFINE n == k + 1
    <2>1. n \in 1 .. N /\ n \in 0 .. N /\ n - 1 = k
      BY <1>1
    <2>2. TopOK(map, s[n - 1], n - 1)
      BY <1>3, <2>1
    <2>. HIDE DEF n
    <2>3. TopOK(map, Inserted(s[n - 1], map[n]), n)
      BY <2>1, <2>2, InsertedTop
    <2>4. s[n] = Inserted(s[n - 1], map[n])
      BY <2>1, <2>3 DEF TopChain, TopOK
    <2>5. TopOK(map, s[n], n)
      BY <2>3, <2>4
    <2>. QED
      BY <2>1, <2>5 DEF n
  <1>4. P = 0 .. N
    <2>1. P \in SUBSET (0 .. N)
      OBVIOUS
    <2>. HIDE DEF P, N
    <2>. QED
      BY <1>1, <1>2, <1>3, <2>1, UpTo
  <1>. QED
    BY <1>4

LEMMA TopMetricsTop ==
  ASSUME NEW map \in Seq(MetricRow)
  PROVE  TopOK(map, TopMetrics(map), Len(map))
  <1>. DEFINE N == Len(map)
              V == Seq(MetricRow)
              next(t, n) == Inserted(t, map[n])
              F == [p \in V \X (1 .. N) |->
                      IF next(p[1], p[2]) \in V THEN next(p[1], p[2])
                      ELSE <<>>]
  <1>1. N \in Nat /\ <<>> \in V
    OBVIOUS
  <1>2. F \in [V \X (1 .. N) -> V]
    <2>1. ASSUME NEW p \in V \X (1 .. N)
          PROVE  (IF next(p[1], p[2]) \in V THEN next(p[1], p[2])
                  ELSE <<>>) \in V
      <3>. HIDE DEF next, V, N
      <3>. QED
        BY <1>1
    <2>. HIDE DEF next, V, N
    <2>. QED
      BY <2>1
  <1>3. PICK g : GoesOn(N, V, <<>>, F, g)
    <2>. HIDE DEF F, N, V
    <2>. QED
      BY <1>1, <1>2, StepByStep
  <1>4. ASSUME NEW n \in 1 .. N
        PROVE  next(g[n - 1], n) \in V => g[n] = next(g[n - 1], n)
    <2>1. g[n - 1] \in V
      <3>1. n - 1 \in 0 .. N
        BY <1>1
      <3>. HIDE DEF N, F, V
      <3>. QED
        BY <1>3, <3>1 DEF GoesOn
    <2>2. <<g[n - 1], n>> \in V \X (1 .. N)
      BY <2>1
    <2>3. g[n] = F[<<g[n - 1], n>>]
      BY <1>3 DEF GoesOn
    <2>. HIDE DEF next, N, V
    <2>. QED
      BY <2>2, <2>3
  <1>5. TopChain(map, g)
    <2>1. g[0] = <<>>
      BY <1>3 DEF GoesOn
    <2>. HIDE DEF F
    <2>. QED
      BY <1>4, <2>1 DEF TopChain
  <1>6. \A n \in 0 .. N : TopOK(map, g[n], n)
    BY <1>5, TopOfChain
  <1>7. ASSUME NEW n \in 1 .. N
        PROVE  g[n] = next(g[n - 1], n)
    <2>1. n - 1 \in 0 .. N
      BY <1>1
    <2>2. TopOK(map, g[n - 1], n - 1)
      BY <1>6, <2>1
    <2>3. TopOK(map, Inserted(g[n - 1], map[n]), n)
      BY <2>2, InsertedTop
    <2>. QED
      BY <1>4, <2>3 DEF TopOK
  <1>8. g = [n \in 0 .. Len(map) |->
               IF n = 0 THEN <<>> ELSE Inserted(g[n - 1], map[n])]
    <2>1. ASSUME NEW n \in 0 .. N
          PROVE  g[n] = IF n = 0 THEN <<>> ELSE Inserted(g[n - 1], map[n])
      <3>1. n = 0 \/ n \in 1 .. N
        BY <1>1
      <3>2. g[0] = <<>>
        BY <1>3 DEF GoesOn
      <3>. HIDE DEF F
      <3>. QED
        BY <1>7, <3>1, <3>2
    <2>2. g \in [0 .. N -> V]
      BY <1>3 DEF GoesOn
    <2>. HIDE DEF F, next, V
    <2>. QED
      BY <2>1, <2>2
  <1>. DEFINE A == CHOOSE top :
                top = [n \in 0 .. Len(map) |->
                         IF n = 0 THEN <<>> ELSE Inserted(top[n - 1], map[n])]
  <1>9. TopMetrics(map) = A[N]
    BY DEF TopMetrics
  <1>10. A = [n \in 0 .. N |->
                IF n = 0 THEN <<>> ELSE Inserted(A[n - 1], map[n])]
    <2>. HIDE DEF F, next, V
    <2>. QED
      BY <1>8
  <1>. HIDE DEF A
  <1>11. TopChain(map, A)
    <2>1. 0 \in 0 .. N /\ \A n \in 1 .. N : n \in 0 .. N /\ n # 0
      BY <1>1
    <2>2. A[0] = <<>> /\ \A n \in 1 .. N : A[n] = Inserted(A[n - 1], map[n])
      <3>. HIDE DEF N, F
      <3>. QED
        BY <1>10, <2>1
    <2>. QED
      BY <2>2 DEF TopChain
  <1>12. N \in 0 .. N
    BY <1>1
  <1>13. TopOK(map, A[N], N)
    BY <1>11, <1>12, TopOfChain
  <1>. QED
    BY <1>9, <1>13

LEMMA TopMetricsIsTop ==
  ASSUME NEW map \in Seq(MetricRow)
  PROVE  IsTop(TopMetrics(map), map)
  <1>. DEFINE top == TopMetrics(map)
  <1>1. TopOK(map, top, Len(map))
    BY TopMetricsTop
  <1>. HIDE DEF top
  <1>2. /\ top \in Seq(MetricRow) /\ DOMAIN top = 1 .. Len(top)
        /\ DOMAIN map = 1 .. Len(map)
    BY <1>1 DEF TopOK
  <1>3. Len(top) = Smaller(TopLimit, Len(map))
    BY <1>1 DEF TopOK
  <1>4. \A i, j \in DOMAIN top : i < j => top[i].total >= top[j].total
    BY <1>1, <1>2 DEF TopOK, Sorted
  <1>5. ASSUME NEW row \in ToSet(map) \ ToSet(top), NEW r \in ToSet(top)
        PROVE  r.total >= row.total
    <2>1. PICK i \in 1 .. Len(map) : row = map[i]
      BY <1>2 DEF ToSet
    <2>. QED
      BY <1>1, <1>5, <2>1 DEF TopOK
  <1>. QED
    BY <1>3, <1>4, <1>5 DEF IsTop, top

-----------------------------------------------------------------------------
(* Garbage collection in a long task.                                      *)

LEMMA OverlapIs ==
  ASSUME NEW a \in TaskEvent, NEW b \in TaskEvent
  PROVE  /\ OverlapOf(a, b) \in Nat
         /\ (\E t \in Int : /\ t >= a.ts /\ t < a.ts + a.dur
                            /\ t >= b.ts /\ t < b.ts + b.dur)
              => OverlapOf(a, b) > 0
         /\ LET O == { t \in a.ts .. a.ts + a.dur - 1 :
                         t >= b.ts /\ t < b.ts + b.dur }
            IN IsFiniteSet(O) /\ Cardinality(O) = OverlapOf(a, b)
  <1>. DEFINE lo == Larger(a.ts, b.ts)
              hi == Smaller(a.ts + a.dur, b.ts + b.dur)
              O == { t \in a.ts .. a.ts + a.dur - 1 :
                       t >= b.ts /\ t < b.ts + b.dur }
  <1>1. a.ts \in Nat /\ a.dur \in Nat /\ b.ts \in Nat /\ b.dur \in Nat
    BY DEF TaskEvent
  <1>2. /\ lo \in Int /\ lo >= a.ts /\ lo >= b.ts /\ (lo = a.ts \/ lo = b.ts)
        /\ hi \in Int /\ hi <= a.ts + a.dur /\ hi <= b.ts + b.dur
        /\ (hi = a.ts + a.dur \/ hi = b.ts + b.dur)
    BY <1>1 DEF Larger, Smaller
  <1>3. OverlapOf(a, b) = Larger(0, hi - lo)
    BY DEF OverlapOf
  <1>. HIDE DEF lo, hi
  <1>4. OverlapOf(a, b) = IF hi - lo < 0 THEN 0 ELSE hi - lo
    BY <1>2, <1>3 DEF Larger
  <1>5. O = lo .. hi - 1
    BY <1>1, <1>2
  <1>. HIDE DEF O
  <1>6. /\ IsFiniteSet(lo .. hi - 1)
        /\ Cardinality(lo .. hi - 1) =
             IF lo > hi - 1 THEN 0 ELSE hi - 1 - lo + 1
    <2>1. lo \in Int /\ hi - 1 \in Int
      BY <1>2
    <2>. QED
      BY <2>1, FS_Interval
  <1>7. Cardinality(O) = OverlapOf(a, b)
    BY <1>2, <1>4, <1>5, <1>6
  <1>8. ASSUME NEW t \in Int, t >= a.ts, t < a.ts + a.dur,
               t >= b.ts, t < b.ts + b.dur
        PROVE  OverlapOf(a, b) > 0
    BY <1>1, <1>2, <1>4, <1>8
  <1>9. OverlapOf(a, b) \in Nat
    BY <1>2, <1>4
  <1>10. IsFiniteSet(O) /\ Cardinality(O) = OverlapOf(a, b)
    BY <1>5, <1>6, <1>7
  <1>. QED
    BY <1>8, <1>9, <1>10 DEF O

Overlaps2(task, gc) == [n \in 1 .. Len(gc) |-> OverlapOf(task, gc[n])]

LEMMA GcOverlapIs ==
  ASSUME NEW task \in TaskEvent, NEW gc \in Seq(TaskEvent)
  PROVE  \E s : /\ SumsOf(Len(gc), Overlaps2(task, gc), s)
                /\ GcOverlap(task, gc) = s[Len(gc)]
  <1>. DEFINE N == Len(gc)
              w == Overlaps2(task, gc)
              g == SumTo(N, w)
  <1>1. N \in Nat
    OBVIOUS
  <1>2. w \in [1 .. N -> Nat]
    <2>1. \A n \in 1 .. N : OverlapOf(task, gc[n]) \in Nat
      <3>1. \A n \in 1 .. N : gc[n] \in TaskEvent
        OBVIOUS
      <3>. QED
        BY <3>1, OverlapIs
    <2>. QED
      BY <2>1 DEF Overlaps2
  <1>3. SumsOf(N, w, g)
    BY <1>1, <1>2, SumToIs
  <1>4. \A n \in 1 .. N : w[n] = OverlapOf(task, gc[n])
    BY DEF Overlaps2
  <1>. HIDE DEF g, w
  <1>5. g = [n \in 0 .. Len(gc) |->
               IF n = 0 THEN 0 ELSE g[n - 1] + OverlapOf(task, gc[n])]
    <2>1. ASSUME NEW n \in 0 .. N
          PROVE  g[n] = IF n = 0 THEN 0
                        ELSE g[n - 1] + OverlapOf(task, gc[n])
      <3>1. n = 0 \/ n \in 1 .. N
        BY <1>1
      <3>. HIDE DEF N
      <3>. QED
        BY <1>3, <1>4, <3>1 DEF SumsOf
    <2>2. g \in [0 .. N -> Nat]
      BY <1>3 DEF SumsOf
    <2>. QED
      BY <2>1, <2>2
  <1>. DEFINE A == CHOOSE sum :
                sum = [n \in 0 .. Len(gc) |->
                         IF n = 0 THEN 0
                         ELSE sum[n - 1] + OverlapOf(task, gc[n])]
  <1>6. GcOverlap(task, gc) = A[N]
    BY DEF GcOverlap
  <1>7. A = [n \in 0 .. N |->
               IF n = 0 THEN 0 ELSE A[n - 1] + OverlapOf(task, gc[n])]
    BY <1>5
  <1>. HIDE DEF A
  <1>8. A[0] = 0 /\ \A n \in 1 .. N : A[n] = A[n - 1] + w[n]
    <2>1. 0 \in 0 .. N /\ \A n \in 1 .. N : n \in 0 .. N /\ n # 0
      BY <1>1
    <2>. HIDE DEF N
    <2>. QED
      BY <1>4, <1>7, <2>1
  <1>9. \A n \in 0 .. N : A[n] \in Nat
    <2>. DEFINE P == { n \in 0 .. N : A[n] \in Nat }
    <2>1. 0 \in P /\ P \in SUBSET (0 .. N)
      BY <1>1, <1>8
    <2>2. ASSUME NEW k \in 0 .. N - 1, k \in P
          PROVE  k + 1 \in P
      <3>1. k + 1 \in 1 .. N /\ k + 1 \in 0 .. N /\ k + 1 - 1 = k
        BY <1>1
      <3>2. A[k + 1] = A[k] + w[k + 1] /\ w[k + 1] \in Nat
        <4>. HIDE DEF N
        <4>. QED
          BY <1>2, <1>8, <3>1
      <3>. QED
        BY <2>2, <3>1, <3>2
    <2>3. P = 0 .. N
      <3>. HIDE DEF N, P
      <3>. QED
        BY <1>1, <2>1, <2>2, UpTo
    <2>. QED
      BY <2>3
  <1>10. SumsOf(N, w, A)
    <2>1. A \in [0 .. N -> Nat]
      <3>. HIDE DEF N
      <3>. QED
        BY <1>7, <1>9
    <2>. QED
      BY <1>8, <2>1 DEF SumsOf
  <1>. QED
    BY <1>6, <1>10 DEF w

\* The units of the task in which one of the first n collections runs.
UnitsUpTo(task, gc, n) ==
  { t \in task.ts .. task.ts + task.dur - 1 :
      \E i \in 1 .. n : t >= gc[i].ts /\ t < gc[i].ts + gc[i].dur }

LEMMA OverlapsAreUnits ==
  ASSUME NEW task \in TaskEvent, NEW gc \in Seq(TaskEvent),
         \A i, j \in 1 .. Len(gc) : i # j => ~(OverlapOf(gc[i], gc[j]) > 0)
  PROVE  GcOverlap(task, gc) = Cardinality(GcUnits(task, gc))
  <1>. DEFINE N == Len(gc)
              w == Overlaps2(task, gc)
  <1>1. N \in Nat /\ task.ts \in Nat /\ task.dur \in Nat
    BY DEF TaskEvent
  <1>2. PICK s : SumsOf(N, w, s) /\ GcOverlap(task, gc) = s[N]
    BY GcOverlapIs
  <1>3. \A n \in 1 .. N : w[n] = OverlapOf(task, gc[n])
    BY DEF Overlaps2
  <1>. HIDE DEF w
  <1>4. \A i \in 1 .. N : gc[i] \in TaskEvent
    OBVIOUS
  <1>. DEFINE U(n) == UnitsUpTo(task, gc, n)
              P == { n \in 0 .. N :
                       IsFiniteSet(U(n)) /\ s[n] = Cardinality(U(n)) }
  <1>5. 0 \in P
    <2>1. U(0) = {}
      BY DEF UnitsUpTo
    <2>. HIDE DEF U
    <2>2. s[0] = 0 /\ 0 \in 0 .. N
      BY <1>1, <1>2 DEF SumsOf
    <2>. QED
      BY <2>1, <2>2, FS_EmptySet
  <1>6. ASSUME NEW k \in 0 .. N - 1, k \in P
        PROVE  k + 1 \in P
    <2>. DEFINE n == k + 1
                O == { t \in task.ts .. task.ts + task.dur - 1 :
                         t >= gc[n].ts /\ t < gc[n].ts + gc[n].dur }
    <2>1. n \in 1 .. N /\ n \in 0 .. N /\ n - 1 = k /\ k \in Nat
          /\ 1 .. n = (1 .. k) \cup {n}
      BY <1>1
    <2>2. IsFiniteSet(O) /\ Cardinality(O) = OverlapOf(task, gc[n])
      BY <1>4, <2>1, OverlapIs
    <2>3. U(n) = U(k) \cup O
      BY <2>1 DEF UnitsUpTo
    <2>4. U(k) \cap O = {}
      <3>1. ASSUME NEW t \in U(k), t \in O
            PROVE  FALSE
        <4>1. PICK i \in 1 .. k : t >= gc[i].ts /\ t < gc[i].ts + gc[i].dur
          BY DEF UnitsUpTo
        <4>2. t \in Int /\ t >= gc[n].ts /\ t < gc[n].ts + gc[n].dur
          BY <1>1, <3>1
        <4>3. i \in 1 .. N /\ i # n
          BY <1>1, <2>1
        <4>4. OverlapOf(gc[i], gc[n]) > 0
          <5>1. gc[i] \in TaskEvent /\ gc[n] \in TaskEvent
            BY <1>4, <2>1, <4>3
          <5>. HIDE DEF n, O
          <5>. QED
            BY <4>1, <4>2, <5>1, OverlapIs
        <4>. HIDE DEF n
        <4>. QED
          BY <2>1, <4>3, <4>4
      <3>. HIDE DEF U, O
      <3>. QED
        BY <3>1
    <2>5. s[n] = s[k] + w[n] /\ w[n] = OverlapOf(task, gc[n])
          /\ s[k] \in Nat /\ w[n] \in Nat
      <3>1. k \in 0 .. N
        BY <1>1
      <3>2. OverlapOf(task, gc[n]) \in Nat
        BY <1>4, <2>1, OverlapIs
      <3>. HIDE DEF n
      <3>. QED
        BY <1>2, <1>3, <2>1, <3>1, <3>2 DEF SumsOf
    <2>6. IsFiniteSet(U(k)) /\ s[k] = Cardinality(U(k))
      BY <1>6
    <2>. HIDE DEF U, O, n
    <2>7. /\ IsFiniteSet(U(k) \cup O)
          /\ Cardinality(U(k) \cup O) =
               Cardinality(U(k)) + Cardinality(O) - Cardinality(U(k) \cap O)
      BY <2>2, <2>6, FS_Union
    <2>8. Cardinality(U(k) \cap O) = 0
      BY <2>4, FS_EmptySet
    <2>9. IsFiniteSet(U(n)) /\ s[n] = Cardinality(U(n))
      BY <2>2, <2>3, <2>5, <2>6, <2>7, <2>8
    <2>. QED
      BY <2>1, <2>9 DEF n
  <1>7. P = 0 .. N
    <2>1. P \in SUBSET (0 .. N)
      OBVIOUS
    <2>. HIDE DEF P, N
    <2>. QED
      BY <1>1, <1>5, <1>6, <2>1, UpTo
  <1>8. N \in P
    <2>1. N \in 0 .. N
      BY <1>1
    <2>. HIDE DEF P, N
    <2>. QED
      BY <1>7, <2>1
  <1>9. U(N) = GcUnits(task, gc)
    <2>1. DOMAIN gc = 1 .. N
      OBVIOUS
    <2>. QED
      BY <2>1 DEF UnitsUpTo, GcUnits, ToSet
  <1>. QED
    BY <1>2, <1>8, <1>9
-----------------------------------------------------------------------------
(* The marks of a section.                                                 *)

MarksOf(section) ==
  IF section = "send" THEN RequiredMarks(section)
  ELSE Append(RequiredMarks(section), "metric:marks-complete")

Distinct(s) == \A i, j \in 1 .. Len(s) : s[i] = s[j] => i = j

\* A window is from a mark to a later one.
InOrder(s, window) ==
  \E p, q \in 1 .. Len(s) : p < q /\ s[p] = window[1] /\ s[q] = window[2]

SectionOK(section) ==
  LET s == RequiredMarks(section) IN
  /\ Len(s) \in Nat \ {0, 1} /\ s \in Seq(ToSet(s)) /\ Distinct(s)
  /\ s[1] = "start" /\ s[Len(s)] = "end"
  /\ \A i \in 1 .. Len(s) : s[i] # "metric:marks-complete"
  /\ \A w \in Windows(section) : InOrder(s, w)

LEMMA SendMarks == SectionOK("send")
  <1>. DEFINE s == RequiredMarks("send")
  <1>1. s = <<"start", "trigger:start", "synthetic-pointerup",
              "synthetic-click", "trigger:end", "microtask:start",
              "microtask:end", "commit:start", "commit:end", "end">>
    BY DEF RequiredMarks
  <1>. HIDE DEF s
  <1>2. Len(s) = 10 /\ DOMAIN s = 1 .. 10
    BY <1>1
  <1>3. s[1] = "start" /\ s[10] = "end"
    BY <1>1
  <1>4. \A i \in 1 .. 10 : s[i] # "metric:marks-complete"
    BY <1>1
  <1>5. \A i, j \in 1 .. 10 : s[i] = s[j] => i = j
    BY <1>1
  <1>6. Windows("send") = {}
    BY DEF Windows
  <1>7. Len(s) \in Nat \ {0, 1} /\ Distinct(s) /\ s[Len(s)] = "end"
    BY <1>2, <1>3, <1>5 DEF Distinct
  <1>8. s \in Seq(ToSet(s))
    BY <1>1, <1>2 DEF ToSet
  <1>9. \A i \in 1 .. Len(s) : s[i] # "metric:marks-complete"
    BY <1>2, <1>4
  <1>. QED
    BY <1>3, <1>6, <1>7, <1>8, <1>9, Zenon DEF SectionOK, s

LEMMA F0Marks == SectionOK("f0")
  <1>. DEFINE s == RequiredMarks("f0")
  <1>1. s = <<"start", "trigger:start", "synthetic-pointerup",
              "synthetic-click", "trigger:end", "flush:start",
              "microtask:start", "react-commit:start", "react-commit:end",
              "flush:end", "end">>
    BY DEF RequiredMarks
  <1>. HIDE DEF s
  <1>2. Len(s) = 11 /\ DOMAIN s = 1 .. 11
    BY <1>1
  <1>3. s[1] = "start" /\ s[11] = "end"
    BY <1>1
  <1>4. \A i \in 1 .. 11 : s[i] # "metric:marks-complete"
    BY <1>1
  <1>5. \A i, j \in 1 .. 11 : s[i] = s[j] => i = j
    BY <1>1
  <1>6. \A w \in Windows("f0") : InOrder(s, w)
    <2>1. ASSUME NEW p \in 1 .. 11, NEW q \in 1 .. 11, p < q,
                 NEW a, NEW b, a = s[p], b = s[q]
          PROVE  InOrder(s, <<a, b>>)
      BY <1>2, <2>1 DEF InOrder
    <2>2. InOrder(s, <<"trigger:start", "trigger:end">>)
      <3>1. s[2] = "trigger:start" /\ s[5] = "trigger:end"
        BY <1>1
      <3>2. 2 \in 1 .. 11 /\ 5 \in 1 .. 11 /\ 2 < 5
        OBVIOUS
      <3>. QED
        BY <2>1, <3>1, <3>2
    <2>3. InOrder(s, <<"flush:start", "flush:end">>)
      <3>1. s[6] = "flush:start" /\ s[10] = "flush:end"
        BY <1>1
      <3>2. 6 \in 1 .. 11 /\ 10 \in 1 .. 11 /\ 6 < 10
        OBVIOUS
      <3>. QED
        BY <2>1, <3>1, <3>2
    <2>4. InOrder(s, <<"microtask:start", "flush:end">>)
      <3>1. s[7] = "microtask:start" /\ s[10] = "flush:end"
        BY <1>1
      <3>2. 7 \in 1 .. 11 /\ 10 \in 1 .. 11 /\ 7 < 10
        OBVIOUS
      <3>. QED
        BY <2>1, <3>1, <3>2
    <2>. QED
      BY <2>2, <2>3, <2>4 DEF Windows
  <1>7. Len(s) \in Nat \ {0, 1} /\ Distinct(s) /\ s[Len(s)] = "end"
    BY <1>2, <1>3, <1>5 DEF Distinct
  <1>8. s \in Seq(ToSet(s))
    BY <1>1, <1>2 DEF ToSet
  <1>9. \A i \in 1 .. Len(s) : s[i] # "metric:marks-complete"
    BY <1>2, <1>4
  <1>. QED
    BY <1>3, <1>6, <1>7, <1>8, <1>9, Zenon DEF SectionOK, s

LEMMA F1Marks == SectionOK("f1")
  <1>. DEFINE s == RequiredMarks("f1")
  <1>1. s = <<"start", "trigger:start", "trigger:end",
              "dispatch-to-worker:start", "dispatch-to-worker:end",
              "worker-result:received", "projection-commit:start",
              "projection-commit:end", "end">>
    BY DEF RequiredMarks
  <1>. HIDE DEF s
  <1>2. Len(s) = 9 /\ DOMAIN s = 1 .. 9
    BY <1>1
  <1>3. s[1] = "start" /\ s[9] = "end"
    BY <1>1
  <1>4. \A i \in 1 .. 9 : s[i] # "metric:marks-complete"
    BY <1>1
  <1>5. \A i, j \in 1 .. 9 : s[i] = s[j] => i = j
    BY <1>1
  <1>6. \A w \in Windows("f1") : InOrder(s, w)
    <2>1. ASSUME NEW p \in 1 .. 9, NEW q \in 1 .. 9, p < q,
                 NEW a, NEW b, a = s[p], b = s[q]
          PROVE  InOrder(s, <<a, b>>)
      BY <1>2, <2>1 DEF InOrder
    <2>2. InOrder(s, <<"trigger:start", "trigger:end">>)
      <3>1. s[2] = "trigger:start" /\ s[3] = "trigger:end"
        BY <1>1
      <3>2. 2 \in 1 .. 9 /\ 3 \in 1 .. 9 /\ 2 < 3
        OBVIOUS
      <3>. QED
        BY <2>1, <3>1, <3>2
    <2>3. InOrder(s, <<"dispatch-to-worker:start", "dispatch-to-worker:end">>)
      <3>1. /\ s[4] = "dispatch-to-worker:start"
            /\ s[5] = "dispatch-to-worker:end"
        BY <1>1
      <3>2. 4 \in 1 .. 9 /\ 5 \in 1 .. 9 /\ 4 < 5
        OBVIOUS
      <3>. QED
        BY <2>1, <3>1, <3>2
    <2>4. InOrder(s, <<"dispatch-to-worker:start", "worker-result:received">>)
      <3>1. /\ s[4] = "dispatch-to-worker:start"
            /\ s[6] = "worker-result:received"
        BY <1>1
      <3>2. 4 \in 1 .. 9 /\ 6 \in 1 .. 9 /\ 4 < 6
        OBVIOUS
      <3>. QED
        BY <2>1, <3>1, <3>2
    <2>5. InOrder(s, <<"projection-commit:start", "projection-commit:end">>)
      <3>1. s[7] = "projection-commit:start" /\ s[8] = "projection-commit:end"
        BY <1>1
      <3>2. 7 \in 1 .. 9 /\ 8 \in 1 .. 9 /\ 7 < 8
        OBVIOUS
      <3>. QED
        BY <2>1, <3>1, <3>2
    <2>6. InOrder(s, <<"worker-result:received", "end">>)
      <3>1. s[6] = "worker-result:received" /\ s[9] = "end"
        BY <1>1
      <3>2. 6 \in 1 .. 9 /\ 9 \in 1 .. 9 /\ 6 < 9
        OBVIOUS
      <3>. QED
        BY <2>1, <3>1, <3>2
    <2>. QED
      BY <2>2, <2>3, <2>4, <2>5, <2>6 DEF Windows
  <1>7. Len(s) \in Nat \ {0, 1} /\ Distinct(s) /\ s[Len(s)] = "end"
    BY <1>2, <1>3, <1>5 DEF Distinct
  <1>8. s \in Seq(ToSet(s))
    BY <1>1, <1>2 DEF ToSet
  <1>9. \A i \in 1 .. Len(s) : s[i] # "metric:marks-complete"
    BY <1>2, <1>4
  <1>. QED
    BY <1>3, <1>6, <1>7, <1>8, <1>9, Zenon DEF SectionOK, s

LEMMA F2Marks == SectionOK("f2")
  <1>. DEFINE s == RequiredMarks("f2")
  <1>1. s = <<"start", "trigger:start", "trigger:end",
              "heavy-dispatch:start", "heavy-dispatch:end",
              "urgent-request:start", "urgent-request:end",
              "urgent-result:received", "urgent-projection-commit:start",
              "urgent-projection-commit:end", "heavy-result:received",
              "heavy-projection-commit:start",
              "heavy-projection-commit:end", "end">>
    BY DEF RequiredMarks
  <1>. HIDE DEF s
  <1>2. Len(s) = 14 /\ DOMAIN s = 1 .. 14
    BY <1>1
  <1>3. s[1] = "start" /\ s[14] = "end"
    BY <1>1
  <1>4. \A i \in 1 .. 14 : s[i] # "metric:marks-complete"
    BY <1>1
  <1>5. \A i, j \in 1 .. 14 : s[i] = s[j] => i = j
    BY <1>1
  <1>6. \A w \in Windows("f2") : InOrder(s, w)
    <2>1. ASSUME NEW p \in 1 .. 14, NEW q \in 1 .. 14, p < q,
                 NEW a, NEW b, a = s[p], b = s[q]
          PROVE  InOrder(s, <<a, b>>)
      BY <1>2, <2>1 DEF InOrder
    <2>2. InOrder(s, <<"trigger:start", "trigger:end">>)
      <3>1. s[2] = "trigger:start" /\ s[3] = "trigger:end"
        BY <1>1
      <3>2. 2 \in 1 .. 14 /\ 3 \in 1 .. 14 /\ 2 < 3
        OBVIOUS
      <3>. QED
        BY <2>1, <3>1, <3>2
    <2>3. InOrder(s, <<"heavy-dispatch:start", "heavy-dispatch:end">>)
      <3>1. s[4] = "heavy-dispatch:start" /\ s[5] = "heavy-dispatch:end"
        BY <1>1
      <3>2. 4 \in 1 .. 14 /\ 5 \in 1 .. 14 /\ 4 < 5
        OBVIOUS
      <3>. QED
        BY <2>1, <3>1, <3>2
    <2>4. InOrder(s, <<"urgent-request:start", "urgent-request:end">>)
      <3>1. s[6] = "urgent-request:start" /\ s[7] = "urgent-request:end"
        BY <1>1
      <3>2. 6 \in 1 .. 14 /\ 7 \in 1 .. 14 /\ 6 < 7
        OBVIOUS
      <3>. QED
        BY <2>1, <3>1, <3>2
    <2>5. InOrder(s, <<"urgent-request:start", "urgent-result:received">>)
      <3>1. s[6] = "urgent-request:start" /\ s[8] = "urgent-result:received"
        BY <1>1
      <3>2. 6 \in 1 .. 14 /\ 8 \in 1 .. 14 /\ 6 < 8
        OBVIOUS
      <3>. QED
        BY <2>1, <3>1, <3>2
    <2>6. InOrder(s, <<"urgent-projection-commit:start",
                       "urgent-projection-commit:end">>)
      <3>1. /\ s[9] = "urgent-projection-commit:start"
            /\ s[10] = "urgent-projection-commit:end"
        BY <1>1
      <3>2. 9 \in 1 .. 14 /\ 10 \in 1 .. 14 /\ 9 < 10
        OBVIOUS
      <3>. QED
        BY <2>1, <3>1, <3>2
    <2>7. InOrder(s, <<"heavy-dispatch:start", "heavy-result:received">>)
      <3>1. s[4] = "heavy-dispatch:start" /\ s[11] = "heavy-result:received"
        BY <1>1
      <3>2. 4 \in 1 .. 14 /\ 11 \in 1 .. 14 /\ 4 < 11
        OBVIOUS
      <3>. QED
        BY <2>1, <3>1, <3>2
    <2>8. InOrder(s, <<"heavy-projection-commit:start",
                       "heavy-projection-commit:end">>)
      <3>1. /\ s[12] = "heavy-projection-commit:start"
            /\ s[13] = "heavy-projection-commit:end"
        BY <1>1
      <3>2. 12 \in 1 .. 14 /\ 13 \in 1 .. 14 /\ 12 < 13
        OBVIOUS
      <3>. QED
        BY <2>1, <3>1, <3>2
    <2>. QED
      BY <2>2, <2>3, <2>4, <2>5, <2>6, <2>7, <2>8 DEF Windows
  <1>7. Len(s) \in Nat \ {0, 1} /\ Distinct(s) /\ s[Len(s)] = "end"
    BY <1>2, <1>3, <1>5 DEF Distinct
  <1>8. s \in Seq(ToSet(s))
    BY <1>1, <1>2 DEF ToSet
  <1>9. \A i \in 1 .. Len(s) : s[i] # "metric:marks-complete"
    BY <1>2, <1>4
  <1>. QED
    BY <1>3, <1>6, <1>7, <1>8, <1>9, Zenon DEF SectionOK, s

Sections == {"send", "f0", "f1", "f2"}

LEMMA MarksDistinct ==
  ASSUME NEW section \in Sections
  PROVE  /\ SectionOK(section)
         /\ Len(MarksOf(section)) \in Nat
         /\ Len(MarksOf(section)) >= Len(RequiredMarks(section))
         /\ \A i \in 1 .. Len(RequiredMarks(section)) :
              MarksOf(section)[i] = RequiredMarks(section)[i]
         /\ Distinct(MarksOf(section))
  <1>. DEFINE s == RequiredMarks(section)
              ms == MarksOf(section)
              done == "metric:marks-complete"
  <1>1. SectionOK(section)
    BY SendMarks, F0Marks, F1Marks, F2Marks DEF Sections
  <1>2. /\ Len(s) \in Nat /\ s \in Seq(ToSet(s)) /\ Distinct(s)
        /\ \A i \in 1 .. Len(s) : s[i] # done
    BY <1>1 DEF SectionOK
  <1>3. ms = s \/ ms = Append(s, done)
    BY DEF MarksOf
  <1>. HIDE DEF s, ms
  <1>4. CASE ms = s
    BY <1>1, <1>2, <1>4 DEF s, ms
  <1>5. CASE ms = Append(s, done)
    <2>2. /\ Len(ms) = Len(s) + 1
          /\ \A i \in 1 .. Len(s) : ms[i] = s[i]
          /\ ms[Len(s) + 1] = done
      BY <1>2, <1>5
    <2>3. Distinct(ms)
      <3>1. ASSUME NEW i \in 1 .. Len(s) + 1, NEW j \in 1 .. Len(s) + 1,
                   ms[i] = ms[j]
            PROVE  i = j
        <4>1. /\ i \in 1 .. Len(s) \/ i = Len(s) + 1
              /\ j \in 1 .. Len(s) \/ j = Len(s) + 1
          BY <1>2
        <4>. QED
          BY <1>2, <2>2, <3>1, <4>1 DEF Distinct
      <3>. QED
        BY <2>2, <3>1 DEF Distinct
    <2>. QED
      BY <1>1, <1>2, <2>2, <2>3 DEF s, ms
  <1>. QED
    BY <1>3, <1>4, <1>5

MarkAt(ms, i) == [kind |-> "mark", name |-> ms[i], ts |-> 2 * i]

\* What a trace may have when the first marks, up to n, were made.
EventsOf(ms, n) == { MarkAt(ms, i) : i \in 1 .. n - 1 } \cup Work

TraceOK(ms, n, evs, missing) ==
  /\ evs \in Seq(EventsOf(ms, n))
  /\ \A i, j \in 1 .. Len(evs) : evs[i] = evs[j] => i = j
  /\ missing = 0 =>
       \A i \in 1 .. n - 1 :
         \E j \in 1 .. Len(evs) : evs[j] = MarkAt(ms, i)

TraceIInv ==
  /\ plan.section \in Sections
  /\ nextMark \in 1 .. Len(Marks) + 1
  /\ lost \in Nat
  /\ TraceOK(Marks, nextMark, trace, lost)

LEMMA MarksAreOf == Marks = MarksOf(plan.section)
  BY DEF Marks, MarksOf, Section

LEMMA WorkIsNoMark ==
  ASSUME NEW e \in Work
  PROVE  e.kind # "mark" /\ (e.kind = "task" => e \in TaskEvent)
  BY WorkAssumption DEF TaskEvent, ThreadEvent

LEMMA MarkIsMark ==
  ASSUME NEW ms, NEW i
  PROVE  /\ MarkAt(ms, i).kind = "mark"
         /\ MarkAt(ms, i).name = ms[i]
         /\ MarkAt(ms, i).ts = 2 * i
  BY DEF MarkAt

LEMMA TraceInitIInv == TraceInit => TraceIInv
  <1>. SUFFICES ASSUME TraceInit PROVE TraceIInv
    OBVIOUS
  <1>1. plan.section \in Sections
    BY PlanAssumption DEF TraceInit, Sections
  <1>2. Len(Marks) \in Nat
    BY <1>1, MarksAreOf, MarksDistinct
  <1>3. TraceOK(Marks, 1, <<>>, 0)
    <2>1. 1 .. 1 - 1 = {} /\ <<>> \in Seq(EventsOf(Marks, 1)) /\ Len(<<>>) = 0
      OBVIOUS
    <2>. QED
      BY <2>1 DEF TraceOK
  <1>. QED
    BY <1>1, <1>2, <1>3 DEF TraceInit, TraceIInv

LEMMA MoreEvents ==
  ASSUME NEW ms, NEW n \in Nat, NEW evs,
         evs \in Seq(EventsOf(ms, n))
  PROVE  evs \in Seq(EventsOf(ms, n + 1))
  <1>1. EventsOf(ms, n) \subseteq EventsOf(ms, n + 1)
    <2>1. 1 .. n - 1 \subseteq 1 .. (n + 1) - 1
      OBVIOUS
    <2>. QED
      BY <2>1 DEF EventsOf
  <1>. QED
    BY <1>1, SeqMonotonic

\* One more event that the trace did not have.
LEMMA AppendedEvent ==
  ASSUME NEW V, NEW evs \in Seq(V), NEW e \in V,
         \A i \in 1 .. Len(evs) : evs[i] # e,
         \A i, j \in 1 .. Len(evs) : evs[i] = evs[j] => i = j
  PROVE  LET longer == Append(evs, e) IN
         /\ longer \in Seq(V) /\ Len(longer) = Len(evs) + 1
         /\ \A i \in 1 .. Len(evs) : longer[i] = evs[i]
         /\ longer[Len(evs) + 1] = e
         /\ \A i, j \in 1 .. Len(longer) : longer[i] = longer[j] => i = j
  <1>. DEFINE longer == Append(evs, e)
              k == Len(evs)
  <1>1. /\ longer \in Seq(V) /\ Len(longer) = k + 1 /\ k \in Nat
        /\ \A i \in 1 .. k : longer[i] = evs[i]
        /\ longer[k + 1] = e
    OBVIOUS
  <1>. HIDE DEF longer
  <1>2. ASSUME NEW i \in 1 .. k + 1, NEW j \in 1 .. k + 1,
               longer[i] = longer[j]
        PROVE  i = j
    <2>1. (i \in 1 .. k \/ i = k + 1) /\ (j \in 1 .. k \/ j = k + 1)
      BY <1>1
    <2>. QED
      BY <1>1, <1>2, <2>1
  <1>. QED
    BY <1>1, <1>2 DEF longer

LEMMA TraceStep == TraceIInv /\ [TraceNext]_traceVars => TraceIInv'
  <1>. SUFFICES ASSUME TraceIInv, [TraceNext]_traceVars PROVE TraceIInv'
    OBVIOUS
  <1>. DEFINE ms == Marks
              n == nextMark
  <1>1. /\ plan.section \in Sections /\ n \in 1 .. Len(ms) + 1
        /\ lost \in Nat /\ TraceOK(ms, n, trace, lost)
        /\ Len(ms) \in Nat
    BY MarksAreOf, MarksDistinct DEF TraceIInv
  <1>2. /\ trace \in Seq(EventsOf(ms, n)) /\ Len(trace) \in Nat
        /\ DOMAIN trace = 1 .. Len(trace)
        /\ \A i, j \in 1 .. Len(trace) : trace[i] = trace[j] => i = j
        /\ lost = 0 =>
             \A i \in 1 .. n - 1 :
               \E j \in 1 .. Len(trace) : trace[j] = MarkAt(ms, i)
    BY <1>1 DEF TraceOK
  <1>3. CASE Mark
    <2>. DEFINE e == MarkAt(ms, n)
                longer == Append(trace, e)
    <2>1. /\ n <= Len(ms) /\ nextMark' = n + 1 /\ trace' = longer
          /\ plan' = plan /\ lost' = lost /\ ms' = ms
      BY <1>3 DEF Mark, MarkAt, Marks, Section
    <2>2. n \in Nat /\ n + 1 \in 1 .. Len(ms) + 1
      BY <1>1, <2>1
    <2>. HIDE DEF ms
    <2>3. e \in EventsOf(ms, n + 1)
      <3>1. n \in 1 .. (n + 1) - 1
        BY <1>1
      <3>. QED
        BY <3>1 DEF EventsOf
    <2>4. ASSUME NEW i \in 1 .. Len(trace)
          PROVE  trace[i] # e
      <3>1. trace[i] \in EventsOf(ms, n)
        BY <1>2
      <3>2. CASE trace[i] \in Work
        BY <3>2, WorkIsNoMark, MarkIsMark
      <3>3. ASSUME NEW k \in 1 .. n - 1, trace[i] = MarkAt(ms, k)
            PROVE  trace[i] # e
        <4>1. 2 * k # 2 * n
          BY <2>2
        <4>2. trace[i].ts = 2 * k /\ e.ts = 2 * n
          BY <3>3, MarkIsMark
        <4>. QED
          BY <4>1, <4>2
      <3>. QED
        BY <3>1, <3>2, <3>3 DEF EventsOf
    <2>5. trace \in Seq(EventsOf(ms, n + 1))
      BY <1>2, <2>2, MoreEvents
    <2>. HIDE DEF e
    <2>6. /\ longer \in Seq(EventsOf(ms, n + 1))
          /\ Len(longer) = Len(trace) + 1
          /\ \A i \in 1 .. Len(trace) : longer[i] = trace[i]
          /\ longer[Len(trace) + 1] = e
          /\ \A i, j \in 1 .. Len(longer) : longer[i] = longer[j] => i = j
      BY <1>2, <2>3, <2>4, <2>5, AppendedEvent
    <2>. HIDE DEF longer
    <2>7. ASSUME lost = 0, NEW i \in 1 .. (n + 1) - 1
          PROVE  \E j \in 1 .. Len(longer) : longer[j] = MarkAt(ms, i)
      <3>1. CASE i = n
        <4>1. Len(trace) + 1 \in 1 .. Len(longer)
          BY <1>2, <2>6
        <4>. QED
          BY <2>6, <3>1, <4>1 DEF e
      <3>2. CASE i # n
        <4>1. i \in 1 .. n - 1
          BY <2>2, <3>2
        <4>2. PICK j \in 1 .. Len(trace) : trace[j] = MarkAt(ms, i)
          BY <1>2, <2>7, <4>1
        <4>3. j \in 1 .. Len(longer) /\ longer[j] = trace[j]
          BY <1>2, <2>6
        <4>. QED
          BY <4>2, <4>3
      <3>. QED
        BY <3>1, <3>2
    <2>8. TraceOK(ms, n + 1, longer, lost)
      <3>1. lost = 0 =>
              \A i \in 1 .. (n + 1) - 1 :
                \E j \in 1 .. Len(longer) : longer[j] = MarkAt(ms, i)
        BY <2>7
      <3>. QED
        BY <2>6, <3>1 DEF TraceOK
    <2>9. TraceOK(ms, n + 1, longer, lost) /\ n + 1 \in 1 .. Len(ms) + 1
      BY <2>2, <2>8
    <2>. HIDE DEF n
    <2>. QED
      BY <1>1, <2>1, <2>9 DEF TraceIInv, ms
  <1>4. CASE LoseMark
    <2>1. /\ n <= Len(ms) /\ nextMark' = n + 1 /\ trace' = trace
          /\ plan' = plan /\ lost' = lost + 1 /\ ms' = ms
      BY <1>4 DEF LoseMark, Marks, Section
    <2>2. n \in Nat /\ n + 1 \in 1 .. Len(ms) + 1 /\ lost + 1 # 0
          /\ lost + 1 \in Nat
      BY <1>1, <2>1
    <2>. HIDE DEF ms
    <2>3. trace \in Seq(EventsOf(ms, n + 1))
      BY <1>2, <2>2, MoreEvents
    <2>4. TraceOK(ms, n + 1, trace, lost + 1)
      BY <1>2, <2>2, <2>3 DEF TraceOK
    <2>. HIDE DEF n
    <2>. QED
      BY <1>1, <2>1, <2>2, <2>4 DEF TraceIInv, ms
  <1>5. ASSUME NEW e \in Work, RunTask(e)
        PROVE  TraceIInv'
    <2>. DEFINE longer == Append(trace, e)
    <2>1. /\ nextMark' = n /\ trace' = longer /\ e \notin ToSet(trace)
          /\ plan' = plan /\ lost' = lost /\ ms' = ms
      BY <1>5 DEF RunTask, Marks, Section
    <2>. HIDE DEF ms
    <2>2. e \in EventsOf(ms, n)
      BY DEF EventsOf
    <2>3. \A i \in 1 .. Len(trace) : trace[i] # e
      BY <1>2, <2>1 DEF ToSet
    <2>4. /\ longer \in Seq(EventsOf(ms, n))
          /\ Len(longer) = Len(trace) + 1
          /\ \A i \in 1 .. Len(trace) : longer[i] = trace[i]
          /\ longer[Len(trace) + 1] = e
          /\ \A i, j \in 1 .. Len(longer) : longer[i] = longer[j] => i = j
      BY <1>2, <2>2, <2>3, AppendedEvent
    <2>. HIDE DEF longer
    <2>5. ASSUME lost = 0, NEW i \in 1 .. n - 1
          PROVE  \E j \in 1 .. Len(longer) : longer[j] = MarkAt(ms, i)
      <3>1. PICK j \in 1 .. Len(trace) : trace[j] = MarkAt(ms, i)
        BY <1>2, <2>5
      <3>2. j \in 1 .. Len(longer) /\ longer[j] = trace[j]
        BY <1>2, <2>4
      <3>. QED
        BY <3>1, <3>2
    <2>6. TraceOK(ms, n, longer, lost)
      BY <2>4, <2>5 DEF TraceOK
    <2>. QED
      BY <1>1, <2>1, <2>6 DEF TraceIInv, ms
  <1>6. CASE UNCHANGED traceVars
    BY <1>1, <1>6 DEF traceVars, TraceIInv, Marks, Section
  <1>. QED
    BY <1>3, <1>4, <1>5, <1>6 DEF TraceNext

(***************************************************************************)
(* A trace has each mark that was made at most once, and the tasks of the  *)
(* threads; nothing but a lost mark is missing.                            *)
(***************************************************************************)
THEOREM TraceInvariant == TraceSpec => []TraceIInv
  <1>. QED
    BY TraceInitIInv, TraceStep, PTL DEF TraceSpec

\* An event of a mark that the page has made.
IsOf(ms, n, e, name) ==
  \E i \in 1 .. n - 1 : e = MarkAt(ms, i) /\ ms[i] = name

LEMMA EventFacts ==
  ASSUME NEW ms, Len(ms) \in Nat, Distinct(ms),
         NEW n \in 1 .. Len(ms) + 1, NEW evs, NEW missing,
         TraceOK(ms, n, evs, missing)
  PROVE  /\ Len(evs) \in Nat /\ DOMAIN evs = 1 .. Len(evs)
         /\ TasksIn(evs)
         /\ \A name : \A j \in 1 .. Len(evs) :
              IsMark(evs[j], name) => IsOf(ms, n, evs[j], name)
         /\ \A name : \A j, k \in 1 .. Len(evs) :
              IsMark(evs[j], name) /\ IsMark(evs[k], name) => j = k
  <1>1. /\ evs \in Seq(EventsOf(ms, n))
        /\ \A i, j \in 1 .. Len(evs) : evs[i] = evs[j] => i = j
    BY DEF TraceOK
  <1>2. ASSUME NEW j \in 1 .. Len(evs)
        PROVE  \/ evs[j] \in Work
               \/ \E i \in 1 .. n - 1 : evs[j] = MarkAt(ms, i)
    <2>1. evs[j] \in EventsOf(ms, n)
      BY <1>1
    <2>. QED
      BY <2>1 DEF EventsOf
  <1>3. ASSUME NEW j \in 1 .. Len(evs), evs[j].kind = "task"
        PROVE  evs[j] \in TaskEvent
    BY <1>2, <1>3, WorkIsNoMark, MarkIsMark
  <1>4. ASSUME NEW name, NEW j \in 1 .. Len(evs), IsMark(evs[j], name)
        PROVE  IsOf(ms, n, evs[j], name)
    <2>1. evs[j].kind = "mark" /\ evs[j].name = name
      BY <1>4 DEF IsMark
    <2>2. evs[j] \notin Work
      BY <2>1, WorkIsNoMark
    <2>3. PICK i \in 1 .. n - 1 : evs[j] = MarkAt(ms, i)
      BY <1>2, <2>2
    <2>4. ms[i] = name
      BY <2>1, <2>3, MarkIsMark
    <2>. QED
      BY <2>3, <2>4 DEF IsOf
  <1>5. ASSUME NEW name, NEW j \in 1 .. Len(evs),
               NEW k \in 1 .. Len(evs),
               IsMark(evs[j], name), IsMark(evs[k], name)
        PROVE  j = k
    <2>1. PICK i \in 1 .. n - 1 :
            evs[j] = MarkAt(ms, i) /\ ms[i] = name
      BY <1>4, <1>5 DEF IsOf
    <2>2. PICK l \in 1 .. n - 1 :
            evs[k] = MarkAt(ms, l) /\ ms[l] = name
      BY <1>4, <1>5 DEF IsOf
    <2>3. i \in 1 .. Len(ms) /\ l \in 1 .. Len(ms)
      OBVIOUS
    <2>4. i = l
      BY <2>1, <2>2, <2>3 DEF Distinct
    <2>. QED
      BY <1>1, <2>1, <2>2, <2>4
  <1>6. Len(evs) \in Nat /\ DOMAIN evs = 1 .. Len(evs)
    BY <1>1
  <1>7. TasksIn(evs)
    BY <1>3 DEF TasksIn
  <1>. QED
    BY <1>4, <1>5, <1>6, <1>7

\* Each mark is in the sequence at most once.
Once(evs) ==
  /\ Len(evs) \in Nat /\ DOMAIN evs = 1 .. Len(evs)
  /\ \A name : \A j, k \in 1 .. Len(evs) :
       IsMark(evs[j], name) /\ IsMark(evs[k], name) => j = k

LEMMA OnceFound ==
  ASSUME NEW evs, Once(evs), NEW name
  PROVE  /\ FirstMark(evs, name) = LastMark(evs, name)
         /\ \A j \in 1 .. Len(evs) :
              IsMark(evs[j], name) => FirstMark(evs, name) = j
         /\ \/ FirstMark(evs, name) = 0
            \/ /\ FirstMark(evs, name) \in 1 .. Len(evs)
               /\ IsMark(evs[FirstMark(evs, name)], name)
  <1>1. ASSUME NEW j \in 1 .. Len(evs), IsMark(evs[j], name)
        PROVE  FirstMark(evs, name) = j /\ LastMark(evs, name) = j
    <2>1. \A k \in 1 .. Len(evs) : IsMark(evs[k], name) => k = j
      BY <1>1 DEF Once
    <2>2. Len(evs) \in Nat
      BY DEF Once
    <2>. QED
      BY <1>1, <2>1, <2>2, OneMark
  <1>2. ASSUME \A j \in 1 .. Len(evs) : ~IsMark(evs[j], name)
        PROVE  FirstMark(evs, name) = 0 /\ LastMark(evs, name) = 0
    <2>1. Len(evs) \in Nat
      BY DEF Once
    <2>. QED
      BY <1>2, <2>1, NoMark
  <1>3. Len(evs) \in Nat
    BY DEF Once
  <1>4. CASE \A j \in 1 .. Len(evs) : ~IsMark(evs[j], name)
    BY <1>2, <1>4
  <1>5. ASSUME NEW j \in 1 .. Len(evs), IsMark(evs[j], name)
        PROVE  /\ FirstMark(evs, name) = LastMark(evs, name)
               /\ FirstMark(evs, name) \in 1 .. Len(evs)
               /\ IsMark(evs[FirstMark(evs, name)], name)
    <2>1. FirstMark(evs, name) = j /\ LastMark(evs, name) = j
      BY <1>1, <1>5
    <2>. QED
      BY <1>5, <2>1
  <1>. QED
    BY <1>1, <1>4, <1>5

\* In the opposite order a mark is the same event.
LEMMA MarksMirrored ==
  ASSUME NEW N \in Nat, NEW one, NEW other, Once(one), Once(other),
         Len(one) = N, Len(other) = N, Mirrored(N, one, other), NEW name
  PROVE  LET i == FirstMark(one, name)
             j == FirstMark(other, name)
         IN (i = 0 /\ j = 0) \/ (i # 0 /\ j # 0 /\ one[i] = other[j])
  <1>. DEFINE i == FirstMark(one, name)
              j == FirstMark(other, name)
  <1>1. i = 0 \/ (i \in 1 .. N /\ IsMark(one[i], name))
    BY OnceFound
  <1>2. j = 0 \/ (j \in 1 .. N /\ IsMark(other[j], name))
    BY OnceFound
  <1>3. ASSUME NEW k \in 1 .. N, IsMark(one[k], name)
        PROVE  j \in 1 .. N /\ j = N - k + 1 /\ other[j] = one[k]
    <2>1. N - k + 1 \in 1 .. N /\ N - (N - k + 1) + 1 = k
      OBVIOUS
    <2>2. other[N - k + 1] = one[k]
      BY <2>1 DEF Mirrored
    <2>3. j = N - k + 1
      <3>. DEFINE q == N - k + 1
      <3>1. q \in 1 .. Len(other) /\ IsMark(other[q], name)
        BY <1>3, <2>1, <2>2
      <3>. HIDE DEF q
      <3>2. j = q
        BY <3>1, OnceFound
      <3>. QED
        BY <3>2 DEF q
    <2>. QED
      BY <2>1, <2>2, <2>3
  <1>4. ASSUME NEW k \in 1 .. N, IsMark(other[k], name)
        PROVE  i \in 1 .. N
    <2>1. N - k + 1 \in 1 .. N
      OBVIOUS
    <2>2. one[N - k + 1] = other[k]
      BY DEF Mirrored
    <2>. DEFINE q == N - k + 1
    <2>3. q \in 1 .. Len(one) /\ IsMark(one[q], name)
      BY <1>4, <2>1, <2>2
    <2>. HIDE DEF q
    <2>4. i = q
      BY <2>3, OnceFound
    <2>. QED
      BY <2>1, <2>4 DEF q
  <1>. HIDE DEF i, j
  <1>5. CASE i = 0
    <2>1. ~(j \in 1 .. N /\ IsMark(other[j], name))
      <3>1. 0 \notin 1 .. N
        OBVIOUS
      <3>. QED
        BY <1>4, <1>5, <3>1
    <2>. QED
      BY <1>2, <1>5, <2>1 DEF i, j
  <1>6. CASE i # 0
    <2>1. i \in 1 .. N /\ IsMark(one[i], name)
      BY <1>1, <1>6
    <2>2. j \in 1 .. N /\ other[j] = one[i]
      BY <1>3, <2>1
    <2>3. j # 0
      BY <2>2
    <2>. QED
      BY <1>6, <2>2, <2>3 DEF i, j
  <1>. QED
    BY <1>5, <1>6

LEMMA ReverseMirrored ==
  ASSUME NEW N \in Nat, NEW one, Len(one) = N, DOMAIN one = 1 .. N,
         Once(one), TasksIn(one)
  PROVE  LET other == Reverse(one) IN
         /\ Len(other) = N /\ DOMAIN other = 1 .. N
         /\ Mirrored(N, one, other)
         /\ Once(other) /\ TasksIn(other)
  <1>. DEFINE other == Reverse(one)
  <1>1. other = [i \in 1 .. N |-> one[(N - i) + 1]]
    BY DEF Reverse
  <1>. HIDE DEF other
  <1>2. Len(other) = N /\ DOMAIN other = 1 .. N
    BY <1>1
  <1>3. \A i \in 1 .. N : /\ other[i] = one[N - i + 1]
                          /\ N - i + 1 \in 1 .. N
    BY <1>1
  <1>4. Mirrored(N, one, other)
    BY <1>3 DEF Mirrored
  <1>5. TasksIn(other)
    BY <1>2, <1>3 DEF TasksIn
  <1>6. ASSUME NEW name, NEW j \in 1 .. N, NEW k \in 1 .. N,
               IsMark(other[j], name), IsMark(other[k], name)
        PROVE  j = k
    <2>1. IsMark(one[N - j + 1], name) /\ IsMark(one[N - k + 1], name)
      BY <1>3, <1>6
    <2>2. N - j + 1 = N - k + 1
      BY <1>3, <2>1 DEF Once
    <2>. QED
      BY <2>2
  <1>7. Once(other)
    BY <1>2, <1>6 DEF Once
  <1>. QED
    BY <1>2, <1>4, <1>5, <1>7 DEF other

LEMMA ReportOfReverse ==
  ASSUME NEW one, Once(one), TasksIn(one)
  PROVE  SameMeasures(one, Reverse(one))
  <1>. DEFINE other == Reverse(one)
              N == Len(one)
              A == SectionMetrics(one)
              B == SectionMetrics(other)
  <1>1. N \in Nat /\ DOMAIN one = 1 .. N
    BY DEF Once
  <1>2. /\ Len(other) = N /\ DOMAIN other = 1 .. N
        /\ Mirrored(N, one, other) /\ Once(other) /\ TasksIn(other)
    BY <1>1, ReverseMirrored
  <1>. HIDE DEF other
  <1>3. ASSUME NEW name
        PROVE  \/ FirstMark(one, name) = 0 /\ FirstMark(other, name) = 0
               \/ /\ FirstMark(one, name) # 0 /\ FirstMark(other, name) # 0
                  /\ one[FirstMark(one, name)] = other[FirstMark(other, name)]
    BY <1>1, <1>2, MarksMirrored
  <1>4. ASSUME NEW name
        PROVE  /\ LastMark(one, name) = FirstMark(one, name)
               /\ LastMark(other, name) = FirstMark(other, name)
    <2>1. LastMark(one, name) = FirstMark(one, name)
      BY OnceFound
    <2>2. LastMark(other, name) = FirstMark(other, name)
      BY <1>2, OnceFound
    <2>. QED
      BY <2>1, <2>2
  <1>5. ASSUME NEW w
        PROVE  WindowDurationMs(one, w) = WindowDurationMs(other, w)
    <2>1. \/ FirstMark(one, w[1]) = 0 /\ FirstMark(other, w[1]) = 0
          \/ /\ FirstMark(one, w[1]) # 0 /\ FirstMark(other, w[1]) # 0
             /\ one[FirstMark(one, w[1])] = other[FirstMark(other, w[1])]
      BY <1>3
    <2>2. \/ LastMark(one, w[2]) = 0 /\ LastMark(other, w[2]) = 0
          \/ /\ LastMark(one, w[2]) # 0 /\ LastMark(other, w[2]) # 0
             /\ one[LastMark(one, w[2])] = other[LastMark(other, w[2])]
      BY <1>3, <1>4
    <2>. QED
      BY <2>1, <2>2 DEF WindowDurationMs
  <1>6. SameTasks(A, B)
    <2>1. \/ FirstMark(one, "start") = 0 /\ FirstMark(other, "start") = 0
          \/ /\ FirstMark(one, "start") # 0 /\ FirstMark(other, "start") # 0
             /\ one[FirstMark(one, "start")] =
                  other[FirstMark(other, "start")]
      BY <1>3
    <2>2. \/ LastMark(one, "end") = 0 /\ LastMark(other, "end") = 0
          \/ /\ LastMark(one, "end") # 0 /\ LastMark(other, "end") # 0
             /\ one[LastMark(one, "end")] = other[LastMark(other, "end")]
      BY <1>3, <1>4
    <2>3. CASE FirstMark(one, "start") = 0 \/ LastMark(one, "end") = 0
      <3>1. A = NoMetrics /\ B = NoMetrics
        BY <2>1, <2>2, <2>3 DEF SectionMetrics
      <3>. HIDE DEF A, B
      <3>. QED
        BY <3>1 DEF SameTasks
    <2>4. CASE ~(FirstMark(one, "start") = 0 \/ LastMark(one, "end") = 0)
      <3>. DEFINE from == one[FirstMark(one, "start")].ts
                  to == one[LastMark(one, "end")].ts
      <3>1. A = AnalyzeWindow(one, from, to)
        BY <2>4 DEF SectionMetrics
      <3>2. B = AnalyzeWindow(other, from, to)
        BY <2>1, <2>2, <2>4 DEF SectionMetrics
      <3>3. SameTasks(AnalyzeWindow(one, from, to),
                      AnalyzeWindow(other, from, to))
        <4>. HIDE DEF from, to
        <4>. QED
          BY <1>1, <1>2, WindowMirrored
      <3>. QED
        BY <3>1, <3>2, <3>3
    <2>. QED
      BY <2>3, <2>4
  <1>. QED
    BY <1>5, <1>6 DEF SameMeasures, SameTasks, other

LEMMA SectionMeasured ==
  ASSUME NEW evs, Len(evs) \in Nat, TasksIn(evs),
         \A i, j \in 1 .. Len(evs) : evs[i] = evs[j] => i = j
  PROVE  LET m == SectionMetrics(evs) IN
         /\ m \in WindowMetrics
         /\ \A i, j \in 1 .. Len(m.gc) : m.gc[i] = m.gc[j] => i = j
  <1>. DEFINE m == SectionMetrics(evs)
              from == evs[FirstMark(evs, "start")].ts
              to == evs[LastMark(evs, "end")].ts
  <1>1. m = NoMetrics \/ m = AnalyzeWindow(evs, from, to)
    BY DEF SectionMetrics
  <1>2. CASE m = NoMetrics
    <2>1. NoMetrics.gc = <<>> /\ Len(<<>>) = 0
      BY DEF NoMetrics
    <2>. HIDE DEF m
    <2>. QED
      BY <1>2, <2>1, NoMetricsType DEF m
  <1>3. CASE m = AnalyzeWindow(evs, from, to)
    <2>. HIDE DEF m, from, to
    <2>1. MetricsOK(evs, Taken(evs, MainThreads(evs), from, to),
                    m, Len(evs))
      BY <1>3, WindowMeasured
    <2>. QED
      BY <2>1 DEF MetricsOK, ListsOK, m
  <1>. QED
    BY <1>1, <1>2, <1>3

LEMMA GcDominationSound ==
  ASSUME NEW gc \in Seq(TaskEvent),
         \A i, j \in 1 .. Len(gc) : gc[i] = gc[j] => i = j,
         NEW task \in TaskEvent, GcDominates(task, gc)
  PROVE  \/ 2 * Cardinality(GcUnits(task, gc)) >= task.dur
         \/ Cardinality(GcUnits(task, gc)) >= LongTask
         \/ \E a, b \in ToSet(gc) : a # b /\ OverlapOf(a, b) > 0
  <1>1. CASE \E i, j \in 1 .. Len(gc) :
               i # j /\ OverlapOf(gc[i], gc[j]) > 0
    <2>1. PICK i \in 1 .. Len(gc), j \in 1 .. Len(gc) :
            i # j /\ OverlapOf(gc[i], gc[j]) > 0
      BY <1>1
    <2>2. gc[i] # gc[j]
      BY <2>1
    <2>3. gc[i] \in ToSet(gc) /\ gc[j] \in ToSet(gc)
      BY DEF ToSet
    <2>. QED
      BY <2>1, <2>2, <2>3
  <1>2. CASE \A i, j \in 1 .. Len(gc) :
               i # j => ~(OverlapOf(gc[i], gc[j]) > 0)
    <2>1. GcOverlap(task, gc) = Cardinality(GcUnits(task, gc))
      BY <1>2, OverlapsAreUnits
    <2>. QED
      BY <2>1 DEF GcDominates
  <1>. QED
    BY <1>1, <1>2

LEMMA WindowsMeasured ==
  ASSUME NEW section \in Sections, NEW ms, ms = MarksOf(section),
         NEW evs, NEW missing \in Nat,
         TraceOK(ms, Len(ms) + 1, evs, missing),
         ReportedComplete(evs, section)
  PROVE  \/ section = "f0" /\ missing > 0
         \/ \A w \in Windows(section) :
              WindowDurationMs(evs, w) \in
                0 .. WindowDurationMs(evs, <<"start", "end">>)
  <1>. DEFINE s == RequiredMarks(section)
              n == Len(ms) + 1
  <1>1. /\ SectionOK(section) /\ Len(ms) \in Nat /\ Len(ms) >= Len(s)
        /\ \A i \in 1 .. Len(s) : ms[i] = s[i]
        /\ Distinct(ms)
    BY MarksDistinct
  <1>2. /\ Len(s) \in Nat \ {0, 1} /\ s \in Seq(ToSet(s))
        /\ s[1] = "start" /\ s[Len(s)] = "end"
        /\ DOMAIN s = 1 .. Len(s)
        /\ \A w \in Windows(section) : InOrder(s, w)
    <2>1. /\ Len(s) \in Nat \ {0, 1} /\ s \in Seq(ToSet(s))
          /\ s[1] = "start" /\ s[Len(s)] = "end"
          /\ \A w \in Windows(section) : InOrder(s, w)
      BY <1>1 DEF SectionOK
    <2>. QED
      BY <2>1
  <1>3. CASE section = "send"
    <2>1. Windows(section) = {}
      BY <1>3 DEF Windows
    <2>. QED
      BY <2>1
  <1>4. CASE section = "f0" /\ missing > 0
    BY <1>4
  <1>5. CASE section # "send" /\ ~(section = "f0" /\ missing > 0)
    <2>1. n \in 1 .. Len(ms) + 1
      BY <1>1
    <2>2. /\ Len(evs) \in Nat /\ DOMAIN evs = 1 .. Len(evs)
          /\ \A name : \A j \in 1 .. Len(evs) :
               IsMark(evs[j], name) => IsOf(ms, n, evs[j], name)
          /\ Once(evs)
      <3>. HIDE DEF n
      <3>1. TraceOK(ms, n, evs, missing)
        BY DEF n
      <3>2. Len(ms) \in Nat /\ Distinct(ms)
        BY <1>1
      <3>3. Len(evs) \in Nat /\ DOMAIN evs = 1 .. Len(evs)
        BY <2>1, <3>1, <3>2, EventFacts
      <3>4. ASSUME NEW name, NEW j \in 1 .. Len(evs),
                   IsMark(evs[j], name)
            PROVE  IsOf(ms, n, evs[j], name)
        BY <2>1, <3>1, <3>2, <3>4, EventFacts
      <3>5. ASSUME NEW name, NEW j \in 1 .. Len(evs),
                   NEW k \in 1 .. Len(evs),
                   IsMark(evs[j], name), IsMark(evs[k], name)
            PROVE  j = k
        BY <2>1, <3>1, <3>2, <3>5, EventFacts
      <3>. QED
        BY <3>3, <3>4, <3>5 DEF Once
    <2>3. ASSUME NEW i \in 1 .. Len(s)
          PROVE  \E j \in 1 .. Len(evs) : evs[j] = MarkAt(ms, i)
      <3>1. CASE section = "f0"
        <4>1. missing = 0 /\ i \in 1 .. n - 1
          BY <1>1, <1>2, <1>5, <3>1
        <4>. QED
          BY <4>1 DEF TraceOK
      <3>2. CASE section # "f0"
        <4>1. section \in {"f1", "f2"}
          BY <1>5, <3>2 DEF Sections
        <4>2. FirstMark(evs, s[i]) # 0
          BY <1>2, <4>1 DEF ReportedComplete, MarksComplete
        <4>3. PICK j \in 1 .. Len(evs) : IsMark(evs[j], s[i])
          BY <2>2, <4>2, OnceFound
        <4>4. PICK k \in 1 .. n - 1 :
                evs[j] = MarkAt(ms, k) /\ ms[k] = s[i]
          BY <2>2, <4>3 DEF IsOf
        <4>5. k \in 1 .. Len(ms) /\ i \in 1 .. Len(ms)
          BY <1>1, <1>2
        <4>6. k = i
          BY <1>1, <4>4, <4>5 DEF Distinct
        <4>. QED
          BY <4>4, <4>6
      <3>. QED
        BY <3>1, <3>2
    <2>4. ASSUME NEW p \in 1 .. Len(s), NEW q \in 1 .. Len(s), p <= q,
                 NEW w, w[1] = s[p], w[2] = s[q]
          PROVE  WindowDurationMs(evs, w) = 2 * q - 2 * p
      <3>1. PICK j \in 1 .. Len(evs) : evs[j] = MarkAt(ms, p)
        BY <2>3
      <3>2. PICK k \in 1 .. Len(evs) : evs[k] = MarkAt(ms, q)
        BY <2>3
      <3>3. IsMark(evs[j], w[1]) /\ evs[j].ts = 2 * p
        <4>1. ms[p] = w[1]
          BY <1>1, <2>4
        <4>. HIDE DEF s
        <4>. QED
          BY <3>1, <4>1, MarkIsMark DEF IsMark
      <3>4. IsMark(evs[k], w[2]) /\ evs[k].ts = 2 * q
        <4>1. ms[q] = w[2]
          BY <1>1, <2>4
        <4>. HIDE DEF s
        <4>. QED
          BY <3>2, <4>1, MarkIsMark DEF IsMark
      <3>5. FirstMark(evs, w[1]) = j
        BY <2>2, <3>3, OnceFound
      <3>6. LastMark(evs, w[2]) = k
        BY <2>2, <3>4, OnceFound
      <3>7. j # 0 /\ k # 0 /\ ~(2 * q < 2 * p)
        BY <1>2, <2>2, <2>4
      <3>. QED
        BY <3>3, <3>4, <3>5, <3>6, <3>7 DEF WindowDurationMs
    <2>5. WindowDurationMs(evs, <<"start", "end">>) = 2 * Len(s) - 2
      <3>1. 1 \in 1 .. Len(s) /\ Len(s) \in 1 .. Len(s) /\ 1 <= Len(s)
        BY <1>2
      <3>2. <<"start", "end">>[1] = s[1] /\ <<"start", "end">>[2] = s[Len(s)]
        BY <1>2
      <3>. DEFINE w == <<"start", "end">>
      <3>. HIDE DEF w, s
      <3>3. WindowDurationMs(evs, w) = 2 * Len(s) - 2 * 1
        BY <2>4, <3>1, <3>2 DEF w
      <3>. QED
        BY <1>2, <3>3 DEF w
    <2>6. ASSUME NEW w \in Windows(section)
          PROVE  WindowDurationMs(evs, w) \in
                   0 .. WindowDurationMs(evs, <<"start", "end">>)
      <3>1. PICK p \in 1 .. Len(s), q \in 1 .. Len(s) :
              p < q /\ s[p] = w[1] /\ s[q] = w[2]
        BY <1>2 DEF InOrder
      <3>2. WindowDurationMs(evs, w) = 2 * q - 2 * p
        <4>1. p <= q
          BY <1>2, <3>1
        <4>. HIDE DEF s
        <4>. QED
          BY <2>4, <3>1, <4>1
      <3>3. 2 * q - 2 * p \in 0 .. 2 * Len(s) - 2
        BY <1>2, <3>1
      <3>. QED
        BY <2>5, <3>2, <3>3
    <2>. QED
      BY <2>6
  <1>. QED
    BY <1>3, <1>4, <1>5

(***************************************************************************)
(* What is reported of a section is read out of its trace, for any tasks   *)
(* the threads run, any number of lost marks and any number of rows in the *)
(* list: neither the order of the file nor the insertion into the list     *)
(* makes a difference, no long task is put down to garbage collection      *)
(* unless it is, and a section said to be complete has its windows.        *)
(***************************************************************************)
THEOREM ReportSound == TraceSpec => []ReportIsOfTheTrace
  <1>1. TraceIInv => ReportIsOfTheTrace
    <2>. SUFFICES ASSUME TraceIInv, Written PROVE ReportIsOfTheTrace
      BY DEF ReportIsOfTheTrace
    <2>. DEFINE ms == Marks
                n == nextMark
    <2>1. /\ Section \in Sections /\ ms = MarksOf(Section)
          /\ lost \in Nat
          /\ n = Len(ms) + 1 /\ Len(ms) \in Nat
          /\ Distinct(ms) /\ TraceOK(ms, n, trace, lost)
      <3>1. Section \in Sections /\ ms = MarksOf(Section)
        BY MarksAreOf DEF TraceIInv, Section
      <3>2. Len(ms) \in Nat /\ Distinct(ms)
        BY <3>1, MarksDistinct
      <3>3. n \in 1 .. Len(ms) + 1 /\ n > Len(ms)
        BY DEF TraceIInv, Written
      <3>4. n = Len(ms) + 1
        BY <3>2, <3>3
      <3>. QED
        BY <3>1, <3>2, <3>4 DEF TraceIInv
    <2>. HIDE DEF ms, n
    <2>2. /\ Len(trace) \in Nat /\ TasksIn(trace) /\ Once(trace)
          /\ \A i, j \in 1 .. Len(trace) : trace[i] = trace[j] => i = j
      <3>1. n \in 1 .. Len(ms) + 1
        BY <2>1
      <3>2. /\ Len(trace) \in Nat /\ DOMAIN trace = 1 .. Len(trace)
            /\ TasksIn(trace)
            /\ \A name : \A j, k \in 1 .. Len(trace) :
                 IsMark(trace[j], name) /\ IsMark(trace[k], name) => j = k
        BY <2>1, <3>1, EventFacts
      <3>3. \A i, j \in 1 .. Len(trace) : trace[i] = trace[j] => i = j
        BY <2>1 DEF TraceOK
      <3>. QED
        BY <3>2, <3>3 DEF Once
    <2>3. SameMeasures(trace, Reverse(trace))
      BY <2>2, ReportOfReverse
    <2>4. /\ Metrics \in WindowMetrics
          /\ \A i, j \in 1 .. Len(Metrics.gc) :
               Metrics.gc[i] = Metrics.gc[j] => i = j
      BY <2>2, SectionMeasured DEF Metrics
    <2>5. /\ Metrics.byName \in Seq(MetricRow)
          /\ Metrics.long \subseteq TaskEvent /\ Metrics.gc \in Seq(TaskEvent)
      BY <2>4 DEF WindowMetrics
    <2>6. IsTop(TopMetrics(Metrics.byName), Metrics.byName)
      BY <2>5, TopMetricsIsTop
    <2>7. ASSUME NEW task \in Metrics.long, GcDominates(task, Metrics.gc)
          PROVE  \/ 2 * Cardinality(GcUnits(task, Metrics.gc)) >= task.dur
                 \/ Cardinality(GcUnits(task, Metrics.gc)) >= LongTask
                 \/ \E a, b \in ToSet(Metrics.gc) :
                      a # b /\ OverlapOf(a, b) > 0
      <3>. DEFINE gc == Metrics.gc
      <3>1. task \in TaskEvent /\ gc \in Seq(TaskEvent)
            /\ \A i, j \in 1 .. Len(gc) : gc[i] = gc[j] => i = j
        BY <2>4, <2>5
      <3>. HIDE DEF gc
      <3>2. GcDominates(task, gc)
        BY <2>7 DEF gc
      <3>3. \/ 2 * Cardinality(GcUnits(task, gc)) >= task.dur
            \/ Cardinality(GcUnits(task, gc)) >= LongTask
            \/ \E a, b \in ToSet(gc) : a # b /\ OverlapOf(a, b) > 0
        BY <3>1, <3>2, GcDominationSound
      <3>. QED
        BY <3>3 DEF gc
    <2>8. ASSUME ReportedComplete(trace, Section)
          PROVE  \/ Section = "f0" /\ lost > 0
                 \/ \A w \in Windows(Section) :
                      WindowDurationMs(trace, w) \in 0 .. SectionMs
      <3>1. TraceOK(ms, Len(ms) + 1, trace, lost)
        BY <2>1
      <3>2. \/ Section = "f0" /\ lost > 0
            \/ \A w \in Windows(Section) :
                 WindowDurationMs(trace, w) \in
                   0 .. WindowDurationMs(trace, <<"start", "end">>)
        BY <2>1, <2>8, <3>1, WindowsMeasured
      <3>. QED
        BY <3>2 DEF SectionMs
    <2>. QED
      BY <2>3, <2>6, <2>7, <2>8 DEF ReportIsOfTheTrace
  <1>. QED
    BY <1>1, TraceInvariant, PTL
=============================================================================
