---------------------------- MODULE StressProofs ----------------------------
(***************************************************************************)
(* Proofs about the stress measurements.                                   *)
(*                                                                         *)
(* First StressPage, for every scenario, number of phases and of lanes,    *)
(* and whatever a person clicks: the merge of a batch takes each of its    *)
(* events once and its lanes in turns, the transcript stays sound from one *)
(* send to the next, and the counters that go with a row tell which send   *)
(* it reports.                                                             *)
(*                                                                         *)
(* Then StressCollector, for every scenario matrix, whatever rows are      *)
(* pasted and however often the collectors are run.                        *)
(***************************************************************************)
EXTENDS StressCollector, StressPage, FiniteSetTheorems, FunctionTheorems,
        SequenceTheorems, WellFoundedInduction, TLAPS
-----------------------------------------------------------------------------
(* The stress page: the parts of its inductive invariant.                   *)

\* A queue holds what was put into it.
Queue(q) == q \in Seq(Range(q))

Ahead(x, q) == \A i \in DOMAIN q : x < q[i].id
IdsGrow(q) == \A i, j \in DOMAIN q : i < j => q[i].id < q[j].id

(***************************************************************************)
(* Requests and responses travel in the order of their ids, the first of   *)
(* all being the initialisation; what waits for its input task, and what   *)
(* the metrics report, was taken from the front of the responses.          *)
(***************************************************************************)
Message(x, n, tasks) ==
  /\ x.id \in 1..n /\ x.kind \in {"init", "typing"} \cup Sends
  /\ x.kind = "init" => x.id = 1
  /\ x.kind # "concurrent" => x.id \notin tasks

Travelling(q, n, tasks) ==
  /\ Queue(q) /\ IdsGrow(q)
  /\ \A i \in DOMAIN q : Message(q[i], n, tasks)

TrafficOK ==
  /\ clicks \in Nat \ {0} /\ inputTasks \subseteq 1..clicks
  /\ Travelling(requests, clicks, inputTasks)
  /\ Travelling(responses, clicks, inputTasks)
  /\ \A i \in DOMAIN responses : Ahead(responses[i].id, requests)
  /\ \A r \in waiting : /\ r.id \in 1..clicks
                        /\ Ahead(r.id, requests) /\ Ahead(r.id, responses)
                        /\ \A s \in waiting : r.id = s.id => r = s
  /\ metrics.work \in 0..clicks
  /\ Ahead(metrics.work, requests) /\ Ahead(metrics.work, responses)

(***************************************************************************)
(* The worker's transcript between two requests.                           *)
(***************************************************************************)
TraceBlock == [run : Nat, event : Nat, ordinal : Nat]

TranscriptOf(v) ==
  /\ v \in [blocks : Seq(TraceBlock), index : Seq(TraceBlock), runs : Nat,
            updates : Nat, generations : Nat]
  /\ Len(v.blocks) = Scenario.visible + v.runs * Batch
  /\ OrdinalsArePlaces(v.blocks)
  /\ \A i \in DOMAIN v.blocks : v.blocks[i].run <= v.runs
  /\ v.runs > 0 => LastBatch(v.blocks) = Merged
  /\ v.index = Context(v.blocks)

WorkerOK ==
  /\ worker.updates \in Nat
  /\ worker.blocks = <<>> => /\ worker.updates = 0 /\ worker.runs = 0
                             /\ requests # <<>> /\ requests[1].kind = "init"
  /\ worker.blocks # <<>> => TranscriptOf(worker)
  /\ \A i \in DOMAIN requests :
       requests[i].kind = "init" => worker.blocks = <<>>

(***************************************************************************)
(* The sends whose work is reported anywhere, each with the count of       *)
(* context updates reported with it.  The count grows with every send, so  *)
(* that one send alone is reported with the count of the first.            *)
(***************************************************************************)
Reporting(m) == {"work", "updates", "scheduled", "delay"} \subseteq DOMAIN m

Reports == {metrics, summary} \cup copied
Evidence ==
  {<<responses[i].id, responses[i].updates>> :
     i \in {j \in DOMAIN responses : responses[j].kind \in Sends}}
  \cup {<<r.id, r.updates>> : r \in waiting}
  \cup {<<m.work, m.updates>> : m \in Reports}

EvidenceOK ==
  /\ \A m \in Reports : Reporting(m)
  /\ \A i \in DOMAIN responses :
       responses[i].kind = "init" => responses[i].updates = 0
  /\ \A r \in waiting : r.kind = "concurrent"
  /\ \A e \in Evidence :
       /\ e[1] \in Nat /\ e[2] \in 0..worker.updates
       /\ e[2] # 0 => e[1] # 0
       /\ \A f \in Evidence :
            e[2] = Scenario.repeats /\ f[2] = Scenario.repeats => e[1] = f[1]

(***************************************************************************)
(* An input task belongs to a send under way.  As long as no two sends     *)
(* overlap, at most one is under way; the metrics count no context update  *)
(* until it is over, and an input delay in them is that send's, or the     *)
(* last one's.                                                             *)
(***************************************************************************)
SendsIn(q) == {q[i].id : i \in {j \in DOMAIN q : q[j].kind \in Sends}}
SendsUnderWay ==
  {r.id : r \in waiting} \cup SendsIn(requests) \cup SendsIn(responses)

OwnDelay(m) == m.delay \in {NoDelay, <<m.work, m.work>>}

NoOverlap ==
  /\ \A s, t \in SendsUnderWay : s = t
  /\ \A s \in SendsUnderWay : /\ metrics.updates = 0
                              /\ metrics.delay \in {NoDelay, <<s, s>>}
                              /\ s \in inputTasks => metrics.scheduled = s
  /\ SendsUnderWay = {} => OwnDelay(metrics)
  /\ \A m \in {summary} \cup copied : m.updates # 0 => OwnDelay(m)

DelayOK == /\ inputTasks \subseteq SendsUnderWay
           /\ ~overlapped => NoOverlap

PageIInv == TrafficOK /\ WorkerOK /\ EvidenceOK /\ DelayOK

-----------------------------------------------------------------------------
(* Least numbers, and functions that go on step by step.                    *)

LEMMA LeastNumber ==
  ASSUME NEW T \in SUBSET Nat, T # {}
  PROVE  \E n \in T : \A m \in T : n <= m
  <1>1. PICK k \in T : TRUE
    OBVIOUS
  <1>. DEFINE segments == { 0 .. i : i \in {j \in T : j <= k} }
              S == FiniteSubsetsOf(0 .. k)
              R == StrictSubsetOrdering(0 .. k)
  <1>2. IsWellFoundedOn(R, S)
    BY FS_StrictSubsetOrderingWellFounded
  <1>3. segments \subseteq S /\ segments # {}
    <2>1. ASSUME NEW i \in T, i <= k PROVE 0 .. i \in S
      <3>1. 0 .. i \subseteq 0 .. k /\ i \in Int /\ 0 \in Int
        BY <2>1
      <3>2. IsFiniteSet(0 .. i)
        BY <3>1, FS_Interval
      <3>. QED
        BY <3>1, <3>2 DEF FiniteSubsetsOf
    <2>2. 0 .. k \in segments
      OBVIOUS
    <2>. QED
      BY <2>1, <2>2
  <1>4. \E x \in segments : \A y \in segments : ~ (<<y, x>> \in R)
    <2>. HIDE DEF segments, S, R
    <2>. QED
      BY <1>2, <1>3, WFMin
  <1>5. PICK i \in T : /\ i <= k
                       /\ \A j \in T : j <= k => ~ (<<0 .. j, 0 .. i>> \in R)
    BY <1>4
  <1>6. ASSUME NEW j \in T, j < i
        PROVE  FALSE
    <2>1. j <= k /\ 0 .. j \subseteq 0 .. k /\ 0 .. i \subseteq 0 .. k
      BY <1>5, <1>6
    <2>2. 0 .. j \subseteq 0 .. i /\ i \in 0 .. i /\ i \notin 0 .. j
      BY <1>6
    <2>. QED
      BY <1>5, <2>1, <2>2 DEF StrictSubsetOrdering
  <1>. QED
    BY <1>5, <1>6

LEMMA UpTo ==
  ASSUME NEW N \in Nat, NEW P \in SUBSET (0 .. N), 0 \in P,
         \A k \in 0 .. N - 1 : k \in P => k + 1 \in P
  PROVE  P = 0 .. N
  <1>. DEFINE T == (0 .. N) \ P
  <1>. SUFFICES ASSUME T # {} PROVE FALSE
    OBVIOUS
  <1>1. PICK n \in T : \A m \in T : n <= m
    <2>1. T \in SUBSET Nat
      OBVIOUS
    <2>. HIDE DEF T
    <2>. QED
      BY <2>1, LeastNumber
  <1>2. n - 1 \in 0 .. N - 1 /\ n - 1 \notin T /\ n - 1 + 1 = n
    <2>1. n # 0 /\ n \in 0 .. N
      OBVIOUS
    <2>2. n - 1 \in 0 .. N - 1 /\ n - 1 + 1 = n /\ ~(n <= n - 1)
      BY <2>1
    <2>. QED
      BY <1>1, <2>2
  <1>3. n - 1 \in P
    BY <1>2
  <1>. QED
    BY <1>2, <1>3

GoesOn(N, V, a, F, g) ==
  /\ g \in [0 .. N -> V] /\ g[0] = a
  /\ \A n \in 1 .. N : g[n] = F[<<g[n - 1], n>>]

LEMMA StepByStep ==
  ASSUME NEW N \in Nat, NEW V, NEW a \in V, NEW F \in [V \X (1 .. N) -> V]
  PROVE  \E g : GoesOn(N, V, a, F, g)
  <1>. DEFINE Up(k, g) == /\ g \in [0 .. k -> V]
                          /\ g[0] = a
                          /\ \A n \in 1 .. k : g[n] = F[<<g[n - 1], n>>]
              P == {k \in 0 .. N : \E g : Up(k, g)}
  <1>1. 0 \in P
    <2>1. Up(0, [n \in 0 .. 0 |-> a])
      OBVIOUS
    <2>. HIDE DEF Up
    <2>. QED
      BY <2>1
  <1>2. ASSUME NEW k \in 0 .. N - 1, k \in P
        PROVE  k + 1 \in P
    <2>1. PICK g : Up(k, g)
      BY <1>2
    <2>. DEFINE h == [n \in 0 .. k + 1 |->
                        IF n <= k THEN g[n] ELSE F[<<g[k], k + 1>>]]
    <2>2. F[<<g[k], k + 1>>] \in V
      <3>1. g[k] \in V /\ k + 1 \in 1 .. N
        BY <2>1
      <3>. QED
        BY <3>1
    <2>3. h \in [0 .. k + 1 -> V]
      BY <2>1, <2>2
    <2>4. \A n \in 0 .. k : h[n] = g[n]
      BY <2>1
    <2>5. h[k + 1] = F[<<g[k], k + 1>>]
      OBVIOUS
    <2>. HIDE DEF h
    <2>6. h[0] = a
      BY <2>1, <2>4
    <2>7. ASSUME NEW n \in 1 .. k + 1
          PROVE  h[n] = F[<<h[n - 1], n>>]
      <3>1. CASE n = k + 1
        <4>1. n - 1 = k
          BY <3>1
        <4>. QED
          BY <2>4, <2>5, <3>1, <4>1
      <3>2. CASE n # k + 1
        <4>1. n \in 1 .. k /\ n - 1 \in 0 .. k /\ n \in 0 .. k
          BY <3>2
        <4>. QED
          BY <2>1, <2>4, <4>1
      <3>. QED
        BY <3>1, <3>2
    <2>8. Up(k + 1, h)
      BY <2>3, <2>6, <2>7
    <2>. HIDE DEF Up
    <2>9. k + 1 \in 0 .. N
      OBVIOUS
    <2>. QED
      BY <2>8, <2>9
  <1>3. P = 0 .. N
    <2>1. P \in SUBSET (0 .. N)
      OBVIOUS
    <2>2. 0 \in P /\ \A k \in 0 .. N - 1 : k \in P => k + 1 \in P
      BY <1>1, <1>2
    <2>. HIDE DEF P
    <2>. QED
      BY <2>1, <2>2, UpTo
  <1>4. N \in P
    <2>1. N \in 0 .. N
      OBVIOUS
    <2>. HIDE DEF P
    <2>. QED
      BY <1>3, <2>1
  <1>. QED
    BY <1>4 DEF GoesOn

-----------------------------------------------------------------------------
(* Quotients and remainders.                                                *)

LEMMA DivMod ==
  ASSUME NEW x \in Nat, NEW d \in Nat \ {0}
  PROVE  /\ x \div d \in Nat /\ x % d \in 0..(d - 1)
         /\ x = d * (x \div d) + (x % d)
  OBVIOUS

LEMMA Below ==
  ASSUME NEW d \in Nat \ {0}, NEW q \in Int, NEW p \in Int, q < p
  PROVE  d * q + d <= d * p
  <1>1. PICK k \in Nat : p = q + 1 + k
    <2>1. p - q - 1 \in Nat /\ p = q + 1 + (p - q - 1)
      OBVIOUS
    <2>. QED
      BY <2>1
  <1>2. d * p = d * q + d + d * k /\ d * k >= 0
    BY <1>1
  <1>. QED
    BY <1>2

LEMMA DivIs ==
  ASSUME NEW x \in Nat, NEW d \in Nat \ {0}, NEW q \in Nat,
         NEW r \in 0..(d - 1), x = d * q + r
  PROVE  x \div d = q /\ x % d = r
  <1>. DEFINE p == x \div d  s == x % d
  <1>1. p \in Nat /\ s \in 0..(d - 1) /\ x = d * p + s
    BY DivMod
  <1>. HIDE DEF p, s
  <1>2. ~(p < q)
    BY <1>1, Below
  <1>3. ~(q < p)
    BY <1>1, Below
  <1>4. p = q
    BY <1>1, <1>2, <1>3
  <1>5. s = r
    BY <1>1, <1>4
  <1>. QED
    BY <1>4, <1>5 DEF p, s

LEMMA DivGrows ==
  ASSUME NEW x \in Nat, NEW y \in Nat, NEW d \in Nat \ {0}, x <= y
  PROVE  x \div d <= y \div d
  <1>. DEFINE p == x \div d  s == x % d  q == y \div d  r == y % d
  <1>1. /\ p \in Nat /\ s \in 0..(d - 1) /\ x = d * p + s
        /\ q \in Nat /\ r \in 0..(d - 1) /\ y = d * q + r
    BY DivMod
  <1>. HIDE DEF p, s, q, r
  <1>2. ~(q < p)
    BY <1>1, Below
  <1>. QED
    BY <1>1, <1>2 DEF p, q

-----------------------------------------------------------------------------
(* The events of a batch, and turns.                                        *)

LEMMA PageConstants ==
  /\ Batch \in Nat \ {0} /\ LaneCount \in Nat \ {0}
  /\ PhaseCount \in Nat \ {0}
  /\ Scenario.visible \in Nat /\ Scenario.context \in 1..Scenario.visible
  /\ Scenario.repeats \in Nat \ {0}
  BY PageAssumption DEF Batch

\* Every event has a phase and a lane, and a later one no earlier phase.
LEMMA Events ==
  /\ \A i \in 1..Batch : /\ PhaseOf(i) \in 1..PhaseCount
                         /\ LaneOf(i) \in 1..LaneCount
  /\ \A i, j \in 1..Batch : i <= j => PhaseOf(i) <= PhaseOf(j)
  <1>. DEFINE n == Batch + PhaseCount - 1
  <1>1. PerPhase \in Nat \ {0}
    <2>1. n \in Nat /\ PhaseCount <= n /\ n = PhaseCount * 1 + (n - PhaseCount)
      BY PageConstants
    <2>2. PhaseCount \div PhaseCount = 1
      <3>1. PhaseCount = PhaseCount * 1 + 0 /\ 0 \in 0..(PhaseCount - 1)
            /\ PhaseCount \in Nat \ {0} /\ 1 \in Nat
        BY PageConstants
      <3>. QED
        BY <3>1, DivIs
    <2>3. n \div PhaseCount \in Nat /\ 1 <= n \div PhaseCount
      <3>1. PhaseCount \in Nat \ {0} /\ PhaseCount \in Nat
        BY PageConstants
      <3>. HIDE DEF n
      <3>2. PhaseCount \div PhaseCount <= n \div PhaseCount
        BY <2>1, <3>1, DivGrows
      <3>3. n \div PhaseCount \in Nat
        BY <2>1, <3>1, DivMod
      <3>. QED
        BY <2>2, <3>2, <3>3
    <2>. QED
      BY <2>3 DEF PerPhase
  <1>2. ASSUME NEW i \in 1..Batch
        PROVE  (i - 1) \div PerPhase \in Nat
    <2>1. i - 1 \in Nat
      BY PageConstants
    <2>. QED
      BY <1>1, <2>1, DivMod
  <1>3. ASSUME NEW i \in 1..Batch
        PROVE  PhaseOf(i) \in 1..PhaseCount /\ LaneOf(i) \in 1..LaneCount
    <2>1. PhaseOf(i) \in 1..PhaseCount
      BY <1>2, PageConstants DEF PhaseOf
    <2>2. (i - 1) % LaneCount \in 0..(LaneCount - 1)
      <3>1. i - 1 \in Nat
        BY PageConstants
      <3>. QED
        BY <3>1, DivMod, PageConstants
    <2>. QED
      BY <2>1, <2>2, PageConstants DEF LaneOf
  <1>4. ASSUME NEW i \in 1..Batch, NEW j \in 1..Batch, i <= j
        PROVE  PhaseOf(i) <= PhaseOf(j)
    <2>1. i - 1 \in Nat /\ j - 1 \in Nat /\ i - 1 <= j - 1
      BY <1>4, PageConstants
    <2>2. (i - 1) \div PerPhase <= (j - 1) \div PerPhase
      BY <1>1, <2>1, DivGrows
    <2>. QED
      BY <1>2, <2>2, PageConstants DEF PhaseOf
  <1>. QED
    BY <1>3, <1>4

\* How often lane l was visited in the first c visits of a phase
Turns(l, c) == (c + (LaneCount - l)) \div LaneCount

LEMMA TurnStep ==
  ASSUME NEW l \in 1..LaneCount, NEW c \in Nat
  PROVE  /\ Turns(l, c) \in Nat /\ Turns(l, 0) = 0
         /\ Turns(l, Batch * LaneCount) = Batch
         /\ Visited(c + 1) \in 1..LaneCount
         /\ Visited(c + 1) = l => Turns(l, c + 1) = Turns(l, c) + 1
         /\ Visited(c + 1) # l => Turns(l, c + 1) = Turns(l, c)
  <1>. DEFINE x == c + (LaneCount - l)
              q == x \div LaneCount
              r == x % LaneCount
              v == c \div LaneCount
              w == c % LaneCount
  <1>1. l \in 1..LaneCount /\ LaneCount \in Nat \ {0} /\ LaneCount - l \in Nat
        /\ LaneCount - l < LaneCount /\ x \in Nat
    BY PageConstants
  <1>2. /\ q \in Nat /\ r \in 0..(LaneCount - 1) /\ x = LaneCount * q + r
        /\ v \in Nat /\ w \in 0..(LaneCount - 1) /\ c = LaneCount * v + w
    BY <1>1, DivMod
  <1>3. Turns(l, c) = q
    BY DEF Turns
  <1>4. Visited(c + 1) = w + 1
    <2>1. c + 1 - 1 = c
      OBVIOUS
    <2>. QED
      BY <2>1 DEF Visited
  <1>5. (c + 1) + (LaneCount - l) = x + 1
    BY <1>1
  <1>6. Turns(l, 0) = 0
    <2>1. 0 + (LaneCount - l) = LaneCount * 0 + (LaneCount - l)
          /\ LaneCount - l \in 0..(LaneCount - 1)
          /\ 0 + (LaneCount - l) \in Nat
      BY <1>1
    <2>2. (0 + (LaneCount - l)) \div LaneCount = 0
      BY <1>1, <2>1, DivIs
    <2>. QED
      BY <2>2 DEF Turns
  <1>7. Turns(l, Batch * LaneCount) = Batch
    <2>. DEFINE y == Batch * LaneCount + (LaneCount - l)
    <2>1. Batch \in Nat /\ LaneCount \in Nat
      BY PageConstants
    <2>2. Batch * LaneCount \in Nat /\ Batch * LaneCount = LaneCount * Batch
      BY <2>1
    <2>3. y = LaneCount * Batch + (LaneCount - l) /\ y \in Nat
          /\ LaneCount - l \in 0..(LaneCount - 1)
      BY <1>1, <2>2
    <2>. HIDE DEF y
    <2>4. y \div LaneCount = Batch
      BY <1>1, <2>1, <2>3, DivIs
    <2>. QED
      BY <2>4 DEF Turns, y
  <1>. HIDE DEF x, q, r, v, w
  <1>8. CASE w + 1 = l
    <2>1. /\ x = LaneCount * v + (LaneCount - 1)
          /\ LaneCount - 1 \in 0..LaneCount - 1
      BY <1>1, <1>2, <1>8 DEF x
    <2>2. q = v
      BY <1>1, <1>2, <2>1, DivIs DEF q
    <2>3. x + 1 = LaneCount * (v + 1) + 0
      <3>1. LaneCount * (v + 1) = LaneCount * v + LaneCount
        BY <1>1, <1>2
      <3>2. LaneCount * v \in Nat
        BY <1>1, <1>2
      <3>. QED
        BY <1>1, <2>1, <3>1, <3>2
    <2>4. (x + 1) \div LaneCount = v + 1
      <3>1. x + 1 \in Nat /\ v + 1 \in Nat /\ 0 \in 0..(LaneCount - 1)
        BY <1>1, <1>2
      <3>. QED
        BY <1>1, <2>3, <3>1, DivIs
    <2>5. Turns(l, c + 1) = q + 1
      BY <1>5, <2>2, <2>4 DEF Turns
    <2>. QED
      BY <1>2, <1>3, <1>4, <1>6, <1>7, <1>8, <2>5, <1>1
  <1>9. CASE w + 1 # l
    <2>1. r + 1 \in 0..(LaneCount - 1)
      <3>. SUFFICES ASSUME r = LaneCount - 1 PROVE FALSE
        BY <1>1, <1>2
      <3>1. LaneCount * q \in Nat
        BY <1>1, <1>2
      <3>2. c = LaneCount * q + (l - 1) /\ l - 1 \in 0..(LaneCount - 1)
        BY <1>1, <1>2, <3>1 DEF x
      <3>3. w = l - 1
        BY <1>1, <1>2, <3>2, DivIs DEF w
      <3>. QED
        BY <1>1, <1>9, <3>3
    <2>2. x + 1 = LaneCount * q + (r + 1)
      <3>1. LaneCount * q \in Nat
        BY <1>1, <1>2
      <3>. QED
        BY <1>1, <1>2, <3>1
    <2>3. (x + 1) \div LaneCount = q
      <3>1. x + 1 \in Nat
        BY <1>1
      <3>. QED
        BY <1>1, <1>2, <2>1, <2>2, <3>1, DivIs
    <2>4. Turns(l, c + 1) = q
      BY <1>5, <2>3 DEF Turns
    <2>. QED
      BY <1>2, <1>3, <1>4, <1>6, <1>7, <1>9, <2>4, <1>1
  <1>. QED
    BY <1>8, <1>9

\* No lane is visited twice more than another.
LEMMA TurnsAlike ==
  ASSUME NEW k \in 1..LaneCount, NEW l \in 1..LaneCount, NEW c \in Nat
  PROVE  Turns(k, c) <= Turns(l, c) + 1
  <1>. DEFINE x == c + (LaneCount - l)
              y == c + (LaneCount - k)
              q == x \div LaneCount
              r == x % LaneCount
  <1>1. /\ x \in Nat /\ y \in Nat /\ LaneCount \in Nat \ {0}
        /\ y <= x + LaneCount
    BY PageConstants
  <1>. HIDE DEF x, y
  <1>2. q \in Nat /\ r \in 0..(LaneCount - 1) /\ x = LaneCount * q + r
    BY <1>1, DivMod
  <1>. HIDE DEF q, r
  <1>3. (x + LaneCount) \div LaneCount = q + 1
    <2>1. LaneCount * (q + 1) = LaneCount * q + LaneCount
      BY <1>1, <1>2
    <2>2. LaneCount * q \in Nat
      BY <1>1, <1>2
    <2>3. x + LaneCount = LaneCount * (q + 1) + r
      BY <1>1, <1>2, <2>1, <2>2
    <2>4. x + LaneCount \in Nat /\ q + 1 \in Nat
      BY <1>1, <1>2
    <2>. QED
      BY <1>1, <1>2, <2>3, <2>4, DivIs
  <1>4. y \div LaneCount <= (x + LaneCount) \div LaneCount
    <2>1. x + LaneCount \in Nat
      BY <1>1
    <2>. QED
      BY <1>1, <2>1, DivGrows
  <1>. QED
    BY <1>3, <1>4 DEF Turns, x, y, q

UpToPhase(p) == {i \in 1..Batch : PhaseOf(i) <= p}
OfLane(p, l) == {i \in 1..Batch : PhaseOf(i) = p /\ LaneOf(i) = l}

\* The places up to n at which m has an event of phase p and lane l
Taken(m, n, p, l) == {i \in 1..n : PhaseOf(m[i]) = p /\ LaneOf(m[i]) = l}

\* No event twice
Once(m) == \A i, j \in 1..Len(m) : m[i] = m[j] => i = j

\* What LanesTakeTurns says of the first n events
TurnsAt(m, n) ==
  LET p == PhaseOf(m[n])
  IN /\ \A k, l \in 1..LaneCount :
          Cardinality(Taken(m, n, p, l)) < Cardinality(OfLane(p, l))
            => Cardinality(Taken(m, n, p, k))
                 <= Cardinality(Taken(m, n, p, l)) + 1
     /\ \A i \in 1..(n - 1) :
          /\ PhaseOf(m[i]) <= p
          /\ LaneOf(m[i]) = LaneOf(m[n]) => m[i] < m[n]

\* m is the merge of the phases up to p.
MergedTo(m, p) ==
  /\ m \in Seq(1..Batch) /\ Once(m) /\ Range(m) = UpToPhase(p)
  /\ LanesTakeTurns(m)

\* m is the merge after c visits of the lanes of phase p: from each lane its
\* first events are taken, one for each visit as long as there are any.
AfterVisits(m, p, c) ==
  /\ m \in Seq(1..Batch) /\ Once(m)
  /\ UpToPhase(p - 1) \subseteq Range(m) /\ Range(m) \subseteq UpToPhase(p)
  /\ \A i, j \in 1..Batch :
       /\ PhaseOf(i) = p /\ PhaseOf(j) = p /\ LaneOf(i) = LaneOf(j)
       /\ i < j /\ j \in Range(m)
       => i \in Range(m)
  /\ \A l \in 1..LaneCount :
       /\ Cardinality(Taken(m, Len(m), p, l)) <= Turns(l, c)
       /\ Cardinality(Taken(m, Len(m), p, l)) < Cardinality(OfLane(p, l))
            => Cardinality(Taken(m, Len(m), p, l)) = Turns(l, c)
  /\ LanesTakeTurns(m)

LEMMA TurnsAtEach ==
  ASSUME NEW m
  PROVE  LanesTakeTurns(m) <=> \A n \in DOMAIN m : TurnsAt(m, n)
  BY DEF LanesTakeTurns, TurnsAt, Taken, OfLane

LEMMA TurnsAtPlace ==
  ASSUME NEW m, NEW n, NEW p, NEW v, PhaseOf(m[n]) = p, LaneOf(m[n]) = v,
         \A k, l \in 1..LaneCount :
           Cardinality(Taken(m, n, p, l)) < Cardinality(OfLane(p, l))
             => Cardinality(Taken(m, n, p, k))
                  <= Cardinality(Taken(m, n, p, l)) + 1,
         \A i \in 1..(n - 1) :
           /\ PhaseOf(m[i]) <= p
           /\ LaneOf(m[i]) = v => m[i] < m[n]
  PROVE  TurnsAt(m, n)
  BY DEF TurnsAt

LEMMA TakenFinite ==
  ASSUME NEW m, NEW n \in Nat, NEW p, NEW l
  PROVE  /\ IsFiniteSet(Taken(m, n, p, l))
         /\ Cardinality(Taken(m, n, p, l)) \in Nat
         /\ IsFiniteSet(OfLane(p, l)) /\ Cardinality(OfLane(p, l)) \in Nat
  <1>1. IsFiniteSet(1..n) /\ IsFiniteSet(1..Batch)
    <2>1. 1 \in Int /\ n \in Int /\ Batch \in Int
      BY PageConstants
    <2>. QED
      BY <2>1, FS_Interval
  <1>2. Taken(m, n, p, l) \subseteq 1..n /\ OfLane(p, l) \subseteq 1..Batch
    BY DEF Taken, OfLane
  <1>3. IsFiniteSet(Taken(m, n, p, l)) /\ IsFiniteSet(OfLane(p, l))
    BY <1>1, <1>2, FS_Subset
  <1>. QED
    BY <1>3, FS_CardinalityType

\* A lane all of whose events are taken has been taken from that often.
LEMMA LaneCovered ==
  ASSUME NEW m \in Seq(1..Batch), NEW p, NEW l, OfLane(p, l) \subseteq Range(m)
  PROVE  Cardinality(OfLane(p, l)) <= Cardinality(Taken(m, Len(m), p, l))
  <1>. DEFINE S == Taken(m, Len(m), p, l)
              f == [i \in S |-> m[i]]
  <1>1. Len(m) \in Nat /\ DOMAIN m = 1..Len(m)
    BY LenProperties
  <1>2. IsFiniteSet(S) /\ Cardinality(OfLane(p, l)) \in Nat
    BY <1>1, TakenFinite
  <1>3. f \in [S -> OfLane(p, l)]
    <2>1. ASSUME NEW i \in S
          PROVE  m[i] \in OfLane(p, l)
      <3>1. i \in 1..Len(m) /\ PhaseOf(m[i]) = p /\ LaneOf(m[i]) = l
        BY DEF Taken
      <3>2. m[i] \in 1..Batch
        BY <3>1, ElementOfSeq
      <3>. QED
        BY <3>1, <3>2 DEF OfLane
    <2>. QED
      BY <2>1
  <1>4. ASSUME NEW e \in OfLane(p, l)
        PROVE  \E i \in S : f[i] = e
    <2>1. PICK i \in DOMAIN m : m[i] = e
      BY DEF Range
    <2>2. i \in S
      BY <1>1, <2>1 DEF Taken, OfLane
    <2>. QED
      BY <2>1, <2>2
  <1>5. f \in Surjection(S, OfLane(p, l))
    BY <1>3, <1>4 DEF Surjection
  <1>. QED
    BY <1>2, <1>5, FS_Surjection

\* A visit that finds nothing is a visit all the same.
LEMMA IdleVisit ==
  ASSUME NEW p \in 1..PhaseCount, NEW c \in Nat, NEW m, AfterVisits(m, p, c),
         Left(m, p, c + 1) = {}
  PROVE  AfterVisits(m, p, c + 1)
  <1>1. m \in Seq(1..Batch) /\ Len(m) \in Nat
    BY LenProperties DEF AfterVisits
  <1>2. ASSUME NEW l \in 1..LaneCount
        PROVE  /\ Cardinality(Taken(m, Len(m), p, l)) <= Turns(l, c + 1)
               /\ Cardinality(Taken(m, Len(m), p, l))
                    < Cardinality(OfLane(p, l))
                  => Cardinality(Taken(m, Len(m), p, l)) = Turns(l, c + 1)
    <2>. DEFINE K == Cardinality(Taken(m, Len(m), p, l))
                A == Cardinality(OfLane(p, l))
                T == Turns(l, c)
                U == Turns(l, c + 1)
    <2>1. K \in Nat /\ A \in Nat
      BY <1>1, TakenFinite
    <2>2. K <= T /\ (K < A => K = T)
      BY DEF AfterVisits
    <2>3. T \in Nat /\ (U = T \/ (U = T + 1 /\ Visited(c + 1) = l))
      BY TurnStep
    <2>4. Visited(c + 1) = l => A <= K
      <3>. SUFFICES ASSUME Visited(c + 1) = l PROVE A <= K
        OBVIOUS
      <3>1. OfLane(p, l) \subseteq Range(m)
        BY DEF Left, OfLane
      <3>. QED
        BY <1>1, <3>1, LaneCovered
    <2>5. T \in Nat
      BY TurnStep
    <2>. HIDE DEF K, A, T, U
    <2>6. K <= U /\ (K < A => K = U)
      BY <2>1, <2>2, <2>3, <2>4, <2>5
    <2>. QED
      BY <2>6 DEF K, A, U
  <1>. QED
    BY <1>2 DEF AfterVisits

\* The first event left of a lane
FirstOf(e, m, p, l) ==
  /\ e \in OfLane(p, l) /\ e \notin Range(m)
  /\ \A j \in OfLane(p, l) \ Range(m) : e <= j

LEMMA VisitTakesFirst ==
  ASSUME NEW m, NEW p, NEW c \in Nat, Left(m, p, c + 1) # {}
  PROVE  \E e : /\ FirstOf(e, m, p, Visited(c + 1))
                /\ Visit(m, p, c + 1) = Append(m, e)
  <1>. DEFINE T == Left(m, p, c + 1)
              e == CHOOSE i \in T : \A j \in T : i <= j
  <1>1. T = OfLane(p, Visited(c + 1)) \ Range(m)
    BY DEF Left, OfLane
  <1>2. \E i \in T : \A j \in T : i <= j
    <2>1. T \in SUBSET Nat /\ T # {}
      BY DEF Left
    <2>. HIDE DEF T
    <2>. QED
      BY <2>1, LeastNumber
  <1>3. e \in T /\ \A j \in T : e <= j
    <2>. HIDE DEF T
    <2>. QED
      BY <1>2
  <1>4. Visit(m, p, c + 1) = Append(m, e)
    BY DEF Visit
  <1>. HIDE DEF e
  <1>5. FirstOf(e, m, p, Visited(c + 1))
    <2>. HIDE DEF T
    <2>. QED
      BY <1>1, <1>3 DEF FirstOf
  <1>. QED
    BY <1>4, <1>5

\* One place more has one event more.
LEMMA TakenAppend ==
  ASSUME NEW m \in Seq(1..Batch), NEW e \in 1..Batch, NEW p, NEW l
  PROVE  /\ \A n \in 1..Len(m) :
              Taken(Append(m, e), n, p, l) = Taken(m, n, p, l)
         /\ ~(PhaseOf(e) = p /\ LaneOf(e) = l) =>
              Cardinality(Taken(Append(m, e), Len(m) + 1, p, l))
                = Cardinality(Taken(m, Len(m), p, l))
         /\ PhaseOf(e) = p /\ LaneOf(e) = l =>
              Cardinality(Taken(Append(m, e), Len(m) + 1, p, l))
                = Cardinality(Taken(m, Len(m), p, l)) + 1
  <1>. DEFINE r == Append(m, e)
  <1>1. /\ Len(m) \in Nat /\ Len(r) = Len(m) + 1
        /\ \A i \in 1..Len(m) : r[i] = m[i]
        /\ r[Len(m) + 1] = e
    BY AppendProperties, LenProperties
  <1>. HIDE DEF r
  <1>2. ASSUME NEW n \in 1..Len(m)
        PROVE  Taken(r, n, p, l) = Taken(m, n, p, l)
    <2>1. 1..n \subseteq 1..Len(m)
      BY <1>1
    <2>. QED
      BY <1>1, <2>1 DEF Taken
  <1>3. CASE ~(PhaseOf(e) = p /\ LaneOf(e) = l)
    <2>1. Taken(r, Len(m) + 1, p, l) = Taken(m, Len(m), p, l)
      <3>1. 1..(Len(m) + 1) = (1..Len(m)) \cup {Len(m) + 1}
        BY <1>1
      <3>. QED
        BY <1>1, <1>3, <3>1 DEF Taken
    <2>. QED
      BY <1>2, <1>3, <2>1 DEF r
  <1>4. CASE PhaseOf(e) = p /\ LaneOf(e) = l
    <2>1. Taken(r, Len(m) + 1, p, l) = Taken(m, Len(m), p, l) \cup {Len(m) + 1}
      <3>1. 1..(Len(m) + 1) = (1..Len(m)) \cup {Len(m) + 1}
        BY <1>1
      <3>. QED
        BY <1>1, <1>4, <3>1 DEF Taken
    <2>2. Len(m) + 1 \notin Taken(m, Len(m), p, l)
      BY <1>1 DEF Taken
    <2>3. Cardinality(Taken(m, Len(m), p, l) \cup {Len(m) + 1})
            = Cardinality(Taken(m, Len(m), p, l)) + 1
      BY <1>1, <2>2, TakenFinite, FS_AddElement
    <2>. QED
      BY <1>2, <1>4, <2>1, <2>3 DEF r
  <1>. QED
    BY <1>3, <1>4

\* What the first event left of the lane in turn does to the merge
LEMMA VisitTurn ==
  ASSUME NEW p \in 1..PhaseCount, NEW c \in Nat, NEW m, AfterVisits(m, p, c),
         NEW e, FirstOf(e, m, p, Visited(c + 1))
  PROVE  AfterVisits(Append(m, e), p, c + 1)
  <1>. DEFINE r == Append(m, e)
              v == Visited(c + 1)
              N == Len(m)
              K(l) == Cardinality(Taken(m, N, p, l))
              J(l) == Cardinality(Taken(r, N + 1, p, l))
              A(l) == Cardinality(OfLane(p, l))
  <1>1. m \in Seq(1..Batch) /\ N \in Nat /\ DOMAIN m = 1..N
    BY LenProperties DEF AfterVisits
  <1>2. e \in 1..Batch /\ PhaseOf(e) = p /\ LaneOf(e) = v /\ e \notin Range(m)
    BY DEF FirstOf, OfLane
  <1>3. /\ r \in Seq(1..Batch) /\ Len(r) = N + 1 /\ DOMAIN r = 1..(N + 1)
        /\ \A i \in 1..N : r[i] = m[i]
        /\ r[N + 1] = e
    BY <1>1, <1>2, AppendProperties, LenProperties
  <1>4. \A i \in 1..N : m[i] \in 1..Batch /\ m[i] \in Range(m)
    BY <1>1, ElementOfSeq DEF Range
  <1>5. Range(r) = Range(m) \cup {e}
    BY <1>1, <1>3 DEF Range
  <1>6. v \in 1..LaneCount
    BY <1>2, Events
  <1>7. /\ \A q, l : \A n \in 1..N : Taken(r, n, q, l) = Taken(m, n, q, l)
        /\ \A l \in 1..LaneCount : J(l) = IF l = v THEN K(l) + 1 ELSE K(l)
    BY <1>1, <1>2, TakenAppend
  <1>8. \A l \in 1..LaneCount : K(l) \in Nat /\ A(l) \in Nat
    BY <1>1, TakenFinite
  <1>. HIDE DEF r, v
  <1>9. Once(r)
    <2>1. ASSUME NEW i \in 1..(N + 1), NEW j \in 1..(N + 1), r[i] = r[j],
                 i < j
          PROVE  FALSE
      <3>1. i \in 1..N
        BY <1>1, <2>1
      <3>2. CASE j = N + 1
        BY <1>2, <1>3, <1>4, <2>1, <3>1, <3>2
      <3>3. CASE j \in 1..N
        <4>1. m[i] = m[j]
          BY <1>3, <2>1, <3>1, <3>3
        <4>2. i = j
          BY <3>1, <3>3, <4>1 DEF AfterVisits, Once
        <4>. QED
          BY <1>1, <2>1, <4>2
      <3>. QED
        BY <1>1, <3>2, <3>3
    <2>2. ASSUME NEW i \in 1..Len(r), NEW j \in 1..Len(r), r[i] = r[j]
          PROVE  i = j
      <3>1. i \in Int /\ j \in Int /\ ~(i < j) /\ ~(j < i)
        BY <1>3, <2>1, <2>2
      <3>. QED
        BY <3>1
    <2>. QED
      BY <2>2 DEF Once
  <1>10. UpToPhase(p - 1) \subseteq Range(r) /\ Range(r) \subseteq UpToPhase(p)
    <2>1. e \in UpToPhase(p)
      BY <1>2 DEF UpToPhase
    <2>. QED
      BY <1>5, <2>1 DEF AfterVisits
  <1>11. ASSUME NEW i \in 1..Batch, NEW j \in 1..Batch, PhaseOf(i) = p,
                PhaseOf(j) = p, LaneOf(i) = LaneOf(j), i < j, j \in Range(r)
         PROVE  i \in Range(r)
    <2>1. CASE j \in Range(m)
      BY <1>5, <1>11, <2>1 DEF AfterVisits
    <2>2. CASE j = e
      <3>1. i \in OfLane(p, v)
        BY <1>2, <1>11, <2>2 DEF OfLane
      <3>2. e \in Int /\ i \in Int /\ ~(e <= i)
        BY <1>11, <2>2
      <3>3. i \in Range(m)
        BY <3>1, <3>2 DEF FirstOf, v
      <3>. QED
        BY <1>5, <3>3
    <2>. QED
      BY <1>5, <1>11, <2>1, <2>2
  <1>12. ASSUME NEW l \in 1..LaneCount
         PROVE  /\ J(l) <= Turns(l, c + 1)
                /\ J(l) < A(l) => J(l) = Turns(l, c + 1)
    <2>. DEFINE k == K(l)  j == J(l)  a == A(l)
                T == Turns(l, c)  U == Turns(l, c + 1)
    <2>1. k \in Nat /\ a \in Nat /\ T \in Nat
      BY <1>8, TurnStep
    <2>2. j = IF l = v THEN k + 1 ELSE k
      BY <1>7
    <2>3. U = IF l = v THEN T + 1 ELSE T
      BY TurnStep DEF v
    <2>4. k <= T /\ (k < a => k = T)
      BY DEF AfterVisits
    <2>. HIDE DEF k, j, a, T, U
    <2>5. j <= U /\ (j < a => j = U)
      BY <2>1, <2>2, <2>3, <2>4
    <2>. QED
      BY <2>5 DEF j, a, U
  <1>13. ASSUME NEW n \in 1..N
         PROVE  TurnsAt(r, n)
    <2>1. TurnsAt(m, n)
      BY <1>1, TurnsAtEach DEF AfterVisits
    <2>2. r[n] = m[n] /\ \A i \in 1..(n - 1) : r[i] = m[i]
      BY <1>1, <1>3
    <2>3. \A q, l : Taken(r, n, q, l) = Taken(m, n, q, l)
      BY <1>7
    <2>. QED
      BY <2>1, <2>2, <2>3 DEF TurnsAt
  <1>14. TurnsAt(r, N + 1)
    <2>1. ASSUME NEW k \in 1..LaneCount, NEW l \in 1..LaneCount, J(l) < A(l)
          PROVE  J(k) <= J(l) + 1
      <3>1. /\ J(k) <= Turns(k, c + 1) /\ J(l) = Turns(l, c + 1)
            /\ Turns(k, c + 1) <= Turns(l, c + 1) + 1
        BY <1>12, <2>1, TurnsAlike
      <3>2. J(k) \in Nat /\ Turns(k, c + 1) \in Nat /\ Turns(l, c + 1) \in Nat
        <4>1. c + 1 \in Nat
          OBVIOUS
        <4>2. J(k) \in Nat
          BY <1>1, TakenFinite
        <4>. QED
          BY <4>1, <4>2, TurnStep
      <3>. DEFINE x == J(k)  y == Turns(k, c + 1)  z == Turns(l, c + 1)
      <3>3. x <= z + 1
        <4>1. x \in Nat /\ y \in Nat /\ z \in Nat /\ x <= y /\ y <= z + 1
          BY <3>1, <3>2
        <4>. HIDE DEF x, y, z
        <4>. QED
          BY <4>1
      <3>. QED
        BY <3>1, <3>3
    <2>2. ASSUME NEW i \in 1..N
          PROVE  /\ PhaseOf(m[i]) <= p
                 /\ LaneOf(m[i]) = v => m[i] < e
      <3>1. m[i] \in 1..Batch /\ m[i] \in Range(m) /\ m[i] # e
        BY <1>2, <1>4
      <3>2. PhaseOf(m[i]) <= p
        BY <3>1 DEF AfterVisits, UpToPhase
      <3>3. ASSUME LaneOf(m[i]) = v, e < m[i]
            PROVE  FALSE
        <4>1. PhaseOf(e) <= PhaseOf(m[i]) /\ PhaseOf(m[i]) \in Int
          BY <1>2, <3>1, <3>3, Events
        <4>2. PhaseOf(m[i]) = p
          BY <1>2, <3>2, <4>1
        <4>3. e \in Range(m)
          BY <1>2, <3>1, <3>3, <4>2 DEF AfterVisits
        <4>. QED
          BY <1>2, <4>3
      <3>4. m[i] \in Int /\ e \in Int
        BY <1>2, <3>1
      <3>. QED
        BY <3>1, <3>2, <3>3, <3>4
    <2>3. \A i \in 1..(N + 1 - 1) : i \in 1..N /\ r[i] = m[i]
      BY <1>1, <1>3
    <2>. DEFINE n == N + 1
    <2>4. PhaseOf(r[n]) = p /\ LaneOf(r[n]) = v
      BY <1>2, <1>3
    <2>5. \A k, l \in 1..LaneCount :
            Cardinality(Taken(r, n, p, l)) < Cardinality(OfLane(p, l))
              => Cardinality(Taken(r, n, p, k))
                   <= Cardinality(Taken(r, n, p, l)) + 1
      BY <2>1
    <2>6. \A i \in 1..(n - 1) :
            /\ PhaseOf(r[i]) <= p
            /\ LaneOf(r[i]) = v => r[i] < r[n]
      BY <1>3, <2>2, <2>3
    <2>7. TurnsAt(r, n)
      <3>. HIDE DEF n, N
      <3>. QED
        BY <2>4, <2>5, <2>6, TurnsAtPlace
    <2>. QED
      BY <2>7
  <1>15. LanesTakeTurns(r)
    <2>1. \A n \in DOMAIN r : TurnsAt(r, n)
      BY <1>1, <1>3, <1>13, <1>14
    <2>. QED
      BY <2>1, TurnsAtEach
  <1>16. AfterVisits(r, p, c + 1)
    <2>1. \A l \in 1..LaneCount :
            /\ Cardinality(Taken(r, Len(r), p, l)) <= Turns(l, c + 1)
            /\ Cardinality(Taken(r, Len(r), p, l)) < Cardinality(OfLane(p, l))
                 => Cardinality(Taken(r, Len(r), p, l)) = Turns(l, c + 1)
      BY <1>3, <1>12
    <2>2. \A i, j \in 1..Batch :
            /\ PhaseOf(i) = p /\ PhaseOf(j) = p /\ LaneOf(i) = LaneOf(j)
            /\ i < j /\ j \in Range(r)
            => i \in Range(r)
      BY <1>11
    <2>. QED
      BY <1>3, <1>9, <1>10, <1>15, <2>1, <2>2 DEF AfterVisits
  <1>. QED
    BY <1>16 DEF r

LEMMA VisitStep ==
  ASSUME NEW p \in 1..PhaseCount, NEW c \in Nat, NEW m, AfterVisits(m, p, c)
  PROVE  AfterVisits(Visit(m, p, c + 1), p, c + 1)
  <1>1. CASE Left(m, p, c + 1) = {}
    <2>1. Visit(m, p, c + 1) = m
      BY <1>1 DEF Visit
    <2>. QED
      BY <1>1, <2>1, IdleVisit
  <1>2. CASE Left(m, p, c + 1) # {}
    <2>1. PICK e : /\ FirstOf(e, m, p, Visited(c + 1))
                   /\ Visit(m, p, c + 1) = Append(m, e)
      BY <1>2, VisitTakesFirst
    <2>. QED
      BY <2>1, VisitTurn
  <1>. QED
    BY <1>1, <1>2

\* A phase begins where the one before it ended.
LEMMA PhaseBegins ==
  ASSUME NEW p \in 1..PhaseCount, NEW m, MergedTo(m, p - 1)
  PROVE  AfterVisits(m, p, 0)
  <1>1. m \in Seq(1..Batch) /\ Len(m) \in Nat /\ DOMAIN m = 1..Len(m)
    BY LenProperties DEF MergedTo
  <1>2. \A i \in 1..Len(m) : m[i] \in 1..Batch /\ PhaseOf(m[i]) <= p - 1
    BY <1>1, ElementOfSeq DEF MergedTo, Range, UpToPhase
  <1>3. ASSUME NEW l \in 1..LaneCount
        PROVE  Cardinality(Taken(m, Len(m), p, l)) = 0 /\ Turns(l, 0) = 0
    <2>1. \A i \in 1..Len(m) : PhaseOf(m[i]) # p
      BY <1>2, Events, PageConstants
    <2>2. Taken(m, Len(m), p, l) = {}
      BY <2>1 DEF Taken
    <2>. QED
      BY <2>2, TurnStep, FS_EmptySet
  <1>4. UpToPhase(p - 1) \subseteq UpToPhase(p)
    BY Events, PageConstants DEF UpToPhase
  <1>5. \A j \in 1..Batch : PhaseOf(j) = p => j \notin Range(m)
    BY Events, PageConstants DEF MergedTo, UpToPhase
  <1>. QED
    BY <1>1, <1>3, <1>4, <1>5 DEF MergedTo, AfterVisits

\* After as many visits of each lane as there are events, none is left.
LEMMA PhaseEnds ==
  ASSUME NEW p \in 1..PhaseCount, NEW m,
         AfterVisits(m, p, Batch * LaneCount)
  PROVE  MergedTo(m, p)
  <1>1. m \in Seq(1..Batch) /\ Len(m) \in Nat /\ DOMAIN m = 1..Len(m)
        /\ Batch * LaneCount \in Nat
    BY LenProperties, PageConstants DEF AfterVisits
  <1>2. ASSUME NEW l \in 1..LaneCount
        PROVE  OfLane(p, l) \subseteq Range(m)
    <2>. DEFINE S == Taken(m, Len(m), p, l)
                f == [i \in S |-> m[i]]
    <2>1. /\ IsFiniteSet(S) /\ Cardinality(S) \in Nat
          /\ IsFiniteSet(OfLane(p, l)) /\ Cardinality(OfLane(p, l)) \in Nat
      BY <1>1, TakenFinite
    <2>2. Cardinality(OfLane(p, l)) <= Batch
      <3>1. OfLane(p, l) \subseteq 1..Batch
        BY DEF OfLane
      <3>2. IsFiniteSet(1..Batch) /\ Cardinality(1..Batch) = Batch
        <4>1. 1 \in Int /\ Batch \in Int /\ Batch - 1 + 1 = Batch /\ 1 <= Batch
          BY PageConstants
        <4>. QED
          BY <4>1, FS_Interval
      <3>. QED
        BY <3>1, <3>2, FS_Subset
    <2>3. Cardinality(OfLane(p, l)) <= Cardinality(S)
      <3>1. Turns(l, Batch * LaneCount) = Batch
        BY <1>1, TurnStep
      <3>2. Cardinality(S) < Cardinality(OfLane(p, l)) =>
              Cardinality(S) = Batch
        BY <3>1 DEF AfterVisits
      <3>. QED
        BY <2>1, <2>2, <3>2, PageConstants
    <2>4. f \in Injection(S, OfLane(p, l))
      <3>1. \A i \in 1..Len(m) : m[i] \in 1..Batch
        BY <1>1, ElementOfSeq
      <3>2. f \in [S -> OfLane(p, l)]
        BY <3>1 DEF Taken, OfLane
      <3>3. \A i, j \in S : m[i] = m[j] => i = j
        BY DEF Taken, AfterVisits, Once
      <3>. QED
        BY <3>2, <3>3 DEF Injection, IsInjective
    <2>5. f \in Surjection(S, OfLane(p, l))
      <3>1. /\ Cardinality(S) <= Cardinality(OfLane(p, l))
            /\ Cardinality(S) = Cardinality(OfLane(p, l)) =>
                 f \in Surjection(S, OfLane(p, l))
        <4>. HIDE DEF S, f
        <4>. QED
          BY <2>1, <2>4, FS_Injection
      <3>. QED
        BY <2>1, <2>3, <3>1
    <2>. QED
      BY <1>1, <2>5 DEF Surjection, Taken, Range
  <1>3. UpToPhase(p) \subseteq Range(m)
    <2>1. ASSUME NEW i \in UpToPhase(p)
          PROVE  i \in Range(m)
      <3>1. i \in 1..Batch /\ PhaseOf(i) \in Int /\ PhaseOf(i) <= p
            /\ LaneOf(i) \in 1..LaneCount
        BY Events DEF UpToPhase
      <3>2. CASE PhaseOf(i) = p
        BY <1>2, <3>1, <3>2 DEF OfLane
      <3>3. CASE PhaseOf(i) <= p - 1
        BY <3>1, <3>3 DEF AfterVisits, UpToPhase
      <3>. QED
        BY <3>1, <3>2, <3>3
    <2>. QED
      BY <2>1
  <1>. QED
    BY <1>3 DEF AfterVisits, MergedTo

LEMMA VisitType ==
  ASSUME NEW m \in Seq(1..Batch), NEW p, NEW c \in Nat, c # 0
  PROVE  Visit(m, p, c) \in Seq(1..Batch)
  <1>1. CASE Left(m, p, c) = {}
    BY <1>1 DEF Visit
  <1>2. CASE Left(m, p, c) # {}
    <2>1. c - 1 \in Nat /\ c - 1 + 1 = c
      OBVIOUS
    <2>2. PICK e : /\ FirstOf(e, m, p, Visited(c))
                   /\ Visit(m, p, c) = Append(m, e)
      <3>1. \A d \in Nat : d + 1 = c =>
              \E e : /\ FirstOf(e, m, p, Visited(c))
                     /\ Visit(m, p, c) = Append(m, e)
        BY <1>2, VisitTakesFirst
      <3>. QED
        BY <2>1, <3>1
    <2>3. e \in 1..Batch
      BY <2>2 DEF FirstOf, OfLane
    <2>. QED
      BY <2>2, <2>3, AppendProperties
  <1>. QED
    BY <1>1, <1>2

\* The visits of a phase, one after the other
LEMMA VisitsUnfold ==
  ASSUME NEW m \in Seq(1..Batch), NEW p
  PROVE  \E h : /\ MergePhase(m, p) = h[Batch * LaneCount]
                /\ h[0] = m
                /\ \A c \in 1..(Batch * LaneCount) :
                     h[c] = Visit(h[c - 1], p, c)
  <1>. DEFINE N == Batch * LaneCount
              V == Seq(1..Batch)
              F == [s \in V \X (1..N) |-> Visit(s[1], p, s[2])]
              h == CHOOSE x :
                     x = [c \in 0..(Batch * LaneCount) |->
                            IF c = 0 THEN m ELSE Visit(x[c - 1], p, c)]
  <1>1. N \in Nat
    BY PageConstants
  <1>2. MergePhase(m, p) = h[N]
    BY DEF MergePhase
  <1>3. F \in [V \X (1..N) -> V]
    <2>1. ASSUME NEW s \in V, NEW c \in 1..N
          PROVE  Visit(s, p, c) \in V
      <3>1. c \in Nat /\ c # 0
        BY <1>1
      <3>. QED
        BY <3>1, VisitType
    <2>. HIDE DEF N, V
    <2>. QED
      BY <2>1
  <1>4. PICK g \in [0..N -> V] :
          g[0] = m /\ \A c \in 1..N : g[c] = F[<<g[c - 1], c>>]
    <2>1. m \in V
      OBVIOUS
    <2>2. \E g : GoesOn(N, V, m, F, g)
      <3>. HIDE DEF F, N, V
      <3>. QED
        BY <1>1, <1>3, <2>1, StepByStep
    <2>. QED
      BY <2>2 DEF GoesOn
  <1>5. g = [c \in 0..N |-> IF c = 0 THEN m ELSE Visit(g[c - 1], p, c)]
    <2>1. ASSUME NEW c \in 1..N
          PROVE  g[c] = Visit(g[c - 1], p, c)
      <3>1. g[c - 1] \in V
        <4>1. c - 1 \in 0..N
          BY <1>1
        <4>. HIDE DEF N, V
        <4>. QED
          BY <4>1
      <3>2. <<g[c - 1], c>> \in V \X (1..N)
        BY <3>1
      <3>. HIDE DEF N, V
      <3>. QED
        BY <1>4, <3>2
    <2>2. \A c \in 0..N : c = 0 \/ c \in 1..N
      BY <1>1
    <2>. HIDE DEF N, V, F
    <2>. QED
      BY <1>4, <2>1, <2>2
  <1>6. h = [c \in 0..N |-> IF c = 0 THEN m ELSE Visit(h[c - 1], p, c)]
    <2>. HIDE DEF V, F
    <2>. QED
      BY <1>5
  <1>. HIDE DEF h
  <1>7. h[0] = m /\ \A c \in 1..N : h[c] = Visit(h[c - 1], p, c)
    <2>1. 0 \in 0..N /\ \A c \in 1..N : c \in 0..N /\ c # 0
      BY <1>1
    <2>. HIDE DEF N, V, F
    <2>. QED
      BY <1>6, <2>1
  <1>. QED
    BY <1>2, <1>7

LEMMA PhaseMerged ==
  ASSUME NEW p \in 1..PhaseCount, NEW m, MergedTo(m, p - 1)
  PROVE  MergedTo(MergePhase(m, p), p)
  <1>1. m \in Seq(1..Batch)
    BY DEF MergedTo
  <1>. DEFINE N == Batch * LaneCount
  <1>2. N \in Nat
    BY PageConstants
  <1>3. PICK h : /\ MergePhase(m, p) = h[N]
                 /\ h[0] = m
                 /\ \A c \in 1..N : h[c] = Visit(h[c - 1], p, c)
    BY <1>1, VisitsUnfold
  <1>. HIDE DEF N
  <1>. DEFINE P == {c \in 0..N : AfterVisits(h[c], p, c)}
  <1>4. 0 \in P
    BY <1>2, <1>3, PhaseBegins
  <1>5. ASSUME NEW c \in 0..N - 1, c \in P
        PROVE  c + 1 \in P
    <2>1. c \in Nat /\ c + 1 \in 1..N /\ c + 1 - 1 = c
      BY <1>2
    <2>2. AfterVisits(Visit(h[c], p, c + 1), p, c + 1)
      BY <1>5, <2>1, VisitStep
    <2>3. h[c + 1] = Visit(h[c], p, c + 1)
      BY <1>3, <2>1
    <2>. QED
      BY <1>2, <2>1, <2>2, <2>3
  <1>6. P = 0..N
    <2>1. P \in SUBSET (0..N)
      OBVIOUS
    <2>. HIDE DEF P
    <2>. QED
      BY <1>2, <1>4, <1>5, <2>1, UpTo
  <1>7. AfterVisits(h[N], p, N)
    <2>1. N \in 0..N
      BY <1>2
    <2>. QED
      BY <1>6, <2>1
  <1>. QED
    BY <1>3, <1>7, PhaseEnds DEF N

LEMMA MergePhaseType ==
  ASSUME NEW m \in Seq(1..Batch), NEW p
  PROVE  MergePhase(m, p) \in Seq(1..Batch)
  <1>. DEFINE N == Batch * LaneCount
  <1>1. N \in Nat
    BY PageConstants
  <1>2. PICK h : /\ MergePhase(m, p) = h[N]
                 /\ h[0] = m
                 /\ \A c \in 1..N : h[c] = Visit(h[c - 1], p, c)
    BY VisitsUnfold
  <1>. HIDE DEF N
  <1>. DEFINE P == {c \in 0..N : h[c] \in Seq(1..Batch)}
  <1>3. 0 \in P
    BY <1>1, <1>2
  <1>4. ASSUME NEW c \in 0..N - 1, c \in P
        PROVE  c + 1 \in P
    <2>1. c + 1 \in 1..N /\ c + 1 - 1 = c /\ c + 1 \in Nat /\ c + 1 # 0
      BY <1>1
    <2>2. h[c + 1] = Visit(h[c], p, c + 1)
      BY <1>2, <2>1
    <2>3. Visit(h[c], p, c + 1) \in Seq(1..Batch)
      BY <1>4, <2>1, VisitType
    <2>. QED
      BY <1>1, <2>1, <2>2, <2>3
  <1>5. P = 0..N
    <2>1. P \in SUBSET (0..N)
      OBVIOUS
    <2>. HIDE DEF P
    <2>. QED
      BY <1>1, <1>3, <1>4, <2>1, UpTo
  <1>. QED
    BY <1>1, <1>2, <1>5

\* The phases, one after the other
LEMMA PhasesUnfold ==
  \E h : /\ Merged = h[PhaseCount]
         /\ h[0] = <<>>
         /\ \A p \in 1..PhaseCount : h[p] = MergePhase(h[p - 1], p)
  <1>. DEFINE N == PhaseCount
              V == Seq(1..Batch)
              F == [s \in V \X (1..N) |-> MergePhase(s[1], s[2])]
              h == CHOOSE x :
                     x = [p \in 0..PhaseCount |->
                            IF p = 0 THEN <<>> ELSE MergePhase(x[p - 1], p)]
  <1>1. N \in Nat
    BY PageConstants
  <1>2. Merged = h[N]
    BY DEF Merged
  <1>3. F \in [V \X (1..N) -> V]
    <2>1. ASSUME NEW s \in V, NEW c \in 1..N
          PROVE  MergePhase(s, c) \in V
      BY MergePhaseType
    <2>. HIDE DEF N, V
    <2>. QED
      BY <2>1
  <1>4. PICK g \in [0..N -> V] :
          g[0] = <<>> /\ \A c \in 1..N : g[c] = F[<<g[c - 1], c>>]
    <2>1. <<>> \in V
      OBVIOUS
    <2>2. \E g : GoesOn(N, V, <<>>, F, g)
      <3>. HIDE DEF F, N, V
      <3>. QED
        BY <1>1, <1>3, <2>1, StepByStep
    <2>. QED
      BY <2>2 DEF GoesOn
  <1>5. g = [p \in 0..N |-> IF p = 0 THEN <<>> ELSE MergePhase(g[p - 1], p)]
    <2>1. ASSUME NEW c \in 1..N
          PROVE  g[c] = MergePhase(g[c - 1], c)
      <3>1. g[c - 1] \in V
        <4>1. c - 1 \in 0..N
          BY <1>1
        <4>. HIDE DEF N, V
        <4>. QED
          BY <4>1
      <3>2. <<g[c - 1], c>> \in V \X (1..N)
        BY <3>1
      <3>. HIDE DEF N, V
      <3>. QED
        BY <1>4, <3>2
    <2>2. \A c \in 0..N : c = 0 \/ c \in 1..N
      BY <1>1
    <2>. HIDE DEF N, V, F
    <2>. QED
      BY <1>4, <2>1, <2>2
  <1>6. h = [p \in 0..N |-> IF p = 0 THEN <<>> ELSE MergePhase(h[p - 1], p)]
    <2>. HIDE DEF V, F
    <2>. QED
      BY <1>5
  <1>. HIDE DEF h
  <1>7. h[0] = <<>> /\ \A c \in 1..N : h[c] = MergePhase(h[c - 1], c)
    <2>1. 0 \in 0..N /\ \A c \in 1..N : c \in 0..N /\ c # 0
      BY <1>1
    <2>. HIDE DEF N, V, F
    <2>. QED
      BY <1>6, <2>1
  <1>. QED
    BY <1>2, <1>7

\* The merge has every event once, and the lanes take turns in it.
LEMMA MergedIsSound ==
  /\ Merged \in Seq(1..Batch) /\ Once(Merged) /\ Len(Merged) = Batch
  /\ LanesTakeTurns(Merged)
  <1>1. PICK h : /\ Merged = h[PhaseCount]
                 /\ h[0] = <<>>
                 /\ \A p \in 1..PhaseCount : h[p] = MergePhase(h[p - 1], p)
    BY PhasesUnfold
  <1>2. PhaseCount \in Nat
    BY PageConstants
  <1>. DEFINE P == {p \in 0..PhaseCount : MergedTo(h[p], p)}
  <1>3. 0 \in P
    <2>1. UpToPhase(0) = {}
      BY Events DEF UpToPhase
    <2>2. LanesTakeTurns(<<>>)
      BY TurnsAtEach
    <2>3. <<>> \in Seq(1..Batch) /\ Len(<<>>) = 0 /\ Range(<<>>) = {}
      BY DEF Range
    <2>4. Once(<<>>)
      BY <2>3 DEF Once
    <2>5. MergedTo(<<>>, 0)
      BY <2>1, <2>2, <2>3, <2>4 DEF MergedTo
    <2>. QED
      BY <1>1, <1>2, <2>5
  <1>4. ASSUME NEW p \in 0..PhaseCount - 1, p \in P
        PROVE  p + 1 \in P
    <2>1. p + 1 \in 1..PhaseCount /\ p + 1 - 1 = p
      BY <1>2
    <2>2. h[p + 1] = MergePhase(h[p], p + 1)
      BY <1>1, <2>1
    <2>3. MergedTo(MergePhase(h[p], p + 1), p + 1)
      BY <1>4, <2>1, PhaseMerged
    <2>. QED
      BY <1>2, <2>1, <2>2, <2>3
  <1>5. P = 0..PhaseCount
    <2>1. P \in SUBSET (0..PhaseCount)
      OBVIOUS
    <2>. HIDE DEF P
    <2>. QED
      BY <1>2, <1>3, <1>4, <2>1, UpTo
  <1>6. MergedTo(Merged, PhaseCount)
    BY <1>1, <1>2, <1>5
  <1>. DEFINE N == Len(Merged)
  <1>7. N \in Nat /\ DOMAIN Merged = 1..N /\ Merged \in [1..N -> 1..Batch]
    BY <1>6, LenProperties DEF MergedTo
  <1>8. Range(Merged) = 1..Batch
    BY <1>6, Events DEF MergedTo, UpToPhase
  <1>9. Merged \in Injection(1..N, 1..Batch)
    BY <1>6, <1>7 DEF MergedTo, Once, Injection, IsInjective
  <1>10. Merged \in Surjection(1..N, 1..Batch)
    BY <1>7, <1>8 DEF Surjection, Range
  <1>11. /\ IsFiniteSet(1..N) /\ Cardinality(1..N) = N
         /\ IsFiniteSet(1..Batch) /\ Cardinality(1..Batch) = Batch
    <2>1. 1 \in Int /\ N \in Int /\ Batch \in Int
      BY <1>7, PageConstants
    <2>2. \A n \in Nat : Cardinality(1..n) = n
      <3>1. \A n \in Nat :
              Cardinality(1..n) = IF 1 > n THEN 0 ELSE n - 1 + 1
        BY FS_Interval
      <3>. QED
        BY <3>1
    <2>. HIDE DEF N
    <2>. QED
      BY <1>7, <2>1, <2>2, PageConstants, FS_Interval
  <1>12. N = Batch
    <2>. HIDE DEF N
    <2>1. N <= Batch /\ Batch <= N
      BY <1>9, <1>10, <1>11, FS_Injection, FS_Surjection
    <2>. QED
      BY <1>7, <2>1, PageConstants
  <1>. QED
    BY <1>6, <1>12 DEF MergedTo

-----------------------------------------------------------------------------
(* The transcript.                                                          *)

\* The context is the end of the transcript.
LEMMA ContextIsEnd ==
  ASSUME NEW b \in Seq(TraceBlock), Scenario.context <= Len(b)
  PROVE  /\ Context(b) \in Seq(TraceBlock)
         /\ Len(Context(b)) = Scenario.context
         /\ IsSuffix(Context(b), b)
  <1>. DEFINE N == Len(b)  c == Scenario.context  s == Context(b)
              x == Reverse(s)  y == Reverse(b)
  <1>1. N \in Nat /\ c \in Nat \ {0} /\ c <= N
        /\ \A i \in 1..N : b[i] \in TraceBlock
    BY LenProperties, ElementOfSeq, PageConstants
  <1>2. /\ s \in Seq(TraceBlock) /\ Len(s) = c
        /\ \A i \in 1..c : s[i] = b[N - c + i]
    <2>. DEFINE from == N - c + 1
    <2>1. from \in Int /\ N \in Int /\ \A i \in from..N : b[i] \in TraceBlock
      BY <1>1
    <2>2. from <= N /\ N - from + 1 = c
      BY <1>1
    <2>3. s = SubSeq(b, from, N)
      BY DEF Context
    <2>. HIDE DEF from, s, c, N
    <2>4. /\ s \in Seq(TraceBlock)
          /\ Len(s) = IF from <= N THEN N - from + 1 ELSE 0
          /\ \A i \in 1..(N - from + 1) : s[i] = b[from + i - 1]
      BY <2>1, <2>3, SubSeqProperties
    <2>5. \A i \in 1..c : from + i - 1 = N - c + i
      BY <1>1 DEF from
    <2>. QED
      BY <2>2, <2>4, <2>5
  <1>. HIDE DEF s
  <1>3. /\ x = [i \in 1..c |-> s[c - i + 1]]
        /\ y = [i \in 1..N |-> b[N - i + 1]]
    BY <1>2 DEF Reverse
  <1>4. \A i \in 1..c : x[i] = y[i] /\ x[i] \in TraceBlock
    <2>1. ASSUME NEW i \in 1..c
          PROVE  x[i] = y[i] /\ x[i] \in TraceBlock
      <3>1. c - i + 1 \in 1..c /\ N - i + 1 \in 1..N /\ i \in 1..N
            /\ N - c + (c - i + 1) = N - i + 1
        BY <1>1
      <3>2. x[i] = s[c - i + 1] /\ y[i] = b[N - i + 1]
        BY <1>3, <3>1
      <3>3. s[c - i + 1] = b[N - i + 1]
        BY <1>2, <3>1
      <3>. QED
        BY <1>1, <3>1, <3>2, <3>3
    <2>. QED
      BY <2>1
  <1>5. Len(x) = c /\ Len(y) = N
    BY <1>1, <1>3
  <1>. HIDE DEF x, y, c, N
  <1>6. SubSeq(x, 1, c) = SubSeq(y, 1, c)
    <2>. DEFINE u == SubSeq(x, 1, c)  v == SubSeq(y, 1, c)
    <2>1. 1 \in Int /\ c \in Int /\ 1 <= c /\ c - 1 + 1 = c
          /\ \A i \in 1..c : 1 + i - 1 = i
      BY <1>1
    <2>2. /\ u \in Seq(TraceBlock) /\ Len(u) = c
          /\ \A i \in 1..c : u[i] = x[i]
      BY <1>4, <2>1, SubSeqProperties
    <2>3. /\ v \in Seq(TraceBlock) /\ Len(v) = c
          /\ \A i \in 1..c : v[i] = y[i]
      BY <1>4, <2>1, SubSeqProperties
    <2>. HIDE DEF u, v
    <2>4. u = v
      BY <1>4, <2>2, <2>3, SeqEqual
    <2>. QED
      BY <2>4 DEF u, v
  <1>7. IsSuffix(s, b)
    BY <1>1, <1>5, <1>6 DEF IsSuffix, IsPrefix, x, y
  <1>. QED
    BY <1>2, <1>7 DEF s, c

LEMMA SeedIsSound == TranscriptOf(InitialWorker)
  <1>. DEFINE seed == [n \in 1..Scenario.visible |->
                         [run |-> 0, event |-> n, ordinal |-> n]]
  <1>1. /\ seed \in Seq(TraceBlock) /\ Len(seed) = Scenario.visible
        /\ DOMAIN seed = 1..Scenario.visible
    <2>1. \A n \in 1..Scenario.visible :
            [run |-> 0, event |-> n, ordinal |-> n] \in TraceBlock
      BY DEF TraceBlock
    <2>. QED
      BY <2>1, PageConstants
  <1>2. \A i \in DOMAIN seed :
          seed[i] = [run |-> 0, event |-> i, ordinal |-> i]
    OBVIOUS
  <1>3. InitialWorker = [blocks |-> seed, index |-> Context(seed), runs |-> 0,
                         updates |-> 0, generations |-> 1]
    BY DEF InitialWorker
  <1>. HIDE DEF seed
  <1>4. Context(seed) \in Seq(TraceBlock)
    BY <1>1, PageConstants, ContextIsEnd
  <1>5. OrdinalsArePlaces(seed)
    BY <1>2 DEF OrdinalsArePlaces
  <1>6. Scenario.visible + 0 * Batch = Scenario.visible
    BY PageConstants
  <1>. DEFINE w == [blocks |-> seed, index |-> Context(seed), runs |-> 0,
                    updates |-> 0, generations |-> 1]
  <1>7. w \in [blocks : Seq(TraceBlock), index : Seq(TraceBlock), runs : Nat,
               updates : Nat, generations : Nat]
    BY <1>1, <1>4
  <1>8. w.blocks = seed /\ w.runs = 0 /\ w.index = Context(seed)
    OBVIOUS
  <1>9. \A i \in DOMAIN seed : seed[i].run <= 0
    BY <1>2
  <1>. HIDE DEF w
  <1>10. TranscriptOf(w)
    BY <1>1, <1>5, <1>6, <1>7, <1>8, <1>9 DEF TranscriptOf
  <1>. QED
    BY <1>3, <1>10 DEF w

LEMMA SendIsSound ==
  ASSUME NEW v, TranscriptOf(v)
  PROVE  /\ TranscriptOf(SendRun(v))
         /\ SendRun(v).updates = v.updates + 1
         /\ SendRun(v).blocks # <<>>
  <1>. DEFINE run == v.runs + 1
              N == Len(v.blocks)
              T == TraceBlocks(run)
              b == v.blocks \o T
  <1>1. /\ v.blocks \in Seq(TraceBlock) /\ v.runs \in Nat /\ N \in Nat
        /\ v.updates \in Nat /\ v.generations \in Nat
        /\ N = Scenario.visible + v.runs * Batch
        /\ \A i \in 1..N : v.blocks[i] \in TraceBlock
        /\ DOMAIN v.blocks = 1..N
    BY LenProperties, ElementOfSeq DEF TranscriptOf
  <1>2. run \in Nat /\ run = v.runs + 1 /\ run - 1 = v.runs
    BY <1>1
  <1>3. /\ Batch \in Nat \ {0} /\ Len(Merged) = Batch
        /\ \A n \in 1..Batch : Merged[n] \in 1..Batch
        /\ Merged = [n \in 1..Batch |-> Merged[n]]
        /\ \A i, j \in 1..Batch : Merged[i] = Merged[j] => i = j
    BY MergedIsSound, PageConstants, LenProperties, ElementOfSeq DEF Once
  <1>4. \A n \in 1..Batch : T[n] = [run |-> run, event |-> Merged[n],
                                    ordinal |-> N + n]
    <2>1. Scenario.visible + (run - 1) * Batch = N
      BY <1>2, <1>1
    <2>. HIDE DEF N, run
    <2>. QED
      BY <1>3, <2>1 DEF TraceBlocks
  <1>5. T \in Seq(TraceBlock) /\ Len(T) = Batch
    <2>1. ASSUME NEW n \in 1..Batch
          PROVE  T[n] \in TraceBlock
      <3>. HIDE DEF T, N, run
      <3>1. run \in Nat /\ Merged[n] \in Nat /\ N + n \in Nat
        BY <1>2, <1>1, <1>3
      <3>2. [run |-> run, event |-> Merged[n], ordinal |-> N + n]
              \in TraceBlock
        BY <3>1 DEF TraceBlock
      <3>. QED
        BY <1>4, <3>2
    <2>2. DOMAIN T = 1..Batch /\ T = [n \in 1..Batch |-> T[n]]
      BY <1>3 DEF TraceBlocks
    <2>. HIDE DEF T
    <2>. QED
      BY <1>3, <2>1, <2>2
  <1>. HIDE DEF T, N, run
  <1>6. /\ b \in Seq(TraceBlock) /\ Len(b) = N + Batch
        /\ DOMAIN b = 1..(N + Batch)
        /\ \A i \in 1..N : b[i] = v.blocks[i]
        /\ \A n \in 1..Batch : b[N + n] = T[n]
    <2>1. /\ b \in Seq(TraceBlock) /\ Len(b) = N + Len(T)
          /\ \A i \in 1..(N + Len(T)) :
               b[i] = IF i <= N THEN v.blocks[i] ELSE T[i - N]
      BY <1>1, <1>5, ConcatProperties DEF N
    <2>2. \A i \in 1..N : i \in 1..(N + Batch) /\ i <= N
      BY <1>1, <1>3
    <2>3. \A n \in 1..Batch : /\ N + n \in 1..(N + Batch) /\ ~(N + n <= N)
                              /\ N + n - N = n
      BY <1>1, <1>3
    <2>. HIDE DEF b
    <2>4. DOMAIN b = 1..(N + Batch)
      BY <1>5, <2>1, LenProperties
    <2>5. ASSUME NEW i \in 1..N
          PROVE  b[i] = v.blocks[i]
      BY <1>5, <2>1, <2>2
    <2>6. ASSUME NEW n \in 1..Batch
          PROVE  b[N + n] = T[n]
      <3>. DEFINE i == N + n
      <3>1. i \in 1..(N + Len(T)) /\ ~(i <= N) /\ i - N = n
        BY <1>1, <1>3, <1>5
      <3>. HIDE DEF i
      <3>2. b[i] = T[i - N]
        BY <2>1, <3>1
      <3>. QED
        BY <3>1, <3>2 DEF i
    <2>. QED
      BY <1>5, <2>1, <2>4, <2>5, <2>6
  <1>. HIDE DEF b
  <1>7. \A n \in 1..Batch : /\ b[N + n].ordinal = N + n
                             /\ b[N + n].run = run
                             /\ b[N + n].event = Merged[n]
    <2>1. ASSUME NEW n \in 1..Batch
          PROVE  /\ b[N + n].ordinal = N + n
                 /\ b[N + n].run = run
                 /\ b[N + n].event = Merged[n]
      <3>1. b[N + n] = [run |-> run, event |-> Merged[n], ordinal |-> N + n]
        BY <1>4, <1>6
      <3>. QED
        BY <3>1
    <2>. QED
      BY <2>1
  <1>8. \A i \in 1..(N + Batch) : i \in 1..N \/ \E n \in 1..Batch : i = N + n
    <2>1. ASSUME NEW i \in 1..(N + Batch), i \notin 1..N
          PROVE  i - N \in 1..Batch /\ i = N + (i - N)
      BY <1>1, <1>3, <2>1
    <2>. QED
      BY <2>1
  <1>9. \A i \in 1..(N + Batch) : b[i].run <= run
    <2>1. \A i \in 1..N : v.blocks[i].run \in Nat /\ v.blocks[i].run <= v.runs
      BY <1>1 DEF TranscriptOf, TraceBlock
    <2>2. ASSUME NEW i \in 1..N
          PROVE  b[i].run <= run
      <3>1. b[i] = v.blocks[i]
        BY <1>6
      <3>. QED
        BY <1>2, <1>1, <2>1, <3>1
    <2>. QED
      BY <1>2, <1>8, <1>7, <2>2
  <1>10. OrdinalsArePlaces(b)
    <2>1. \A i \in 1..N : /\ b[i].ordinal = i
                          /\ b[i].run \in Nat /\ b[i].run < run
      <3>1. \A i \in 1..N : /\ v.blocks[i].ordinal = i
                            /\ v.blocks[i].run \in Nat
                            /\ v.blocks[i].run <= v.runs
        BY <1>1 DEF TranscriptOf, OrdinalsArePlaces, TraceBlock
      <3>2. ASSUME NEW i \in 1..N
            PROVE  /\ b[i].ordinal = i
                   /\ b[i].run \in Nat /\ b[i].run < run
        <4>1. b[i] = v.blocks[i]
          BY <1>6
        <4>. QED
          BY <1>2, <1>1, <3>1, <4>1
      <3>. QED
        BY <3>2
    <2>2. \A n \in 1..Batch : /\ b[N + n].ordinal = N + n
                              /\ b[N + n].run = run
                              /\ b[N + n].event = Merged[n]
      BY <1>7
    <2>3. ASSUME NEW i \in 1..(N + Batch), NEW j \in 1..(N + Batch), i # j,
                 b[i].run = b[j].run, b[i].event = b[j].event
          PROVE  FALSE
      <3>1. CASE i \in 1..N /\ j \in 1..N
        <4>1. \A k, l \in 1..N : k # l =>
                <<v.blocks[k].run, v.blocks[k].event>>
                  # <<v.blocks[l].run, v.blocks[l].event>>
          BY <1>1 DEF TranscriptOf, OrdinalsArePlaces
        <4>. QED
          BY <1>6, <2>3, <3>1, <4>1
      <3>2. CASE \E n \in 1..Batch : i = N + n
        <4>1. PICK n \in 1..Batch : i = N + n
          BY <3>2
        <4>2. b[j].run = run
          BY <2>2, <2>3, <4>1
        <4>3. j \notin 1..N
          BY <1>1, <2>1, <4>2
        <4>4. PICK k \in 1..Batch : j = N + k
          BY <1>8, <4>3
        <4>5. n = k
          BY <1>3, <2>2, <2>3, <4>1, <4>4
        <4>. QED
          BY <2>3, <4>1, <4>4, <4>5
      <3>3. CASE \E n \in 1..Batch : j = N + n
        <4>1. PICK n \in 1..Batch : j = N + n
          BY <3>3
        <4>2. b[i].run = run
          BY <2>2, <2>3, <4>1
        <4>3. i \notin 1..N
          BY <1>1, <2>1, <4>2
        <4>4. PICK k \in 1..Batch : i = N + k
          BY <1>8, <4>3
        <4>5. n = k
          BY <1>3, <2>2, <2>3, <4>1, <4>4
        <4>. QED
          BY <2>3, <4>1, <4>4, <4>5
      <3>. QED
        BY <1>8, <3>1, <3>2, <3>3
    <2>4. \A i \in 1..(N + Batch) : b[i].ordinal = i
      BY <1>8, <2>1, <2>2
    <2>. QED
      BY <1>6, <2>3, <2>4 DEF OrdinalsArePlaces
  <1>11. LastBatch(b) = Merged
    <2>1. Len(b) - Batch = N
      BY <1>1, <1>3, <1>6
    <2>2. \A n \in 1..Batch : b[N + n].event = Merged[n]
      BY <1>7
    <2>. QED
      BY <1>3, <2>1, <2>2 DEF LastBatch
  <1>12. Len(b) = Scenario.visible + run * Batch
    <2>1. run * Batch = v.runs * Batch + Batch
      BY <1>2, <1>1, <1>3
    <2>2. v.runs * Batch \in Nat
      BY <1>1, <1>3
    <2>. HIDE DEF run
    <2>. QED
      BY <1>1, <1>3, <1>6, <2>1, <2>2, PageConstants
  <1>13. Context(b) \in Seq(TraceBlock)
    <2>1. Scenario.context <= Len(b)
      <3>. DEFINE k == v.runs * Batch
      <3>1. k \in Nat
        BY <1>1, <1>3
      <3>2. N = Scenario.visible + k /\ Len(b) = N + Batch
        BY <1>1, <1>6
      <3>. HIDE DEF k
      <3>3. Scenario.context \in Nat /\ Scenario.context <= Scenario.visible
            /\ Scenario.visible \in Nat /\ Batch \in Nat
        BY PageConstants
      <3>. QED
        BY <3>1, <3>2, <3>3
    <2>. QED
      BY <1>6, <2>1, ContextIsEnd
  <1>14. SendRun(v) = [blocks |-> b, index |-> Context(b), runs |-> run,
                       updates |-> v.updates + 1,
                       generations |-> v.generations + 1]
    BY DEF SendRun, RunNumber, b, T, run
  <1>15. TranscriptOf(SendRun(v))
    <2>. DEFINE w == [blocks |-> b, index |-> Context(b), runs |-> run,
                       updates |-> v.updates + 1,
                       generations |-> v.generations + 1]
    <2>1. w \in [blocks : Seq(TraceBlock), index : Seq(TraceBlock),
                 runs : Nat, updates : Nat, generations : Nat]
      BY <1>2, <1>1, <1>6, <1>13
    <2>2. w.blocks = b /\ w.runs = run /\ w.index = Context(b)
      OBVIOUS
    <2>. HIDE DEF w
    <2>3. TranscriptOf(w)
      BY <1>6, <1>9, <1>10, <1>11, <1>12, <2>1, <2>2 DEF TranscriptOf
    <2>. QED
      BY <1>14, <2>3 DEF w
  <1>16. b # <<>>
    BY <1>1, <1>3, <1>6
  <1>. QED
    BY <1>14, <1>15, <1>16

\* The runs of a request, one after the other
LEMMA RunsUnfold ==
  ASSUME NEW v, TranscriptOf(v)
  PROVE  /\ After(v)[0] = v
         /\ \A n \in 1..Scenario.repeats :
              After(v)[n] = SendRun(After(v)[n - 1])
  <1>. DEFINE N == Scenario.repeats
              W == [blocks : Seq(TraceBlock), index : Seq(TraceBlock),
                    runs : Nat, updates : Nat, generations : Nat]
              V == {w \in W : TranscriptOf(w)}
              F == [s \in V \X (1..N) |-> SendRun(s[1])]
              h == CHOOSE f :
                     f = [n \in 0..Scenario.repeats |->
                            IF n = 0 THEN v ELSE SendRun(f[n - 1])]
  <1>1. N \in Nat
    BY PageConstants
  <1>2. After(v) = h
    BY DEF After
  <1>3. v \in V /\ \A w \in V : SendRun(w) \in V
    <2>1. \A w : TranscriptOf(w) => w \in V
      BY DEF TranscriptOf
    <2>2. \A w \in V : TranscriptOf(w)
      OBVIOUS
    <2>. HIDE DEF V
    <2>. QED
      BY <2>1, <2>2, SendIsSound
  <1>. HIDE DEF V
  <1>4. F \in [V \X (1..N) -> V]
    <2>1. ASSUME NEW w \in V, NEW n \in 1..N
          PROVE  SendRun(w) \in V
      BY <1>3
    <2>. HIDE DEF N
    <2>. QED
      BY <2>1
  <1>5. PICK g \in [0..N -> V] :
          g[0] = v /\ \A n \in 1..N : g[n] = F[<<g[n - 1], n>>]
    <2>1. \E g : GoesOn(N, V, v, F, g)
      <3>. HIDE DEF F, N
      <3>. QED
        BY <1>1, <1>3, <1>4, StepByStep
    <2>. QED
      BY <2>1 DEF GoesOn
  <1>6. g = [n \in 0..N |-> IF n = 0 THEN v ELSE SendRun(g[n - 1])]
    <2>1. ASSUME NEW n \in 1..N
          PROVE  g[n] = SendRun(g[n - 1])
      <3>1. g[n - 1] \in V
        <4>1. n - 1 \in 0..N
          BY <1>1
        <4>. HIDE DEF N
        <4>. QED
          BY <4>1
      <3>2. <<g[n - 1], n>> \in V \X (1..N)
        BY <3>1
      <3>. HIDE DEF N
      <3>. QED
        BY <1>5, <3>2
    <2>2. \A n \in 0..N : n = 0 \/ n \in 1..N
      BY <1>1
    <2>. HIDE DEF N, F
    <2>. QED
      BY <1>5, <2>1, <2>2
  <1>7. h = [n \in 0..N |-> IF n = 0 THEN v ELSE SendRun(h[n - 1])]
    <2>. HIDE DEF F
    <2>. QED
      BY <1>6
  <1>. HIDE DEF h
  <1>8. h[0] = v /\ \A n \in 1..N : h[n] = SendRun(h[n - 1])
    <2>1. 0 \in 0..N /\ \A n \in 1..N : n \in 0..N /\ n # 0
      BY <1>1
    <2>. HIDE DEF N, F
    <2>. QED
      BY <1>7, <2>1
  <1>. QED
    BY <1>2, <1>8

\* After a request the transcript is sound and longer, and the context was
\* updated once for each of its runs.
LEMMA RequestIsSound ==
  ASSUME NEW v, TranscriptOf(v)
  PROVE  LET w == After(v)[Scenario.repeats]
         IN /\ TranscriptOf(w) /\ w.blocks # <<>>
            /\ w.updates = v.updates + Scenario.repeats
  <1>. DEFINE N == Scenario.repeats
              f == After(v)
              P == {n \in 0..N : /\ TranscriptOf(f[n])
                                 /\ f[n].updates = v.updates + n
                                 /\ n # 0 => f[n].blocks # <<>>}
  <1>1. N \in Nat /\ N # 0
    BY PageConstants
  <1>2. f[0] = v /\ \A n \in 1..N : f[n] = SendRun(f[n - 1])
    BY RunsUnfold
  <1>3. v.updates \in Nat
    BY DEF TranscriptOf
  <1>. HIDE DEF f, N
  <1>4. 0 \in P
    BY <1>1, <1>2, <1>3
  <1>5. ASSUME NEW n \in 0..N - 1, n \in P
        PROVE  n + 1 \in P
    <2>1. n + 1 \in 1..N /\ n + 1 - 1 = n
      BY <1>1
    <2>2. f[n + 1] = SendRun(f[n])
      BY <1>2, <2>1
    <2>3. /\ TranscriptOf(f[n + 1]) /\ f[n + 1].blocks # <<>>
          /\ f[n + 1].updates = f[n].updates + 1
      BY <1>5, <2>2, SendIsSound
    <2>4. f[n + 1].updates = v.updates + (n + 1)
      BY <1>3, <1>5, <2>3
    <2>. QED
      BY <1>1, <2>1, <2>3, <2>4
  <1>6. P = 0..N
    <2>1. P \in SUBSET (0..N)
      OBVIOUS
    <2>. HIDE DEF P
    <2>. QED
      BY <1>1, <1>4, <1>5, <2>1, UpTo
  <1>7. N \in P
    <2>. HIDE DEF P
    <2>. QED
      BY <1>1, <1>6
  <1>. QED
    BY <1>1, <1>7 DEF f, N

-----------------------------------------------------------------------------
(* Queues, and the metrics that report.                                     *)

LEMMA QueueOf ==
  ASSUME NEW S, NEW q \in Seq(S)
  PROVE  Queue(q) /\ Len(q) \in Nat /\ DOMAIN q = 1..Len(q)
  <1>1. Len(q) \in Nat /\ DOMAIN q = 1..Len(q) /\ q \in [1..Len(q) -> S]
    BY LenProperties
  <1>2. q \in [1..Len(q) -> Range(q)]
    BY <1>1 DEF Range
  <1>3. q \in Seq(Range(q))
    BY <1>1, <1>2
  <1>. QED
    BY <1>1, <1>3 DEF Queue

LEMMA QueueAppend ==
  ASSUME NEW q, Queue(q), NEW x
  PROVE  /\ Queue(Append(q, x)) /\ Append(q, x) # <<>>
         /\ Len(q) \in Nat /\ DOMAIN q = 1..Len(q)
         /\ DOMAIN Append(q, x) = 1..(Len(q) + 1)
         /\ \A i \in 1..Len(q) : Append(q, x)[i] = q[i]
         /\ Append(q, x)[Len(q) + 1] = x
  <1>. DEFINE S == Range(q) \cup {x}
  <1>1. q \in Seq(S) /\ x \in S
    BY DEF Queue
  <1>2. /\ Append(q, x) \in Seq(S) /\ Append(q, x) # <<>>
        /\ Len(Append(q, x)) = Len(q) + 1
        /\ \A i \in 1..Len(q) : Append(q, x)[i] = q[i]
        /\ Append(q, x)[Len(q) + 1] = x
    <2>. HIDE DEF S
    <2>. QED
      BY <1>1, AppendProperties
  <1>3. Len(q) \in Nat /\ DOMAIN q = 1..Len(q)
    BY <1>1, QueueOf
  <1>4. Queue(Append(q, x)) /\ DOMAIN Append(q, x) = 1..(Len(q) + 1)
    BY <1>2, QueueOf
  <1>. QED
    BY <1>2, <1>3, <1>4

LEMMA QueueTail ==
  ASSUME NEW q, Queue(q), q # <<>>
  PROVE  /\ Queue(Tail(q)) /\ Head(q) = q[1]
         /\ Len(q) \in Nat \ {0} /\ DOMAIN q = 1..Len(q) /\ 1 \in DOMAIN q
         /\ DOMAIN Tail(q) = 1..(Len(q) - 1)
         /\ \A i \in DOMAIN Tail(q) : /\ i + 1 \in DOMAIN q
                                      /\ Tail(q)[i] = q[i + 1]
  <1>1. q \in Seq(Range(q))
    BY DEF Queue
  <1>2. /\ Tail(q) \in Seq(Range(q)) /\ Len(Tail(q)) = Len(q) - 1
        /\ \A i \in 1..Len(Tail(q)) : Tail(q)[i] = q[i + 1]
    BY <1>1, HeadTailProperties
  <1>3. Len(q) \in Nat /\ DOMAIN q = 1..Len(q) /\ Len(q) # 0
    BY <1>1, QueueOf, EmptySeq
  <1>4. Queue(Tail(q)) /\ DOMAIN Tail(q) = 1..(Len(q) - 1)
    BY <1>2, QueueOf
  <1>5. Head(q) = q[1]
    BY <1>1
  <1>. QED
    BY <1>2, <1>3, <1>4, <1>5

\* What the metrics of a page report after a change of some of them
LEMMA ResetReports ==
  ASSUME NEW m, Reporting(m)
  PROVE  /\ Reporting(Reset(m)) /\ Reset(m).work = 0 /\ Reset(m).updates = 0
         /\ Reset(m).delay = NoDelay
  BY DEF Reporting, Reset

LEMMA MarkedReports ==
  ASSUME NEW id, Reporting(metrics)
  PROVE  /\ Reporting(Marked(id)) /\ Marked(id).work = 0
         /\ Marked(id).updates = 0 /\ Marked(id).delay = NoDelay
         /\ Marked(id).scheduled = id
  BY ResetReports DEF Reporting, Marked

LEMMA ApplyReports ==
  ASSUME NEW m, NEW r, Reporting(m)
  PROVE  /\ Reporting(Apply(m, r)) /\ Apply(m, r).updates = r.updates
         /\ r.kind = "init" => Apply(m, r).work = 0
         /\ r.kind # "init" => Apply(m, r).work = r.id
         /\ Apply(m, r).delay = m.delay
         /\ Apply(m, r).scheduled = m.scheduled
  BY DEF Reporting, Apply

LEMMA RenderedReports ==
  ASSUME NEW m, NEW n, Reporting(m)
  PROVE  LET x == [m EXCEPT !.rendered = n]
         IN /\ Reporting(x) /\ x.work = m.work /\ x.updates = m.updates
            /\ x.delay = m.delay /\ x.scheduled = m.scheduled
  BY DEF Reporting

LEMMA TimedReports ==
  ASSUME NEW m, NEW d, Reporting(m)
  PROVE  LET x == [m EXCEPT !.delay = d]
         IN /\ Reporting(x) /\ x.work = m.work /\ x.updates = m.updates
            /\ x.delay = d /\ x.scheduled = m.scheduled
  BY DEF Reporting

\* What of a handled request matters here
Handled(r) ==
  /\ requests # <<>> /\ requests' = Tail(requests)
  /\ responses' = Append(responses, r)
  /\ r.id = requests[1].id /\ r.kind = requests[1].kind
  /\ \/ r.kind = "init" /\ worker' = InitialWorker
     \/ r.kind = "typing" /\ worker' = worker
     \/ r.kind \in Sends /\ worker' = After(worker)[Scenario.repeats]
  /\ r.updates = worker'.updates
  /\ UNCHANGED <<inputTasks, waiting, metrics, summary, copied, clicks,
                 overlapped>>

LEMMA HandleIs ==
  ASSUME TrafficOK, HandleRequest
  PROVE  \E r : Handled(r)
  <1>. DEFINE q == Head(requests)
              f == After(worker)
              w == f[Scenario.repeats]
              sum == FoldLeft(LAMBDA a, b : a + b, 0,
                              [n \in 1..Scenario.repeats |->
                                Len(f[n - 1].index)])
              a == Response(q, InitialWorker, 0, 0)
              b == Response(q, worker, 0, 0)
              c == Response(q, worker', sum,
                            Len(worker'.blocks) - Len(worker.blocks))
  <1>1. requests # <<>> /\ requests' = Tail(requests)
        /\ UNCHANGED <<inputTasks, waiting, metrics, summary, copied, clicks,
                       overlapped>>
    BY DEF HandleRequest
  <1>2. q = requests[1]
        /\ q.kind \in {"init", "typing"} \cup Sends
    BY <1>1, QueueTail DEF TrafficOK, Travelling, Message
  <1>3. /\ q.kind = "init" => /\ worker' = InitialWorker
                              /\ responses' = Append(responses, a)
        /\ q.kind = "typing" => /\ worker' = worker
                                /\ responses' = Append(responses, b)
        /\ q.kind \in Sends => /\ worker' = w
                               /\ responses' = Append(responses, c)
    BY DEF HandleRequest, Reply, Sends
  <1>4. /\ a.id = q.id /\ a.kind = q.kind
        /\ a.updates = InitialWorker.updates
        /\ b.id = q.id /\ b.kind = q.kind /\ b.updates = worker.updates
        /\ c.id = q.id /\ c.kind = q.kind /\ c.updates = worker'.updates
    BY DEF Response
  <1>. HIDE DEF a, b, c, w, q
  <1>5. CASE q.kind = "init"
    BY <1>1, <1>2, <1>3, <1>4, <1>5 DEF Handled
  <1>6. CASE q.kind = "typing"
    BY <1>1, <1>2, <1>3, <1>4, <1>6 DEF Handled
  <1>7. CASE q.kind \in Sends
    BY <1>1, <1>2, <1>3, <1>4, <1>7 DEF Handled, w
  <1>. QED
    BY <1>2, <1>5, <1>6, <1>7

-----------------------------------------------------------------------------
(* The traffic between the threads.                                         *)

LEMMA TailTravels ==
  ASSUME NEW q, NEW n \in Nat, NEW t, NEW u, Travelling(q, n, t),
         u \subseteq t,
         q # <<>>
  PROVE  /\ Travelling(Tail(q), n, u)
         /\ Ahead(q[1].id, Tail(q))
         /\ \A x : Ahead(x, q) => Ahead(x, Tail(q))
  <1>1. /\ Queue(Tail(q)) /\ 1 \in DOMAIN q /\ Len(q) \in Nat
        /\ DOMAIN Tail(q) = 1..(Len(q) - 1)
        /\ \A i \in DOMAIN Tail(q) : /\ i + 1 \in DOMAIN q
                                     /\ Tail(q)[i] = q[i + 1]
    BY QueueTail DEF Travelling
  <1>. DEFINE r == Tail(q)
  <1>. HIDE DEF r
  <1>2. \A i \in DOMAIN r : /\ i \in Nat \ {0} /\ i + 1 \in DOMAIN q
                            /\ r[i] = q[i + 1]
    BY <1>1 DEF r
  <1>3. IdsGrow(r)
    <2>1. ASSUME NEW i \in DOMAIN r, NEW j \in DOMAIN r, i < j
          PROVE  r[i].id < r[j].id
      <3>1. i + 1 \in DOMAIN q /\ j + 1 \in DOMAIN q /\ i + 1 < j + 1
        BY <1>2, <2>1
      <3>2. q[i + 1].id < q[j + 1].id
        BY <3>1 DEF Travelling, IdsGrow
      <3>. QED
        BY <1>2, <3>2
    <2>. QED
      BY <2>1 DEF IdsGrow
  <1>4. \A i \in DOMAIN r : Message(r[i], n, u)
    <2>1. \A x : Message(x, n, t) => Message(x, n, u)
      BY DEF Message
    <2>2. ASSUME NEW i \in DOMAIN r
          PROVE  Message(r[i], n, t)
      <3>1. Message(q[i + 1], n, t)
        BY <1>2 DEF Travelling
      <3>. QED
        BY <1>2, <3>1
    <2>. QED
      BY <2>1, <2>2
  <1>5. Ahead(q[1].id, r)
    <2>1. ASSUME NEW i \in DOMAIN r
          PROVE  q[1].id < r[i].id
      <3>1. i + 1 \in DOMAIN q /\ 1 < i + 1
        BY <1>2
      <3>2. q[1].id < q[i + 1].id
        BY <1>1, <3>1 DEF Travelling, IdsGrow
      <3>. QED
        BY <1>2, <3>2
    <2>. QED
      BY <2>1 DEF Ahead
  <1>6. ASSUME NEW x, Ahead(x, q)
        PROVE  Ahead(x, r)
    <2>1. ASSUME NEW i \in DOMAIN r
          PROVE  x < r[i].id
      <3>1. x < q[i + 1].id
        BY <1>2, <1>6 DEF Ahead
      <3>. QED
        BY <1>2, <3>1
    <2>. QED
      BY <2>1 DEF Ahead
  <1>. QED
    BY <1>1, <1>3, <1>4, <1>5, <1>6 DEF r, Travelling

LEMMA AppendTravels ==
  ASSUME NEW q, NEW n \in Nat, NEW t, NEW m \in Nat, NEW u, NEW x,
         Travelling(q, n, t), n <= m, Message(x, m, u),
         \A i \in DOMAIN q : /\ q[i].id < x.id
                             /\ q[i].kind # "concurrent" => q[i].id \notin u
  PROVE  /\ Travelling(Append(q, x), m, u)
         /\ \A y : Ahead(y, q) /\ y < x.id => Ahead(y, Append(q, x))
  <1>. DEFINE r == Append(q, x)  N == Len(q)
  <1>1. /\ Queue(r) /\ N \in Nat /\ DOMAIN q = 1..N /\ DOMAIN r = 1..(N + 1)
        /\ \A i \in 1..N : r[i] = q[i]
        /\ r[N + 1] = x
    BY QueueAppend DEF Travelling
  <1>. HIDE DEF r, N
  <1>2. \A i \in DOMAIN r : i \in 1..N \/ i = N + 1
    BY <1>1
  <1>3. IdsGrow(r)
    <2>1. ASSUME NEW i \in DOMAIN r, NEW j \in DOMAIN r, i < j
          PROVE  r[i].id < r[j].id
      <3>1. i \in 1..N
        BY <1>1, <2>1
      <3>2. CASE j \in 1..N
        <4>1. q[i].id < q[j].id
          BY <1>1, <2>1, <3>1, <3>2 DEF Travelling, IdsGrow
        <4>. QED
          BY <1>1, <3>1, <3>2, <4>1
      <3>3. CASE j = N + 1
        BY <1>1, <3>1, <3>3
      <3>. QED
        BY <1>2, <3>2, <3>3
    <2>. QED
      BY <2>1 DEF IdsGrow
  <1>4. \A i \in DOMAIN r : Message(r[i], m, u)
    <2>1. ASSUME NEW i \in 1..N
          PROVE  Message(r[i], m, u)
      <3>1. Message(q[i], n, t) /\ r[i] = q[i]
            /\ (q[i].kind # "concurrent" => q[i].id \notin u)
        BY <1>1 DEF Travelling
      <3>2. Message(q[i], m, u)
        BY <3>1 DEF Message
      <3>. QED
        BY <3>1, <3>2
    <2>. QED
      BY <1>1, <1>2, <2>1
  <1>5. ASSUME NEW y, Ahead(y, q), y < x.id
        PROVE  Ahead(y, r)
    <2>1. ASSUME NEW i \in DOMAIN r
          PROVE  y < r[i].id
      BY <1>1, <1>2, <1>5 DEF Ahead
    <2>. QED
      BY <2>1 DEF Ahead
  <1>. QED
    BY <1>1, <1>3, <1>4, <1>5 DEF r, Travelling

\* What a click does to the traffic
LEMMA PostTraffic ==
  ASSUME TrafficOK, NEW kind \in {"typing"} \cup Sends, Post(kind),
         UNCHANGED <<responses, waiting>>,
         \/ inputTasks' = inputTasks
         \/ kind = "concurrent" /\ inputTasks' = inputTasks \cup {clicks + 1},
         metrics'.work \in {0, metrics.work}
  PROVE  TrafficOK'
  <1>. DEFINE x == [id |-> clicks + 1, kind |-> kind]
              n == clicks  m == clicks + 1  t == inputTasks  u == inputTasks'
  <1>1. /\ n \in Nat /\ n # 0 /\ t \subseteq 1..n /\ clicks' = m
        /\ requests' = Append(requests, x)
        /\ Travelling(requests, n, t) /\ Travelling(responses, n, t)
    BY DEF Post, TrafficOK
  <1>2. u \subseteq 1..m /\ (u = t \/ (kind = "concurrent" /\ u = t \cup {m}))
    <2>1. u = t \/ (kind = "concurrent" /\ u = t \cup {m})
      OBVIOUS
    <2>2. 1..n \subseteq 1..m /\ m \in 1..m
      BY <1>1
    <2>. HIDE DEF u, t, n, m
    <2>. QED
      BY <1>1, <2>1, <2>2
  <1>3. Message(x, m, u)
    BY <1>1, <1>2 DEF Message, Sends
  <1>4. ASSUME NEW q, Travelling(q, n, t)
        PROVE  /\ \A i \in DOMAIN q :
                    /\ q[i].id < x.id /\ q[i].id \in 1..m
                    /\ q[i].kind # "concurrent" => q[i].id \notin u
               /\ Travelling(q, m, u)
    <2>1. ASSUME NEW i \in DOMAIN q
          PROVE  /\ q[i].id < x.id /\ q[i].id \in 1..m
                 /\ q[i].kind # "concurrent" => q[i].id \notin u
                 /\ Message(q[i], m, u)
      <3>1. Message(q[i], n, t)
        BY <1>4 DEF Travelling
      <3>2. q[i].id \in 1..n
        BY <3>1 DEF Message
      <3>3. q[i].id < m /\ q[i].id \in 1..m /\ q[i].id # m
        BY <1>1, <3>2
      <3>4. q[i].kind # "concurrent" => q[i].id \notin u
        BY <1>2, <3>1, <3>3 DEF Message
      <3>. QED
        BY <3>1, <3>3, <3>4 DEF Message
    <2>. QED
      BY <1>4, <2>1 DEF Travelling
  <1>. HIDE DEF u
  <1>5. /\ Travelling(requests', m, u)
        /\ \A y : Ahead(y, requests) /\ y < m => Ahead(y, requests')
    <2>. HIDE DEF x
    <2>1. n <= m /\ m \in Nat /\ x.id = m
      BY <1>1 DEF x
    <2>. HIDE DEF n, m, t
    <2>. QED
      BY <1>1, <1>3, <1>4, <2>1, AppendTravels
  <1>6. Travelling(responses', m, u)
    BY <1>1, <1>4
  <1>7. \A i \in DOMAIN responses' : Ahead(responses'[i].id, requests')
    <2>1. \A i \in DOMAIN responses :
            Ahead(responses[i].id, requests) /\ responses[i].id < m
      BY <1>1, <1>4 DEF TrafficOK
    <2>. QED
      BY <1>5, <2>1
  <1>8. \A r \in waiting' :
          /\ r.id \in 1..m /\ Ahead(r.id, requests') /\ Ahead(r.id, responses')
          /\ \A s \in waiting' : r.id = s.id => r = s
    <2>1. \A r \in waiting : /\ r.id \in 1..n /\ Ahead(r.id, requests)
                             /\ Ahead(r.id, responses)
                             /\ \A s \in waiting : r.id = s.id => r = s
      BY DEF TrafficOK
    <2>2. \A k \in 1..n : k \in 1..m /\ k < m
      BY <1>1
    <2>. HIDE DEF n, m
    <2>. QED
      BY <1>5, <2>1, <2>2
  <1>9. /\ metrics'.work \in 0..m
        /\ Ahead(metrics'.work, requests') /\ Ahead(metrics'.work, responses')
    <2>1. /\ metrics.work \in 0..n
          /\ Ahead(metrics.work, requests) /\ Ahead(metrics.work, responses)
      BY DEF TrafficOK
    <2>2. Ahead(0, requests) /\ Ahead(0, responses)
      <3>1. \A k \in 1..m : 0 < k
        BY <1>1
      <3>. QED
        BY <1>1, <1>4, <3>1 DEF Ahead
    <2>3. \A k \in 0..n : k \in 0..m /\ k < m
      BY <1>1
    <2>4. 0 \in 0..n
      BY <1>1
    <2>. QED
      BY <1>5, <2>1, <2>2, <2>3, <2>4
  <1>. QED
    BY <1>1, <1>2, <1>5, <1>6, <1>7, <1>8, <1>9 DEF TrafficOK, u

\* What handling a request does to the traffic
LEMMA HandleTraffic ==
  ASSUME TrafficOK, NEW r, Handled(r)
  PROVE  TrafficOK'
  <1>. DEFINE q == requests  a == responses  n == clicks  t == inputTasks
              q2 == Tail(requests)  a2 == Append(responses, r)
  <1>1. /\ n \in Nat /\ t \subseteq 1..n /\ n # 0
        /\ Travelling(q, n, t) /\ Travelling(a, n, t) /\ q # <<>>
    BY DEF TrafficOK, Handled
  <1>2. /\ requests' = q2 /\ responses' = a2 /\ clicks' = n /\ inputTasks' = t
        /\ waiting' = waiting /\ metrics' = metrics
        /\ r.id = q[1].id /\ r.kind = q[1].kind
    BY DEF Handled
  <1>3. 1 \in DOMAIN q /\ Message(q[1], n, t)
    BY <1>1, QueueTail DEF Travelling
  <1>4. Message(r, n, t)
    BY <1>2, <1>3 DEF Message
  <1>5. /\ Travelling(q2, n, t) /\ Ahead(r.id, q2)
        /\ \A x : Ahead(x, q) => Ahead(x, q2)
    BY <1>1, <1>2, TailTravels
  <1>6. \A x : Ahead(x, q) => x < r.id
    BY <1>2, <1>3 DEF Ahead
  <1>7. \A i \in DOMAIN a : /\ a[i].id < r.id /\ Ahead(a[i].id, q)
                            /\ Message(a[i], n, t)
    BY <1>1, <1>6 DEF TrafficOK, Travelling
  <1>8. /\ Travelling(a2, n, t)
        /\ \A y : Ahead(y, a) /\ y < r.id => Ahead(y, a2)
    <2>1. \A i \in DOMAIN a : /\ a[i].id < r.id
                              /\ a[i].kind # "concurrent" => a[i].id \notin t
      BY <1>7 DEF Message
    <2>. QED
      BY <1>1, <1>4, <2>1, AppendTravels
  <1>9. \A i \in DOMAIN a2 : Ahead(a2[i].id, q2)
    <2>1. /\ Len(a) \in Nat /\ DOMAIN a = 1..Len(a)
          /\ DOMAIN a2 = 1..(Len(a) + 1)
          /\ \A i \in 1..Len(a) : a2[i] = a[i]
          /\ a2[Len(a) + 1] = r
      BY <1>1, QueueAppend DEF Travelling
    <2>. HIDE DEF a2
    <2>2. \A i \in DOMAIN a2 : i \in 1..Len(a) \/ i = Len(a) + 1
      BY <2>1
    <2>3. ASSUME NEW i \in 1..Len(a)
          PROVE  Ahead(a2[i].id, q2)
      BY <1>5, <1>7, <2>1, <2>3
    <2>. QED
      BY <1>5, <2>1, <2>2, <2>3
  <1>10. \A x \in waiting :
           /\ x.id \in 1..n /\ Ahead(x.id, q2) /\ Ahead(x.id, a2)
           /\ \A s \in waiting : x.id = s.id => x = s
    BY <1>5, <1>6, <1>8 DEF TrafficOK
  <1>11. /\ metrics.work \in 0..n
         /\ Ahead(metrics.work, q2) /\ Ahead(metrics.work, a2)
    BY <1>5, <1>6, <1>8 DEF TrafficOK
  <1>. HIDE DEF q2, a2
  <1>. QED
    BY <1>1, <1>2, <1>5, <1>8, <1>9, <1>10, <1>11 DEF TrafficOK

\* What a delivered response does to the traffic
LEMMA DeliverTraffic ==
  ASSUME TrafficOK, responses # <<>>, responses' = Tail(responses),
         UNCHANGED <<requests, clicks, inputTasks>>,
         waiting' \subseteq waiting \cup {responses[1]},
         metrics'.work \in {0, metrics.work, responses[1].id}
  PROVE  TrafficOK'
  <1>. DEFINE q == requests  a == responses  n == clicks  t == inputTasks
              a2 == Tail(responses)  r == a[1]
  <1>1. /\ n \in Nat /\ t \subseteq 1..n /\ n # 0
        /\ Travelling(q, n, t) /\ Travelling(a, n, t) /\ a # <<>>
    BY DEF TrafficOK
  <1>2. 1 \in DOMAIN a /\ Message(r, n, t)
    BY <1>1, QueueTail DEF Travelling
  <1>3. /\ Travelling(a2, n, t) /\ Ahead(r.id, a2)
        /\ \A x : Ahead(x, a) => Ahead(x, a2)
    BY <1>1, TailTravels
  <1>4. /\ DOMAIN a2 = 1..(Len(a) - 1)
        /\ \A i \in DOMAIN a2 : i + 1 \in DOMAIN a /\ a2[i] = a[i + 1]
    BY <1>1, QueueTail DEF Travelling
  <1>5. \A i \in DOMAIN a : Ahead(a[i].id, q)
    BY DEF TrafficOK
  <1>6. \A i \in DOMAIN a2 : Ahead(a2[i].id, q)
    BY <1>4, <1>5
  <1>7. r.id \in 1..n /\ Ahead(r.id, q)
    BY <1>2, <1>5 DEF Message
  <1>8. \A x \in waiting :
           /\ x.id \in 1..n /\ Ahead(x.id, q) /\ Ahead(x.id, a2)
           /\ x.id # r.id
           /\ \A s \in waiting : x.id = s.id => x = s
    <2>1. ASSUME NEW x \in waiting
          PROVE  x.id # r.id
      <3>1. x.id < r.id /\ x.id \in 1..n
        BY <1>2 DEF TrafficOK, Ahead
      <3>. QED
        BY <3>1
    <2>. QED
      BY <1>3, <2>1 DEF TrafficOK
  <1>9. \A x \in waiting' :
           /\ x.id \in 1..n /\ Ahead(x.id, q) /\ Ahead(x.id, a2)
           /\ \A s \in waiting' : x.id = s.id => x = s
    <2>. HIDE DEF q, a2, r, n
    <2>1. \A x \in waiting' : x \in waiting \/ x = r
      BY DEF r
    <2>. QED
      BY <1>3, <1>7, <1>8, <2>1
  <1>10. /\ metrics'.work \in 0..n
         /\ Ahead(metrics'.work, q) /\ Ahead(metrics'.work, a2)
    <2>1. /\ metrics.work \in 0..n
          /\ Ahead(metrics.work, q) /\ Ahead(metrics.work, a2)
      BY <1>3 DEF TrafficOK
    <2>2. Ahead(0, q) /\ Ahead(0, a2) /\ 0 \in 0..n
      BY <1>1, <1>3 DEF Ahead, Travelling, Message
    <2>3. r.id \in 0..n
      BY <1>7
    <2>. QED
      BY <1>3, <1>7, <2>1, <2>2, <2>3
  <1>11. requests' = q /\ responses' = a2 /\ clicks' = n /\ inputTasks' = t
    OBVIOUS
  <1>. HIDE DEF q, a2, n, t, r
  <1>12. /\ clicks' \in Nat \ {0} /\ inputTasks' \subseteq 1..clicks'
         /\ Travelling(requests', clicks', inputTasks')
         /\ Travelling(responses', clicks', inputTasks')
    BY <1>1, <1>3, <1>11
  <1>13. \A i \in DOMAIN responses' : Ahead(responses'[i].id, requests')
    BY <1>6, <1>11
  <1>14. \A x \in waiting' :
           /\ x.id \in 1..clicks'
           /\ Ahead(x.id, requests') /\ Ahead(x.id, responses')
           /\ \A s \in waiting' : x.id = s.id => x = s
    BY <1>9, <1>11
  <1>15. /\ metrics'.work \in 0..clicks'
         /\ Ahead(metrics'.work, requests')
         /\ Ahead(metrics'.work, responses')
    BY <1>10, <1>11
  <1>. QED
    BY <1>12, <1>13, <1>14, <1>15 DEF TrafficOK

\* What an input task does to the traffic
LEMMA TaskTraffic ==
  ASSUME TrafficOK, UNCHANGED <<requests, responses, clicks>>,
         inputTasks' \subseteq inputTasks, waiting' \subseteq waiting,
         \/ metrics'.work = metrics.work
         \/ \E r \in waiting : metrics'.work = r.id
  PROVE  TrafficOK'
  <1>. DEFINE n == clicks  t == inputTasks  u == inputTasks'
  <1>1. ASSUME NEW q, Travelling(q, n, t)
        PROVE  Travelling(q, n, u)
    <2>1. ASSUME NEW i \in DOMAIN q
          PROVE  Message(q[i], n, u)
      <3>1. Message(q[i], n, t)
        BY <1>1 DEF Travelling
      <3>. QED
        BY <3>1 DEF Message
    <2>. QED
      BY <1>1, <2>1 DEF Travelling
  <1>2. /\ Travelling(requests', n, u) /\ Travelling(responses', n, u)
        /\ clicks' = n /\ u \subseteq 1..n
    BY <1>1 DEF TrafficOK
  <1>3. /\ metrics'.work \in 0..n
        /\ Ahead(metrics'.work, requests') /\ Ahead(metrics'.work, responses')
    BY DEF TrafficOK
  <1>4. \A x \in waiting' :
           /\ x.id \in 1..n
           /\ Ahead(x.id, requests') /\ Ahead(x.id, responses')
           /\ \A s \in waiting' : x.id = s.id => x = s
    BY DEF TrafficOK
  <1>5. /\ n \in Nat \ {0}
        /\ \A i \in DOMAIN responses' : Ahead(responses'[i].id, requests')
    BY DEF TrafficOK
  <1>. HIDE DEF u
  <1>. QED
    BY <1>2, <1>3, <1>4, <1>5 DEF TrafficOK, u

-----------------------------------------------------------------------------
(* The worker, and what is reported of it.                                  *)

LEMMA PostWorker ==
  ASSUME TrafficOK, WorkerOK, NEW kind \in {"typing"} \cup Sends, Post(kind),
         worker' = worker
  PROVE  WorkerOK'
  <1>. DEFINE x == [id |-> clicks + 1, kind |-> kind]
              q2 == Append(requests, x)
  <1>1. requests' = q2
    BY DEF Post
  <1>2. /\ q2 # <<>>
        /\ Len(requests) \in Nat /\ DOMAIN requests = 1..Len(requests)
        /\ DOMAIN q2 = 1..(Len(requests) + 1)
        /\ \A i \in 1..Len(requests) : q2[i] = requests[i]
        /\ q2[Len(requests) + 1] = x
    BY QueueAppend DEF TrafficOK, Travelling
  <1>3. x.kind # "init"
    BY DEF Sends
  <1>4. worker.blocks = <<>> => q2[1].kind = "init"
    <2>1. requests # <<>> => 1 \in 1..Len(requests)
      BY QueueTail DEF TrafficOK, Travelling
    <2>. QED
      BY <1>2, <2>1 DEF WorkerOK
  <1>. HIDE DEF q2, x
  <1>5. \A i \in DOMAIN q2 : q2[i].kind = "init" => worker.blocks = <<>>
    <2>1. \A i \in DOMAIN q2 : i \in 1..Len(requests) \/ i = Len(requests) + 1
      BY <1>2
    <2>. QED
      BY <1>2, <1>3, <2>1 DEF WorkerOK
  <1>. QED
    BY <1>1, <1>2, <1>4, <1>5 DEF WorkerOK

\* The worker starts with its seed, and every send leaves it sound.
LEMMA HandleWorker ==
  ASSUME TrafficOK, WorkerOK, NEW r, Handled(r)
  PROVE  /\ WorkerOK'
         /\ r.kind = "init" => worker.updates = 0 /\ worker'.updates = 0
         /\ r.kind = "typing" => worker' = worker
         /\ r.kind \in Sends =>
              worker'.updates = worker.updates + Scenario.repeats
  <1>1. /\ requests # <<>> /\ requests' = Tail(requests)
        /\ r.kind = requests[1].kind
        /\ \/ r.kind = "init" /\ worker' = InitialWorker
           \/ r.kind = "typing" /\ worker' = worker
           \/ r.kind \in Sends /\ worker' = After(worker)[Scenario.repeats]
    BY DEF Handled
  <1>2. /\ 1 \in DOMAIN requests
        /\ DOMAIN requests' = 1..(Len(requests) - 1) /\ Len(requests) \in Nat
        /\ \A i \in DOMAIN requests' : /\ i + 1 \in DOMAIN requests
                                       /\ requests'[i] = requests[i + 1]
    BY <1>1, QueueTail DEF TrafficOK, Travelling
  <1>3. \A i \in DOMAIN requests' : requests'[i].kind # "init"
    <2>1. ASSUME NEW i \in DOMAIN requests', requests'[i].kind = "init"
          PROVE  FALSE
      <3>1. i + 1 \in DOMAIN requests /\ 1 < i + 1
        BY <1>2
      <3>2. requests[1].id < requests[i + 1].id
        BY <1>2, <3>1 DEF TrafficOK, Travelling, IdsGrow
      <3>3. /\ Message(requests[1], clicks, inputTasks)
            /\ Message(requests[i + 1], clicks, inputTasks)
        BY <1>2, <3>1 DEF TrafficOK, Travelling
      <3>4. requests[i + 1].id = 1 /\ requests[1].id \in 1..clicks
            /\ clicks \in Nat
        BY <1>2, <2>1, <3>3 DEF Message, TrafficOK
      <3>. QED
        BY <3>2, <3>4
    <2>. QED
      BY <2>1
  <1>4. worker.updates \in Nat
    BY DEF WorkerOK
  <1>5. CASE r.kind = "init"
    <2>1. worker.blocks = <<>> /\ worker.updates = 0
      BY <1>1, <1>2, <1>5 DEF WorkerOK
    <2>2. worker' = InitialWorker
      BY <1>1, <1>5 DEF Sends
    <2>3. TranscriptOf(InitialWorker)
      BY SeedIsSound
    <2>4. InitialWorker.updates = 0
      BY DEF InitialWorker
    <2>5. InitialWorker.blocks # <<>>
      <3>1. Len(InitialWorker.blocks) =
              Scenario.visible + InitialWorker.runs * Batch
        BY <2>3 DEF TranscriptOf
      <3>2. InitialWorker.runs = 0
        BY DEF InitialWorker
      <3>3. Len(InitialWorker.blocks) = Scenario.visible
        BY <3>1, <3>2, PageConstants
      <3>. QED
        BY <3>3, PageConstants
    <2>6. WorkerOK'
      BY <1>3, <2>2, <2>3, <2>4, <2>5 DEF WorkerOK
    <2>. QED
      BY <1>5, <2>1, <2>2, <2>4, <2>6 DEF Sends
  <1>6. ASSUME r.kind # "init"
        PROVE  worker.blocks # <<>> /\ TranscriptOf(worker)
    BY <1>1, <1>6 DEF WorkerOK
  <1>7. CASE r.kind = "typing"
    <2>1. worker' = worker
      BY <1>1, <1>7 DEF Sends
    <2>2. WorkerOK'
      BY <1>3, <1>4, <1>6, <1>7, <2>1 DEF WorkerOK
    <2>. QED
      BY <1>7, <2>1, <2>2 DEF Sends
  <1>8. CASE r.kind \in Sends
    <2>1. worker' = After(worker)[Scenario.repeats]
      BY <1>1, <1>8 DEF Sends
    <2>2. r.kind # "init" /\ r.kind # "typing"
      BY <1>8 DEF Sends
    <2>. DEFINE w == After(worker)[Scenario.repeats]
    <2>3. TranscriptOf(w) /\ w.blocks # <<>>
          /\ w.updates = worker.updates + Scenario.repeats
      BY <1>6, <2>2, RequestIsSound
    <2>. HIDE DEF w
    <2>4. worker' = w
      BY <2>1 DEF w
    <2>5. w.updates \in Nat
      BY <1>4, <2>3, PageConstants
    <2>6. WorkerOK'
      BY <1>3, <2>3, <2>4, <2>5 DEF WorkerOK
    <2>. QED
      BY <2>2, <2>3, <2>4, <2>6
  <1>. QED
    BY <1>1, <1>5, <1>7, <1>8

\* Nothing is reported that was not, or nothing at all.
LEMMA EvidenceStays ==
  ASSUME WorkerOK, EvidenceOK, worker' = worker,
         \A m \in Reports' : Reporting(m),
         \A i \in DOMAIN responses' :
           responses'[i].kind = "init" => responses'[i].updates = 0,
         \A r \in waiting' : r.kind = "concurrent",
         Evidence' \subseteq Evidence \cup {<<0, 0>>}
  PROVE  EvidenceOK'
  <1>1. worker.updates \in Nat /\ Scenario.repeats # 0
    BY PageConstants DEF WorkerOK
  <1>. DEFINE S == Evidence  U == Evidence'
  <1>2. \A e \in S : /\ e[1] \in Nat /\ e[2] \in 0..worker.updates
                     /\ e[2] # 0 => e[1] # 0
                     /\ \A f \in S : e[2] = Scenario.repeats /\
                          f[2] = Scenario.repeats => e[1] = f[1]
    BY DEF EvidenceOK
  <1>3. U \subseteq S \cup {<<0, 0>>}
    OBVIOUS
  <1>. HIDE DEF S, U
  <1>4. \A e \in U : /\ e[1] \in Nat /\ e[2] \in 0..worker.updates
                     /\ e[2] # 0 => e[1] # 0
                     /\ \A f \in U : e[2] = Scenario.repeats /\
                          f[2] = Scenario.repeats => e[1] = f[1]
    <2>1. ASSUME NEW e \in U
          PROVE  /\ e[1] \in Nat /\ e[2] \in 0..worker.updates
                 /\ e[2] # 0 => e[1] # 0
                 /\ e[2] = Scenario.repeats => e \in S
      <3>1. CASE e \in S
        BY <1>2, <3>1
      <3>2. CASE e = <<0, 0>>
        BY <1>1, <3>2
      <3>. QED
        BY <1>3, <2>1, <3>1, <3>2
    <2>. QED
      BY <1>2, <2>1
  <1>. QED
    BY <1>4 DEF EvidenceOK, U

\* What is evidence
LEMMA EvidenceIs ==
  ASSUME NEW e
  PROVE  e \in Evidence <=>
           \/ \E i \in DOMAIN responses : /\ responses[i].kind \in Sends
                                          /\ e = <<responses[i].id,
                                                   responses[i].updates>>
           \/ \E r \in waiting : e = <<r.id, r.updates>>
           \/ \E m \in Reports : e = <<m.work, m.updates>>
  BY DEF Evidence

LEMMA EvidenceOf ==
  ASSUME NEW E,
         \A i \in DOMAIN responses' :
           responses'[i].kind \in Sends =>
             <<responses'[i].id, responses'[i].updates>> \in E,
         \A r \in waiting' : <<r.id, r.updates>> \in E,
         \A m \in Reports' : <<m.work, m.updates>> \in E
  PROVE  Evidence' \subseteq E
  BY DEF Evidence

\* The three ways a response is delivered
Shown(r) ==
  /\ r.kind = "typing" /\ summary' = metrics
  /\ metrics' = metrics /\ waiting' = waiting
Held(r) ==
  /\ r.kind = "concurrent" /\ r.id \in inputTasks /\ summary' = summary
  /\ \E n : metrics' = [metrics EXCEPT !.rendered = n]
  /\ waiting' = waiting \cup {r}
Applied(r) ==
  /\ r.kind # "typing" /\ (r.kind = "concurrent" => r.id \notin inputTasks)
  /\ metrics' = Apply(metrics, r) /\ summary' = metrics'
  /\ waiting' = waiting

LEMMA DeliverIs ==
  ASSUME TrafficOK, Deliver
  PROVE  /\ responses # <<>> /\ responses' = Tail(responses)
         /\ UNCHANGED <<worker, requests, inputTasks, copied, clicks,
                        overlapped>>
         /\ Shown(responses[1]) \/ Held(responses[1]) \/ Applied(responses[1])
  <1>1. /\ responses # <<>> /\ responses' = Tail(responses)
        /\ UNCHANGED <<worker, requests, inputTasks, copied, clicks,
                       overlapped>>
    BY DEF Deliver
  <1>2. Head(responses) = responses[1]
    BY <1>1, QueueTail DEF TrafficOK, Travelling
  <1>. DEFINE r == responses[1]
  <1>3. CASE r.kind = "typing"
    BY <1>2, <1>3 DEF Deliver, Shown
  <1>4. CASE r.kind = "concurrent" /\ r.id \in inputTasks
    BY <1>2, <1>4 DEF Deliver, Held
  <1>5. CASE /\ r.kind # "typing"
             /\ ~(r.kind = "concurrent" /\ r.id \in inputTasks)
    BY <1>2, <1>5 DEF Deliver, Applied
  <1>. QED
    BY <1>1, <1>3, <1>4, <1>5

\* The two ways an input task ends
Timed(id) == [metrics EXCEPT !.delay = <<metrics.scheduled, id>>]
Early(id) ==
  /\ \A r \in waiting : r.id # id
  /\ metrics' = Timed(id) /\ UNCHANGED <<summary, waiting>>
Late(id, r) ==
  /\ r \in waiting /\ r.id = id
  /\ metrics' = Apply(Timed(id), r) /\ summary' = metrics'
  /\ waiting' = waiting \ {r}

LEMMA InputTaskIs ==
  ASSUME NEW id, InputTask(id)
  PROVE  /\ id \in inputTasks /\ inputTasks' = inputTasks \ {id}
         /\ UNCHANGED <<worker, requests, responses, copied, clicks,
                        overlapped>>
         /\ Early(id) \/ \E r : Late(id, r)
  <1>1. CASE {r \in waiting : r.id = id} = {}
    BY <1>1 DEF InputTask, Early, Timed
  <1>2. CASE {r \in waiting : r.id = id} # {}
    BY <1>2 DEF InputTask, Late, Timed
  <1>. QED
    BY <1>1, <1>2 DEF InputTask

LEMMA ClickEvidence ==
  ASSUME WorkerOK, EvidenceOK,
         \/ metrics' = metrics
         \/ metrics' = Reset(metrics)
         \/ \E id : metrics' = Marked(id),
         UNCHANGED <<worker, responses, waiting, summary, copied>>
  PROVE  EvidenceOK' /\ metrics'.work \in {0, metrics.work}
  <1>1. Reporting(metrics)
    BY DEF EvidenceOK, Reports
  <1>2. /\ Reporting(metrics')
        /\ \/ metrics' = metrics
           \/ metrics'.work = 0 /\ metrics'.updates = 0
    BY <1>1, ResetReports, MarkedReports
  <1>. DEFINE E == Evidence \cup {<<0, 0>>}
  <1>3. <<metrics'.work, metrics'.updates>> \in E
    BY <1>2, EvidenceIs DEF Reports
  <1>4. \A m \in Reports' : m = metrics' \/ m \in Reports
    BY DEF Reports
  <1>5. Evidence' \subseteq E
    <2>1. \A i \in DOMAIN responses' :
            responses'[i].kind \in Sends =>
              <<responses'[i].id, responses'[i].updates>> \in E
      BY EvidenceIs
    <2>2. \A r \in waiting' : <<r.id, r.updates>> \in E
      BY EvidenceIs
    <2>3. \A m \in Reports' : <<m.work, m.updates>> \in E
      BY <1>3, <1>4, EvidenceIs
    <2>. HIDE DEF E
    <2>. QED
      BY <2>1, <2>2, <2>3, EvidenceOf
  <1>6. \A m \in Reports' : Reporting(m)
    BY <1>2, <1>4 DEF EvidenceOK
  <1>7. EvidenceOK'
    <2>1. /\ \A i \in DOMAIN responses' :
               responses'[i].kind = "init" => responses'[i].updates = 0
          /\ \A r \in waiting' : r.kind = "concurrent"
      BY DEF EvidenceOK
    <2>. QED
      BY <1>5, <1>6, <2>1, EvidenceStays
  <1>. QED
    BY <1>2, <1>7

LEMMA DeliverEvidence ==
  ASSUME TrafficOK, WorkerOK, EvidenceOK, Deliver
  PROVE  EvidenceOK' /\ metrics'.work \in {0, metrics.work, responses[1].id}
  <1>. DEFINE r == responses[1]  E == Evidence \cup {<<0, 0>>}
  <1>1. /\ responses # <<>> /\ responses' = Tail(responses)
        /\ UNCHANGED <<worker, requests, inputTasks, copied, clicks,
                       overlapped>>
        /\ Shown(r) \/ Held(r) \/ Applied(r)
    BY DeliverIs
  <1>2. /\ 1 \in DOMAIN responses
        /\ \A i \in DOMAIN responses' :
             /\ i + 1 \in DOMAIN responses
             /\ responses'[i] = responses[i + 1]
    BY <1>1, QueueTail DEF TrafficOK, Travelling
  <1>3. /\ r.kind \in {"init", "typing"} \cup Sends
        /\ r.kind = "init" => r.updates = 0
    BY <1>2 DEF TrafficOK, Travelling, Message, EvidenceOK
  <1>4. r.kind \in Sends => <<r.id, r.updates>> \in Evidence
    BY <1>2, EvidenceIs
  <1>5. Reporting(metrics)
    BY DEF EvidenceOK, Reports
  <1>6. /\ Reporting(metrics') /\ <<metrics'.work, metrics'.updates>> \in E
        /\ metrics'.work \in {0, metrics.work, r.id}
    <2>1. <<metrics.work, metrics.updates>> \in Evidence
      BY EvidenceIs DEF Reports
    <2>2. CASE Shown(r)
      BY <1>5, <2>1, <2>2 DEF Shown
    <2>3. CASE Held(r)
      BY <1>5, <2>1, <2>3, RenderedReports DEF Held
    <2>4. CASE Applied(r)
      <3>1. /\ metrics' = Apply(metrics, r) /\ r.kind # "typing"
        BY <2>4 DEF Applied
      <3>2. CASE r.kind = "init"
        BY <1>3, <1>5, <3>1, <3>2, ApplyReports
      <3>3. CASE r.kind # "init"
        BY <1>3, <1>4, <1>5, <3>1, <3>3, ApplyReports
      <3>. QED
        BY <3>2, <3>3
    <2>. QED
      BY <1>1, <2>2, <2>3, <2>4
  <1>7. \A m \in Reports' : m = metrics' \/ m \in Reports
    BY <1>1 DEF Reports, Shown, Held, Applied
  <1>8. \A s \in waiting' :
          s \in waiting \/ (s = r /\ r.kind = "concurrent")
    BY <1>1 DEF Shown, Held, Applied
  <1>. HIDE DEF r
  <1>9. Evidence' \subseteq E
    <2>1. \A i \in DOMAIN responses' :
            responses'[i].kind \in Sends =>
              <<responses'[i].id, responses'[i].updates>> \in E
      BY <1>2, EvidenceIs
    <2>2. \A s \in waiting' : <<s.id, s.updates>> \in E
      BY <1>4, <1>8, EvidenceIs DEF Sends
    <2>3. \A m \in Reports' : <<m.work, m.updates>> \in E
      BY <1>6, <1>7, EvidenceIs
    <2>. HIDE DEF E
    <2>. QED
      BY <2>1, <2>2, <2>3, EvidenceOf
  <1>10. EvidenceOK'
    <2>1. \A i \in DOMAIN responses' :
            responses'[i].kind = "init" => responses'[i].updates = 0
      BY <1>2 DEF EvidenceOK
    <2>2. \A s \in waiting' : s.kind = "concurrent"
      BY <1>8 DEF EvidenceOK
    <2>3. \A m \in Reports' : Reporting(m)
      BY <1>6, <1>7 DEF EvidenceOK
    <2>. QED
      BY <1>1, <1>9, <2>1, <2>2, <2>3, EvidenceStays
  <1>. QED
    BY <1>6, <1>10 DEF r

LEMMA TaskEvidence ==
  ASSUME WorkerOK, EvidenceOK, NEW id, InputTask(id)
  PROVE  /\ EvidenceOK' /\ inputTasks' \subseteq inputTasks
         /\ waiting' \subseteq waiting
         /\ \/ metrics'.work = metrics.work
            \/ \E r \in waiting : metrics'.work = r.id
  <1>. DEFINE E == Evidence \cup {<<0, 0>>}
  <1>1. /\ inputTasks' = inputTasks \ {id}
        /\ UNCHANGED <<worker, requests, responses, copied, clicks,
                       overlapped>>
        /\ Early(id) \/ \E r : Late(id, r)
    BY InputTaskIs
  <1>2. Reporting(metrics)
    BY DEF EvidenceOK, Reports
  <1>3. /\ Reporting(Timed(id)) /\ Timed(id).work = metrics.work
        /\ Timed(id).updates = metrics.updates
    BY <1>2, TimedReports DEF Timed
  <1>4. /\ Reporting(metrics') /\ <<metrics'.work, metrics'.updates>> \in E
        /\ \/ metrics'.work = metrics.work
           \/ \E r \in waiting : metrics'.work = r.id
    <2>1. CASE Early(id)
      BY <1>3, <2>1, EvidenceIs DEF Early, Reports
    <2>2. CASE \E r : Late(id, r)
      <3>1. PICK r : Late(id, r)
        BY <2>2
      <3>2. /\ r \in waiting /\ r.kind = "concurrent"
            /\ metrics' = Apply(Timed(id), r)
        BY <3>1 DEF Late, EvidenceOK
      <3>3. /\ Reporting(metrics') /\ metrics'.work = r.id
            /\ metrics'.updates = r.updates
        BY <1>3, <3>2, ApplyReports
      <3>. QED
        BY <3>2, <3>3, EvidenceIs
    <2>. QED
      BY <1>1, <2>1, <2>2
  <1>5. /\ waiting' \subseteq waiting
        /\ \A m \in Reports' : m = metrics' \/ m \in Reports
    BY <1>1 DEF Reports, Early, Late
  <1>6. Evidence' \subseteq E
    <2>1. \A i \in DOMAIN responses' :
            responses'[i].kind \in Sends =>
              <<responses'[i].id, responses'[i].updates>> \in E
      BY <1>1, EvidenceIs
    <2>2. \A s \in waiting' : <<s.id, s.updates>> \in E
      BY <1>5, EvidenceIs
    <2>3. \A m \in Reports' : <<m.work, m.updates>> \in E
      BY <1>4, <1>5, EvidenceIs
    <2>. HIDE DEF E
    <2>. QED
      BY <2>1, <2>2, <2>3, EvidenceOf
  <1>7. EvidenceOK'
    <2>1. \A i \in DOMAIN responses' :
            responses'[i].kind = "init" => responses'[i].updates = 0
      BY <1>1 DEF EvidenceOK
    <2>2. \A s \in waiting' : s.kind = "concurrent"
      BY <1>5 DEF EvidenceOK
    <2>3. \A m \in Reports' : Reporting(m)
      BY <1>4, <1>5 DEF EvidenceOK
    <2>. QED
      BY <1>1, <1>6, <2>1, <2>2, <2>3, EvidenceStays
  <1>. QED
    BY <1>1, <1>4, <1>5, <1>7

\* A send is the first only while the worker has counted none.
LEMMA HandleEvidence ==
  ASSUME TrafficOK, WorkerOK, EvidenceOK, NEW r, Handled(r)
  PROVE  EvidenceOK'
  <1>. DEFINE k == worker.updates  E == Evidence \cup {<<r.id, r.updates>>}
              R == Scenario.repeats
  <1>1. /\ WorkerOK'
        /\ r.kind = "init" => k = 0 /\ worker'.updates = 0
        /\ r.kind = "typing" => worker' = worker
        /\ r.kind \in Sends => worker'.updates = k + R
    BY HandleWorker
  <1>2. /\ requests # <<>> /\ responses' = Append(responses, r)
        /\ r.kind = requests[1].kind /\ r.id = requests[1].id
        /\ r.updates = worker'.updates
        /\ UNCHANGED <<waiting, metrics, summary, copied>>
    BY DEF Handled
  <1>3. /\ r.kind \in {"init", "typing"} \cup Sends
        /\ r.id \in Nat \ {0}
    BY <1>2, QueueTail DEF TrafficOK, Travelling, Message
  <1>4. k \in Nat /\ R \in Nat \ {0}
    BY PageConstants DEF WorkerOK
  <1>5. /\ Len(responses) \in Nat /\ DOMAIN responses = 1..Len(responses)
        /\ DOMAIN responses' = 1..(Len(responses) + 1)
        /\ \A i \in 1..Len(responses) : responses'[i] = responses[i]
        /\ responses'[Len(responses) + 1] = r
    BY <1>2, QueueAppend DEF TrafficOK, Travelling
  <1>6. \A i \in DOMAIN responses' :
          \/ i \in DOMAIN responses /\ responses'[i] = responses[i]
          \/ responses'[i] = r
    BY <1>5
  <1>7. Reports' = Reports
    BY <1>2 DEF Reports
  <1>8. \A e \in Evidence' : e \in Evidence \/
          (r.kind \in Sends /\ e = <<r.id, r.updates>>)
    <2>. DEFINE F == IF r.kind \in Sends THEN E ELSE Evidence
    <2>1. \A i \in DOMAIN responses' :
            responses'[i].kind \in Sends =>
              <<responses'[i].id, responses'[i].updates>> \in F
      BY <1>6, EvidenceIs
    <2>2. \A s \in waiting' : <<s.id, s.updates>> \in F
      BY <1>2, EvidenceIs
    <2>3. \A m \in Reports' : <<m.work, m.updates>> \in F
      BY <1>7, EvidenceIs
    <2>4. Evidence' \subseteq F
      <3>. HIDE DEF F
      <3>. QED
        BY <2>1, <2>2, <2>3, EvidenceOf
    <2>. QED
      BY <2>4
  <1>9. /\ \A m \in Reports' : Reporting(m)
        /\ \A i \in DOMAIN responses' :
             responses'[i].kind = "init" => responses'[i].updates = 0
        /\ \A s \in waiting' : s.kind = "concurrent"
    BY <1>1, <1>2, <1>6, <1>7 DEF EvidenceOK
  <1>10. worker'.updates \in Nat /\ k <= worker'.updates
    BY <1>1, <1>3, <1>4
  <1>. DEFINE S == Evidence  U == Evidence'
  <1>11. \A e \in S : /\ e[1] \in Nat /\ e[2] \in 0..k
                      /\ e[2] # 0 => e[1] # 0
                      /\ \A f \in S : e[2] = R /\ f[2] = R => e[1] = f[1]
    BY DEF EvidenceOK
  <1>12. r.kind \in Sends => \A e \in S : e[2] = R => r.updates # R
    BY <1>1, <1>2, <1>4, <1>11
  <1>. HIDE DEF S, U, k, R
  <1>13. \A e \in U : /\ e[1] \in Nat /\ e[2] \in 0..worker'.updates
                      /\ e[2] # 0 => e[1] # 0
                      /\ \A f \in U : e[2] = R /\ f[2] = R => e[1] = f[1]
    <2>1. \A e \in U : e \in S \/ (r.kind \in Sends /\ e = <<r.id, r.updates>>)
      BY <1>8 DEF S, U
    <2>2. \A e \in U : /\ e[1] \in Nat /\ e[2] \in 0..worker'.updates
                       /\ e[2] # 0 => e[1] # 0
      BY <1>2, <1>3, <1>4, <1>10, <1>11, <2>1
    <2>. QED
      BY <1>11, <1>12, <2>1, <2>2
  <1>. QED
    BY <1>9, <1>13 DEF EvidenceOK, U, R

-----------------------------------------------------------------------------
(* The input delay.                                                         *)

LEMMA SendsAre ==
  ASSUME NEW q, NEW s
  PROVE  s \in SendsIn(q) <=>
           \E i \in DOMAIN q : q[i].kind \in Sends /\ s = q[i].id
  BY DEF SendsIn

LEMMA SendsAppended ==
  ASSUME NEW q, Queue(q), NEW x
  PROVE  SendsIn(Append(q, x)) =
           SendsIn(q) \cup {id \in {x.id} : x.kind \in Sends}
  <1>. DEFINE r == Append(q, x)
  <1>1. /\ Len(q) \in Nat /\ DOMAIN q = 1..Len(q)
        /\ DOMAIN r = 1..(Len(q) + 1)
        /\ \A i \in 1..Len(q) : r[i] = q[i]
        /\ r[Len(q) + 1] = x
    BY QueueAppend
  <1>. HIDE DEF r
  <1>2. /\ \A i \in DOMAIN q : i \in DOMAIN r /\ r[i] = q[i]
        /\ \A i \in DOMAIN r : (i \in DOMAIN q /\ r[i] = q[i]) \/ r[i] = x
        /\ \E i \in DOMAIN r : r[i] = x
    BY <1>1
  <1>3. \A s : s \in SendsIn(r) <=> s \in SendsIn(q) \/
                                    (x.kind \in Sends /\ s = x.id)
    BY <1>2, SendsAre
  <1>. QED
    BY <1>3 DEF r

LEMMA SendsLeft ==
  ASSUME NEW q, Queue(q), q # <<>>
  PROVE  /\ SendsIn(q) =
              SendsIn(Tail(q)) \cup {id \in {q[1].id} : q[1].kind \in Sends}
         /\ 1 \in DOMAIN q
  <1>. DEFINE r == Tail(q)
  <1>1. /\ Len(q) \in Nat \ {0} /\ DOMAIN q = 1..Len(q)
        /\ DOMAIN r = 1..(Len(q) - 1) /\ 1 \in DOMAIN q
        /\ \A i \in DOMAIN r : i + 1 \in DOMAIN q /\ r[i] = q[i + 1]
    BY QueueTail
  <1>. HIDE DEF r
  <1>2. \A i \in DOMAIN q : i = 1 \/ \E j \in DOMAIN r : r[j] = q[i]
    <2>1. ASSUME NEW i \in DOMAIN q, i # 1
          PROVE  \E j \in DOMAIN r : r[j] = q[i]
      <3>1. i - 1 \in DOMAIN r /\ (i - 1) + 1 = i
        BY <1>1, <2>1
      <3>. QED
        BY <1>1, <3>1
    <2>. QED
      BY <2>1
  <1>3. \A j \in DOMAIN r : \E i \in DOMAIN q : r[j] = q[i]
    BY <1>1
  <1>4. ASSUME NEW s
        PROVE  s \in SendsIn(q) <=> s \in SendsIn(r) \/
                                   (q[1].kind \in Sends /\ s = q[1].id)
    <2>1. s \in SendsIn(q) =>
            s \in SendsIn(r) \/ (q[1].kind \in Sends /\ s = q[1].id)
      BY <1>2, SendsAre
    <2>2. s \in SendsIn(r) => s \in SendsIn(q)
      BY <1>3, SendsAre
    <2>3. q[1].kind \in Sends /\ s = q[1].id => s \in SendsIn(q)
      BY <1>1, SendsAre
    <2>. QED
      BY <2>1, <2>2, <2>3
  <1>. QED
    BY <1>1, <1>4 DEF r

LEMMA SendsAhead ==
  ASSUME NEW q, NEW x, Ahead(x, q)
  PROVE  \A s \in SendsIn(q) : x < s
  BY SendsAre DEF Ahead

\* A click starts at most one send, its own.
LEMMA ClickDelay ==
  ASSUME TrafficOK, EvidenceOK, DelayOK, NEW kind \in {"typing"} \cup Sends,
         Post(kind), UNCHANGED <<responses, waiting, summary, copied>>,
         \/ /\ kind = "typing" /\ UNCHANGED <<inputTasks, metrics, overlapped>>
         \/ /\ kind = "product" /\ inputTasks' = inputTasks
            /\ metrics' = Reset(metrics)
            /\ overlapped' = (overlapped \/ SendUnderWay)
         \/ /\ kind = "concurrent"
            /\ inputTasks' = inputTasks \cup {clicks + 1}
            /\ metrics' = Marked(clicks + 1)
            /\ overlapped' = (overlapped \/ SendUnderWay)
  PROVE  DelayOK'
  <1>. DEFINE n == clicks + 1  S == SendsUnderWay  T == SendsUnderWay'
              x == [id |-> n, kind |-> kind]
  <1>1. requests' = Append(requests, x) /\ Queue(requests)
    BY DEF Post, TrafficOK, Travelling
  <1>2. T = S \cup {id \in {n} : kind \in Sends}
    <2>1. SendsIn(requests') =
            SendsIn(requests) \cup {id \in {n} : kind \in Sends}
      BY <1>1, SendsAppended
    <2>. QED
      BY <2>1 DEF SendsUnderWay
  <1>3. Reporting(metrics)
    BY DEF EvidenceOK, Reports
  <1>4. inputTasks \subseteq S /\ (~overlapped => NoOverlap)
    BY DEF DelayOK
  <1>5. CASE kind = "typing"
    <2>1. T = S /\ UNCHANGED <<inputTasks, metrics, overlapped>>
      BY <1>2, <1>5 DEF Sends
    <2>. QED
      BY <1>4, <2>1 DEF DelayOK, NoOverlap, OwnDelay
  <1>6. CASE kind \in Sends
    <2>1. /\ T = S \cup {n} /\ inputTasks' \subseteq inputTasks \cup {n}
          /\ overlapped' = (overlapped \/ SendUnderWay)
          /\ \/ metrics' = Reset(metrics) /\ inputTasks' = inputTasks
             \/ metrics' = Marked(n)
      BY <1>2, <1>6 DEF Sends
    <2>2. /\ metrics'.updates = 0 /\ metrics'.delay = NoDelay
          /\ metrics'.scheduled = n \/ inputTasks' = inputTasks
      BY <1>3, <2>1, ResetReports, MarkedReports
    <2>3. ASSUME ~overlapped'
          PROVE  NoOverlap'
      <3>1. ~overlapped /\ ~SendUnderWay
        BY <2>1, <2>3
      <3>2. S = {} /\ inputTasks = {}
        BY <3>1, SendsAre DEF SendUnderWay, SendsUnderWay
      <3>3. T = {n}
        BY <2>1, <3>2
      <3>4. \A m \in {summary} \cup copied : m.updates # 0 => OwnDelay(m)
        BY <1>4, <3>1 DEF NoOverlap
      <3>5. \A s \in T : s \in inputTasks' => metrics'.scheduled = s
        BY <2>2, <3>2, <3>3
      <3>. HIDE DEF T
      <3>. QED
        BY <2>2, <3>3, <3>4, <3>5 DEF NoOverlap, OwnDelay, T
    <2>4. inputTasks' \subseteq T
      BY <1>4, <2>1
    <2>. QED
      BY <2>3, <2>4 DEF DelayOK
  <1>. QED
    BY <1>5, <1>6

\* A handled send is under way still.
LEMMA HandleDelay ==
  ASSUME TrafficOK, DelayOK, NEW r, Handled(r)
  PROVE  DelayOK'
  <1>1. /\ requests # <<>> /\ requests' = Tail(requests)
        /\ responses' = Append(responses, r)
        /\ r.id = requests[1].id /\ r.kind = requests[1].kind
        /\ UNCHANGED <<inputTasks, waiting, metrics, summary, copied,
                       overlapped>>
    BY DEF Handled
  <1>2. Queue(requests) /\ Queue(responses)
    BY DEF TrafficOK, Travelling
  <1>. DEFINE h == {id \in {r.id} : r.kind \in Sends}
  <1>3. SendsIn(requests) = SendsIn(requests') \cup h
    BY <1>1, <1>2, SendsLeft
  <1>4. SendsIn(responses') = SendsIn(responses) \cup h
    BY <1>1, <1>2, SendsAppended
  <1>. HIDE DEF h
  <1>5. SendsUnderWay' = SendsUnderWay
    BY <1>1, <1>3, <1>4 DEF SendsUnderWay
  <1>. QED
    BY <1>1, <1>5 DEF DelayOK, NoOverlap, OwnDelay

LEMMA DeliverDelay ==
  ASSUME TrafficOK, EvidenceOK, DelayOK, Deliver
  PROVE  DelayOK'
  <1>. DEFINE r == responses[1]  S == SendsUnderWay  T == SendsUnderWay'
              P == SendsIn(requests)  A == SendsIn(responses)
              B == SendsIn(responses')  W == {s.id : s \in waiting}
  <1>1. /\ responses # <<>> /\ responses' = Tail(responses)
        /\ UNCHANGED <<worker, requests, inputTasks, copied, clicks,
                       overlapped>>
        /\ Shown(r) \/ Held(r) \/ Applied(r)
    BY DeliverIs
  <1>2. Queue(responses) /\ 1 \in DOMAIN responses
    BY <1>1, QueueTail DEF TrafficOK, Travelling
  <1>3. A = B \cup {id \in {r.id} : r.kind \in Sends}
    BY <1>1, <1>2, SendsLeft
  <1>4. S = W \cup P \cup A /\ T = {s.id : s \in waiting'} \cup P \cup B
    BY <1>1 DEF SendsUnderWay
  <1>5. /\ Message(r, clicks, inputTasks) /\ Ahead(r.id, requests)
        /\ Ahead(metrics.work, responses) /\ metrics.work \in Nat
        /\ clicks \in Nat
    BY <1>2 DEF TrafficOK, Travelling
  <1>6. Reporting(metrics)
    BY DEF EvidenceOK, Reports
  <1>7. inputTasks \subseteq S /\ (~overlapped => NoOverlap)
    BY DEF DelayOK
  <1>8. CASE Shown(r)
    <2>1. T = S /\ metrics' = metrics /\ summary' = metrics
      BY <1>3, <1>4, <1>8 DEF Shown, Sends
    <2>2. ASSUME ~overlapped
          PROVE  metrics.updates # 0 => OwnDelay(metrics)
      BY <1>7, <2>2 DEF NoOverlap
    <2>. QED
      BY <1>1, <1>7, <2>1, <2>2 DEF DelayOK, NoOverlap, OwnDelay
  <1>9. CASE Held(r)
    <2>1. T = S /\ summary' = summary /\ r.kind \in Sends
      BY <1>3, <1>4, <1>9 DEF Held, Sends
    <2>2. /\ metrics'.updates = metrics.updates /\ metrics'.work = metrics.work
          /\ metrics'.delay = metrics.delay
          /\ metrics'.scheduled = metrics.scheduled
      BY <1>6, <1>9, RenderedReports DEF Held
    <2>. QED
      BY <1>1, <1>7, <2>1, <2>2 DEF DelayOK, NoOverlap, OwnDelay
  <1>10. CASE Applied(r)
    <2>1. /\ metrics' = Apply(metrics, r) /\ summary' = metrics'
          /\ waiting' = waiting /\ r.kind # "typing"
          /\ r.id \notin inputTasks
      BY <1>5, <1>10 DEF Applied, Message
    <2>2. /\ metrics'.updates = r.updates /\ metrics'.delay = metrics.delay
          /\ metrics'.scheduled = metrics.scheduled
          /\ r.kind = "init" => metrics'.work = 0
          /\ r.kind # "init" => metrics'.work = r.id
      BY <1>6, <2>1, ApplyReports
    <2>3. T = W \cup P \cup B
      BY <1>4, <2>1
    <2>4. inputTasks \subseteq T
      BY <1>3, <1>4, <1>7, <2>1, <2>3
    <2>5. CASE r.kind = "init"
      <3>1. T = S
        BY <1>3, <1>4, <2>3, <2>5 DEF Sends
      <3>2. r.updates = 0
        BY <1>2, <2>5 DEF EvidenceOK
      <3>3. metrics.work = 0
        <4>1. r.id = 1 /\ metrics.work < r.id
          BY <1>2, <1>5, <2>5 DEF Message, Ahead
        <4>. QED
          BY <1>5, <4>1
      <3>. QED
        BY <1>1, <1>7, <2>1, <2>2, <2>5, <3>1, <3>2, <3>3
        DEF DelayOK, NoOverlap, OwnDelay
    <2>6. CASE r.kind \in Sends
      <3>1. r.id \in A /\ r.id \in S
        BY <1>3, <1>4, <2>6
      <3>2. r.id \in Nat /\ r.kind # "init"
        BY <1>5, <2>6 DEF Message, Sends
      <3>3. ASSUME ~overlapped
            PROVE  NoOverlap'
        <4>1. /\ \A s, t \in S : s = t
              /\ metrics.delay \in {NoDelay, <<r.id, r.id>>}
              /\ \A m \in {summary} \cup copied : m.updates # 0 => OwnDelay(m)
          BY <1>7, <3>1, <3>3 DEF NoOverlap
        <4>2. \A s \in P : r.id < s
          BY <1>5, SendsAhead
        <4>3. \A s \in B : r.id < s
          <5>1. Ahead(r.id, Tail(responses))
            BY <1>1, <1>5, TailTravels DEF TrafficOK
          <5>. QED
            BY <1>1, <5>1, SendsAhead
        <4>4. \A s \in W : s < r.id
          BY <1>2 DEF TrafficOK, Ahead
        <4>5. T = {}
          <5>1. \A s \in T : s = r.id
            BY <1>3, <1>4, <2>3, <3>1, <4>1
          <5>. QED
            BY <2>3, <3>2, <4>2, <4>3, <4>4, <5>1
        <4>6. metrics'.delay \in {NoDelay, <<metrics'.work, metrics'.work>>}
          BY <2>2, <3>2, <4>1
        <4>. HIDE DEF T
        <4>. QED
          BY <1>1, <2>1, <4>1, <4>5, <4>6 DEF NoOverlap, OwnDelay, T
      <3>. QED
        BY <1>1, <2>4, <3>3 DEF DelayOK
    <2>. QED
      BY <1>5, <2>1, <2>5, <2>6 DEF Message
  <1>. QED
    BY <1>1, <1>8, <1>9, <1>10

LEMMA TaskDelay ==
  ASSUME TrafficOK, EvidenceOK, DelayOK, NEW id, InputTask(id)
  PROVE  DelayOK'
  <1>. DEFINE S == SendsUnderWay  T == SendsUnderWay'
              P == SendsIn(requests)  A == SendsIn(responses)
  <1>1. /\ id \in inputTasks /\ inputTasks' = inputTasks \ {id}
        /\ UNCHANGED <<requests, responses, copied, overlapped>>
        /\ Early(id) \/ \E r : Late(id, r)
    BY InputTaskIs
  <1>2. Reporting(metrics)
    BY DEF EvidenceOK, Reports
  <1>3. inputTasks \subseteq S /\ (~overlapped => NoOverlap)
    BY DEF DelayOK
  <1>4. ASSUME ~overlapped
        PROVE  /\ \A s \in S : s = id
               /\ metrics.scheduled = id /\ metrics.updates = 0
               /\ \A m \in {summary} \cup copied : m.updates # 0 => OwnDelay(m)
    BY <1>1, <1>3, <1>4 DEF NoOverlap
  <1>5. CASE Early(id)
    <2>1. T = S /\ metrics' = Timed(id) /\ summary' = summary
      BY <1>1, <1>5 DEF SendsUnderWay, Early
    <2>2. /\ metrics'.updates = metrics.updates
          /\ metrics'.delay = <<metrics.scheduled, id>>
          /\ metrics'.scheduled = metrics.scheduled
      BY <1>2, <2>1, TimedReports DEF Timed
    <2>3. id \in S
      BY <1>1, <1>3
    <2>. HIDE DEF S, T
    <2>4. ASSUME ~overlapped
          PROVE  NoOverlap'
      BY <1>1, <1>4, <2>1, <2>2, <2>3, <2>4 DEF NoOverlap, OwnDelay, S, T
    <2>. QED
      BY <1>1, <1>3, <2>1, <2>4 DEF DelayOK, S, T
  <1>6. ASSUME NEW r, Late(id, r)
        PROVE  DelayOK'
    <2>1. /\ r \in waiting /\ r.id = id /\ waiting' = waiting \ {r}
          /\ metrics' = Apply(Timed(id), r) /\ summary' = metrics'
          /\ r.kind # "init"
      BY <1>6 DEF Late, EvidenceOK
    <2>2. /\ metrics'.work = id
          /\ metrics'.delay = <<metrics.scheduled, id>>
      <3>1. /\ Reporting(Timed(id))
            /\ Timed(id).delay = <<metrics.scheduled, id>>
        BY <1>2, TimedReports DEF Timed
      <3>. QED
        BY <2>1, <3>1, ApplyReports
    <2>3. \A s \in waiting : s.id = id => s = r
      BY <2>1 DEF TrafficOK
    <2>4. \A s \in S : s = id \/ s \in T
      BY <1>1, <2>1 DEF SendsUnderWay
    <2>5. /\ \A s \in P : id < s
          /\ \A s \in A : id < s
      BY <2>1, SendsAhead DEF TrafficOK
    <2>6. ASSUME ~overlapped
          PROVE  NoOverlap'
      <3>1. \A s \in T : s \in S
        BY <1>1, <2>1 DEF SendsUnderWay
      <3>2. id \in Nat
        BY <1>1 DEF TrafficOK
      <3>3. id \notin T
        <4>1. id \notin {s.id : s \in waiting'}
          BY <2>1, <2>3
        <4>2. id \notin P /\ id \notin A
          BY <2>5, <3>2
        <4>. QED
          BY <1>1, <4>1, <4>2 DEF SendsUnderWay
      <3>4. T = {}
        BY <1>4, <2>6, <3>1, <3>3
      <3>5. OwnDelay(metrics)'
        BY <1>4, <2>2, <2>6 DEF OwnDelay
      <3>. HIDE DEF T
      <3>. QED
        BY <1>1, <1>4, <2>1, <2>6, <3>4, <3>5 DEF NoOverlap, OwnDelay, T
    <2>. HIDE DEF S, T
    <2>. QED
      BY <1>1, <1>3, <2>4, <2>6 DEF DelayOK, S, T
  <1>. QED
    BY <1>1, <1>5, <1>6

-----------------------------------------------------------------------------
(* The inductive invariant.                                                 *)

LEMMA PageIInvInit == ASSUME PageInit PROVE PageIInv
  <1>. DEFINE x == [id |-> 1, kind |-> "init"]
  <1>1. /\ worker.updates = 0 /\ worker.runs = 0 /\ worker.blocks = <<>>
        /\ requests = <<x>> /\ responses = <<>> /\ clicks = 1
        /\ inputTasks = {} /\ waiting = {} /\ copied = {}
        /\ metrics = InitialMetrics /\ summary = InitialMetrics
    BY DEF PageInit
  <1>2. /\ Queue(requests) /\ DOMAIN requests = {1} /\ requests[1] = x
        /\ requests # <<>>
    <2>. DEFINE q == <<x>>  X == {x}
    <2>1. q \in Seq(X) /\ q[1] = x /\ Len(q) = 1 /\ q # <<>>
      OBVIOUS
    <2>2. requests = q
      BY <1>1
    <2>. HIDE DEF q, X, x
    <2>3. Queue(q) /\ DOMAIN q = 1..Len(q)
      BY <2>1, QueueOf
    <2>. QED
      BY <2>1, <2>2, <2>3
  <1>3. Queue(responses) /\ DOMAIN responses = {}
    <2>. DEFINE q == <<>>  X == {x}
    <2>1. q \in Seq(X) /\ Len(q) = 0
      OBVIOUS
    <2>2. responses = q
      BY <1>1
    <2>. HIDE DEF q, X
    <2>3. Queue(q) /\ DOMAIN q = 1..Len(q)
      BY <2>1, QueueOf
    <2>. QED
      BY <2>1, <2>2, <2>3
  <1>4. /\ Reporting(metrics) /\ metrics.work = 0 /\ metrics.updates = 0
        /\ metrics.delay = NoDelay
    BY <1>1 DEF InitialMetrics, Reporting
  <1>5. Reports = {metrics}
    BY <1>1 DEF Reports
  <1>6. TrafficOK
    <2>1. Message(x, 1, {})
      BY DEF Message
    <2>. QED
      BY <1>1, <1>2, <1>3, <1>4, <2>1
      DEF TrafficOK, Travelling, IdsGrow, Ahead
  <1>7. WorkerOK
    BY <1>1, <1>2 DEF WorkerOK
  <1>8. EvidenceOK
    <2>1. Evidence \subseteq {<<0, 0>>}
      BY <1>1, <1>3, <1>4, <1>5 DEF Evidence
    <2>. HIDE DEF x
    <2>. QED
      BY <1>1, <1>3, <1>4, <1>5, <2>1, PageConstants DEF EvidenceOK
  <1>9. DelayOK
    <2>1. SendsUnderWay = {}
      BY <1>1, <1>2, <1>3, SendsAre DEF SendsUnderWay, Sends
    <2>. HIDE DEF x
    <2>. QED
      BY <1>1, <1>4, <2>1 DEF DelayOK, NoOverlap, OwnDelay
  <1>. QED
    BY <1>6, <1>7, <1>8, <1>9 DEF PageIInv

LEMMA PageIInvNext == ASSUME PageIInv, PageNext PROVE PageIInv'
  <1>1. TrafficOK /\ WorkerOK /\ EvidenceOK /\ DelayOK
    BY DEF PageIInv
  <1>2. CASE ClickTyping
    <2>1. /\ Post("typing")
          /\ UNCHANGED <<worker, responses, inputTasks, waiting, metrics,
                         surface, summary, copied, overlapped>>
      BY <1>2 DEF ClickTyping
    <2>2. EvidenceOK'
      BY <1>1, <2>1, ClickEvidence
    <2>3. TrafficOK' /\ WorkerOK'
      BY <1>1, <2>1, PostTraffic, PostWorker
    <2>4. DelayOK'
      BY <1>1, <2>1, ClickDelay
    <2>. QED
      BY <2>2, <2>3, <2>4 DEF PageIInv
  <1>3. CASE ClickProduct
    <2>1. /\ Post("product") /\ "product" \in Sends
          /\ metrics' = Reset(metrics)
          /\ overlapped' = (overlapped \/ SendUnderWay)
          /\ UNCHANGED <<worker, responses, inputTasks, waiting, surface,
                         summary, copied>>
      BY <1>3 DEF ClickProduct, Sends
    <2>2. EvidenceOK' /\ metrics'.work \in {0, metrics.work}
      BY <1>1, <2>1, ClickEvidence
    <2>3. TrafficOK' /\ WorkerOK'
      BY <1>1, <2>1, <2>2, PostTraffic, PostWorker
    <2>4. DelayOK'
      BY <1>1, <2>1, ClickDelay
    <2>. QED
      BY <2>2, <2>3, <2>4 DEF PageIInv
  <1>4. CASE ClickConcurrent
    <2>1. /\ Post("concurrent") /\ "concurrent" \in Sends
          /\ metrics' = Marked(clicks + 1)
          /\ inputTasks' = inputTasks \cup {clicks + 1}
          /\ overlapped' = (overlapped \/ SendUnderWay)
          /\ UNCHANGED <<worker, responses, waiting, surface, summary, copied>>
      BY <1>4 DEF ClickConcurrent, Sends
    <2>2. EvidenceOK' /\ metrics'.work \in {0, metrics.work}
      BY <1>1, <2>1, ClickEvidence
    <2>3. TrafficOK' /\ WorkerOK'
      BY <1>1, <2>1, <2>2, PostTraffic, PostWorker
    <2>4. DelayOK'
      BY <1>1, <2>1, ClickDelay
    <2>. QED
      BY <2>2, <2>3, <2>4 DEF PageIInv
  <1>5. CASE HandleRequest
    <2>1. PICK r : Handled(r)
      BY <1>1, <1>5, HandleIs
    <2>. QED
      BY <1>1, <2>1, HandleTraffic, HandleWorker, HandleEvidence, HandleDelay
      DEF PageIInv
  <1>6. CASE Deliver
    <2>1. EvidenceOK' /\ metrics'.work \in {0, metrics.work, responses[1].id}
      BY <1>1, <1>6, DeliverEvidence
    <2>2. DelayOK'
      BY <1>1, <1>6, DeliverDelay
    <2>3. /\ responses # <<>> /\ responses' = Tail(responses)
          /\ UNCHANGED <<worker, requests, inputTasks, copied, clicks>>
          /\ waiting' \subseteq waiting \cup {responses[1]}
      BY <1>1, <1>6, DeliverIs DEF Shown, Held, Applied
    <2>4. TrafficOK'
      BY <1>1, <2>1, <2>3, DeliverTraffic
    <2>5. WorkerOK'
      BY <1>1, <2>3 DEF WorkerOK
    <2>. QED
      BY <2>1, <2>2, <2>4, <2>5 DEF PageIInv
  <1>7. ASSUME NEW id \in inputTasks, InputTask(id)
        PROVE  PageIInv'
    <2>1. /\ EvidenceOK' /\ inputTasks' \subseteq inputTasks
          /\ waiting' \subseteq waiting
          /\ \/ metrics'.work = metrics.work
             \/ \E r \in waiting : metrics'.work = r.id
      BY <1>1, <1>7, TaskEvidence
    <2>2. DelayOK'
      BY <1>1, <1>7, TaskDelay
    <2>3. UNCHANGED <<worker, requests, responses, clicks>>
      BY <1>7, InputTaskIs
    <2>4. TrafficOK'
      BY <1>1, <2>1, <2>3, TaskTraffic
    <2>5. WorkerOK'
      BY <1>1, <2>3 DEF WorkerOK
    <2>. QED
      BY <2>1, <2>2, <2>4, <2>5 DEF PageIInv
  <1>8. CASE Copy
    <2>1. /\ copied' = copied \cup {summary}
          /\ UNCHANGED <<worker, requests, responses, inputTasks, waiting,
                         metrics, summary, clicks, overlapped>>
      BY <1>8 DEF Copy
    <2>2. Reports' = Reports
      BY <2>1 DEF Reports
    <2>3. TrafficOK' /\ WorkerOK'
      BY <1>1, <2>1 DEF TrafficOK, WorkerOK
    <2>4. EvidenceOK'
      BY <1>1, <2>1, <2>2 DEF EvidenceOK, Evidence
    <2>5. DelayOK'
      <3>1. SendsUnderWay' = SendsUnderWay
        BY <2>1 DEF SendsUnderWay
      <3>. QED
        BY <1>1, <2>1, <3>1 DEF DelayOK, NoOverlap, OwnDelay
    <2>. QED
      BY <2>3, <2>4, <2>5 DEF PageIInv
  <1>. QED
    BY <1>2, <1>3, <1>4, <1>5, <1>6, <1>7, <1>8 DEF PageNext

LEMMA PageIInvStutter ==
  ASSUME PageIInv, UNCHANGED stressVars PROVE PageIInv'
  <1>1. UNCHANGED <<worker, requests, responses, inputTasks, waiting, metrics,
                    summary, copied, clicks, overlapped>>
    BY DEF stressVars
  <1>2. Reports' = Reports /\ SendsUnderWay' = SendsUnderWay
        /\ Evidence' = Evidence
    BY <1>1 DEF Reports, SendsUnderWay, Evidence
  <1>3. TrafficOK' /\ WorkerOK'
    BY <1>1 DEF PageIInv, TrafficOK, WorkerOK
  <1>4. EvidenceOK' /\ DelayOK'
    BY <1>1, <1>2 DEF PageIInv, EvidenceOK, DelayOK, NoOverlap, OwnDelay
  <1>. QED
    BY <1>3, <1>4 DEF PageIInv

(***************************************************************************)
(* The invariant of the page, whatever its buttons start: messages keep    *)
(* the order of their ids, the transcript is sound between two requests,   *)
(* the count reported with a send's work tells which send it was, and the  *)
(* input delay is that of the only send under way (lines 389-620 of the    *)
(* page for the worker, 777-876 for the main thread).                      *)
(***************************************************************************)
THEOREM StressPageInvariant == PageSpec => []PageIInv
  <1>1. PageInit => PageIInv
    BY PageIInvInit
  <1>2. PageIInv /\ [PageNext]_stressVars => PageIInv'
    BY PageIInvNext, PageIInvStutter
  <1>. QED
    BY <1>1, <1>2, PTL DEF PageSpec

(***************************************************************************)
(* However many sends the page has run, no block takes the name or the     *)
(* place of another, the last batch was merged in turns, and the context   *)
(* is the end of the transcript (lines 504-519 and 585-617).               *)
(***************************************************************************)
THEOREM TranscriptSound == PageSpec => []TranscriptIsSound
  <1>1. PageIInv => TranscriptIsSound
    <2>. SUFFICES ASSUME PageIInv PROVE TranscriptIsSound
      OBVIOUS
    <2>1. WorkerOK
      BY DEF PageIInv
    <2>2. CASE worker.blocks = <<>>
      <3>1. worker.runs = 0
        BY <2>1, <2>2 DEF WorkerOK
      <3>. QED
        BY <2>2, <3>1 DEF TranscriptIsSound, OrdinalsArePlaces
    <2>3. CASE worker.blocks # <<>>
      <3>1. TranscriptOf(worker)
        BY <2>1, <2>3 DEF WorkerOK
      <3>2. /\ OrdinalsArePlaces(worker.blocks)
            /\ worker.runs > 0 => LanesTakeTurns(LastBatch(worker.blocks))
        BY <3>1, MergedIsSound DEF TranscriptOf
      <3>3. Len(worker.index) = Scenario.context
            /\ IsSuffix(worker.index, worker.blocks)
        <4>. DEFINE b == worker.blocks  k == worker.runs * Batch
        <4>1. /\ b \in Seq(TraceBlock) /\ worker.runs \in Nat
              /\ Len(b) = Scenario.visible + k
              /\ worker.index = Context(b)
          BY <3>1 DEF TranscriptOf
        <4>2. k \in Nat
          BY <4>1, PageConstants
        <4>. HIDE DEF b, k
        <4>3. Scenario.context <= Len(b)
          BY <4>1, <4>2, PageConstants
        <4>4. Len(Context(b)) = Scenario.context /\ IsSuffix(Context(b), b)
          BY <4>1, <4>3, ContextIsEnd
        <4>. QED
          BY <4>1, <4>4 DEF b
      <3>. QED
        BY <3>2, <3>3 DEF TranscriptIsSound
    <2>. QED
      BY <2>2, <2>3
  <1>. QED
    BY <1>1, StressPageInvariant, PTL

(***************************************************************************)
(* The rows the collector accepts of one page load report one and the same *)
(* send, the first; and if no two sends overlapped, an input delay in them *)
(* is that send's own (lines 808-839 of the page, 355-360 of the           *)
(* collector).                                                             *)
(***************************************************************************)
THEOREM OneSendAccepted == PageSpec => []AcceptedIsOneSend
  <1>1. PageIInv => AcceptedIsOneSend
    <2>. SUFFICES ASSUME PageIInv, NEW m \in Accepted, NEW n \in Accepted
                  PROVE  /\ m.work # 0 /\ m.work = n.work
                         /\ ~overlapped =>
                              m.delay \in {NoDelay, <<m.work, m.work>>}
      BY DEF AcceptedIsOneSend
    <2>1. ASSUME NEW x \in Accepted
          PROVE  x \in copied /\ x.updates = Scenario.repeats
                 /\ <<x.work, x.updates>> \in Evidence
      <3>1. x \in copied /\ X_R0(Row(x), Scenario)
        BY DEF Accepted
      <3>2. RollingContext(Row(x), Scenario, "p5x_r0")
        BY <3>1 DEF X_R0
      <3>3. Row(x).updates = Scenario.repeats
        BY <3>2 DEF RollingContext
      <3>4. Row(x).updates = x.updates
        BY DEF Row
      <3>5. x \in Reports
        BY <3>1 DEF Reports
      <3>. QED
        BY <3>1, <3>3, <3>4, <3>5, EvidenceIs
    <2>2. EvidenceOK /\ DelayOK
      BY DEF PageIInv
    <2>3. Scenario.repeats # 0
      BY PageConstants
    <2>. DEFINE e == <<m.work, m.updates>>  f == <<n.work, n.updates>>
    <2>4. e \in Evidence /\ f \in Evidence /\ e[2] = Scenario.repeats
          /\ f[2] = Scenario.repeats
      BY <2>1
    <2>5. e[1] # 0 /\ e[1] = f[1]
      <3>. HIDE DEF e, f
      <3>. QED
        BY <2>2, <2>3, <2>4 DEF EvidenceOK
    <2>6. ~overlapped => m.delay \in {NoDelay, <<m.work, m.work>>}
      BY <2>1, <2>2, <2>3 DEF DelayOK, NoOverlap, OwnDelay
    <2>. QED
      BY <2>5, <2>6
  <1>. QED
    BY <1>1, StressPageInvariant, PTL
-----------------------------------------------------------------------------
(* The collectors, from here on.                                            *)

USE CollectorAssumption

\* As many different names as there are entries are all the names.
LEMMA Covering ==
  ASSUME NEW n \in Nat, NEW T, NEW f \in Injection(1 .. n, T),
         NEW g \in Surjection(1 .. n, T)
  PROVE  \A t \in T : \E i \in 1 .. n : f[i] = t
  <1>1. IsFiniteSet(1 .. n) /\ Cardinality(1 .. n) = n
    BY FS_Interval
  <1>2. IsFiniteSet(T) /\ Cardinality(T) <= n
    BY <1>1, FS_Surjection
  <1>3. /\ n <= Cardinality(T)
        /\ n = Cardinality(T) => f \in Surjection(1 .. n, T)
    BY <1>1, <1>2, FS_Injection
  <1>4. Cardinality(T) \in Nat
    BY <1>2, FS_CardinalityType
  <1>5. f \in Surjection(1 .. n, T)
    BY <1>2, <1>3, <1>4
  <1>. QED
    BY <1>5 DEF Surjection

(***************************************************************************)
(* The inductive invariant: a collector at work has counted its rows; the  *)
(* ones validated so far passed, are different and are those seen; and     *)
(* every result file is what such a run wrote.                             *)
(***************************************************************************)
Passed(row, k) ==
  /\ HasFields(row, k) /\ Known(row.scenario)
  /\ Accepts(k, row, ExpectedById(row.scenario))

ValidatedOK ==
  running # None =>
    /\ running \in Used /\ rows \in Seq(PastedRow) /\ at \in 0 .. Len(rows) + 1
    /\ at = 0 => seen = {}
    /\ at # 0 =>
         /\ Len(rows) = Len(Matrix)
         /\ seen = {rows[j].scenario : j \in 1 .. at - 1}
         /\ \A j \in 1 .. at - 1 : Passed(rows[j], running)
         /\ \A i, j \in 1 .. at - 1 :
              rows[i].scenario = rows[j].scenario => i = j

WrittenBy(k, file) ==
  \E input \in Seq(PastedRow) :
    /\ Len(input) = Len(Matrix)
    /\ file = [i \in 1 .. Len(input) |-> Published(k, input[i])]
    /\ \A i \in 1 .. Len(input) : Passed(input[i], k)
    /\ \A i, j \in 1 .. Len(input) :
         input[i].scenario = input[j].scenario => i = j

ResultsOK ==
  /\ results \in [Collectors -> {results[k] : k \in Collectors}]
  /\ \A k \in Used : results[k] # <<>> => WrittenBy(k, results[k])

CollectorIInv == ValidatedOK /\ ResultsOK

LEMMA NoCollector == None \notin Used
  BY DEF None, Collectors, FieldsOf

LEMMA Init0 == CollectorInit => CollectorIInv
  BY DEF CollectorInit, CollectorIInv, ValidatedOK, ResultsOK, None

LEMMA FinishStep ==
  ASSUME CollectorIInv, Finish
  PROVE  CollectorIInv'
  <1>1. CASE UNCHANGED results /\ running' = None
    <2>1. ValidatedOK'
      BY <1>1 DEF ValidatedOK
    <2>2. ResultsOK'
      BY <1>1 DEF CollectorIInv, ResultsOK, WrittenBy
    <2>. QED
      BY <2>1, <2>2 DEF CollectorIInv
  <1>2. CASE Write(File) /\ running' = None
    <2>1. /\ running # None /\ running \in Used /\ rows \in Seq(PastedRow)
          /\ at = Len(rows) + 1 /\ at # 0 /\ Len(rows) \in Nat
      BY LenProperties DEF Finish, CollectorIInv, ValidatedOK
    <2>2. DOMAIN rows = 1 .. Len(rows)
      BY <2>1, LenProperties
    <2>3. at - 1 = Len(rows)
      BY <2>1
    <2>4. WrittenBy(running, File)
      BY <2>1, <2>2, <2>3 DEF CollectorIInv, ValidatedOK, WrittenBy, File
    <2>5. results' = [results EXCEPT ![running] = File]
      BY <1>2 DEF Write
    <2>6. PICK file : file = File
      OBVIOUS
    <2>7. DOMAIN results = Collectors /\ running \in Collectors
      BY <2>1 DEF CollectorIInv, ResultsOK
    <2>8. \A k \in Used : results'[k] # <<>> => WrittenBy(k, results'[k])
      BY <2>4, <2>5, <2>7 DEF CollectorIInv, ResultsOK
    <2>9. results' = [k \in Collectors |-> results'[k]]
      BY <2>5, <2>7
    <2>10. ResultsOK'
      BY <2>8, <2>9 DEF ResultsOK, WrittenBy
    <2>. QED
      BY <1>2, <2>10 DEF CollectorIInv, ValidatedOK
  <1>. QED
    BY <1>1, <1>2 DEF Finish, Fail

LEMMA AcceptStep ==
  ASSUME CollectorIInv, AcceptRow
  PROVE  CollectorIInv'
  <1>1. /\ running # None /\ running \in Used /\ rows \in Seq(PastedRow)
        /\ at \in 1 .. Len(rows) /\ at' = at + 1
        /\ seen' = seen \cup {rows[at].scenario}
        /\ UNCHANGED <<running, rows, results>>
        /\ rows[at].scenario \notin seen
        /\ Passed(rows[at], running)
    BY LenProperties
    DEF AcceptRow, CollectorIInv, ValidatedOK, RowPasses, Passed
  <1>2. /\ Len(rows) = Len(Matrix) /\ Len(rows) \in Nat
        /\ seen = {rows[j].scenario : j \in 1 .. at - 1}
        /\ \A j \in 1 .. at - 1 : Passed(rows[j], running)
        /\ \A i, j \in 1 .. at - 1 :
             rows[i].scenario = rows[j].scenario => i = j
    <2>1. at # 0 /\ ValidatedOK /\ Len(rows) \in Nat
      BY <1>1, LenProperties DEF CollectorIInv
    <2>. QED
      BY <1>1, <2>1, Zenon DEF ValidatedOK
  <1>3. 1 .. at' - 1 = (1 .. at - 1) \cup {at}
    BY <1>1
  <1>4. seen' = {rows[j].scenario : j \in 1 .. at' - 1}
    BY <1>1, <1>2, <1>3
  <1>5. \A j \in 1 .. at' - 1 : Passed(rows[j], running)
    BY <1>1, <1>2, <1>3
  <1>6. ASSUME NEW i \in 1 .. at' - 1, NEW j \in 1 .. at' - 1,
               rows[i].scenario = rows[j].scenario
        PROVE  i = j
    BY <1>1, <1>2, <1>3, <1>6
  <1>7. ValidatedOK'
    BY <1>1, <1>2, <1>4, <1>5, <1>6 DEF ValidatedOK, Passed
  <1>8. ResultsOK'
    BY <1>1 DEF CollectorIInv, ResultsOK, WrittenBy
  <1>. QED
    BY <1>7, <1>8 DEF CollectorIInv

LEMMA CollectorStep ==
  ASSUME CollectorIInv, [CollectorNext]_collectorVars
  PROVE  CollectorIInv'
  <1>1. ASSUME UNCHANGED results
        PROVE  ResultsOK'
    BY <1>1 DEF CollectorIInv, ResultsOK, WrittenBy
  <1>2. ASSUME NEW k \in Used, Start(k)
        PROVE  CollectorIInv'
    <2>1. rows' \in Seq(PastedRow) /\ running' = k /\ at' = 0 /\ seen' = {}
      BY <1>2 DEF Start
    <2>2. ValidatedOK'
      BY <2>1, LenProperties DEF ValidatedOK
    <2>. QED
      BY <1>1, <1>2, <2>2 DEF CollectorIInv, Start
  <1>3. CASE RefuseCount \/ RefuseRow
    BY <1>1, <1>3
    DEF RefuseCount, RefuseRow, Fail, CollectorIInv, ValidatedOK
  <1>4. CASE CountRows
    <2>1. /\ running # None /\ at = 0 /\ at' = 1 /\ Len(rows) = Len(Matrix)
          /\ UNCHANGED <<running, rows, seen, results>>
      BY <1>4 DEF CountRows
    <2>2. running \in Used /\ rows \in Seq(PastedRow) /\ seen = {}
      BY <2>1 DEF CollectorIInv, ValidatedOK
    <2>3. 1 .. at' - 1 = {} /\ Len(rows) \in Nat
      BY <2>1, <2>2, LenProperties
    <2>4. ValidatedOK'
      BY <2>1, <2>2, <2>3 DEF ValidatedOK
    <2>. QED
      BY <1>1, <2>1, <2>4 DEF CollectorIInv
  <1>5. CASE UNCHANGED collectorVars
    <2>1. ValidatedOK'
      BY <1>5 DEF CollectorIInv, collectorVars, ValidatedOK, Passed
    <2>. QED
      BY <1>1, <1>5, <2>1 DEF CollectorIInv, collectorVars
  <1>. QED
    BY <1>2, <1>3, <1>4, <1>5, FinishStep, AcceptStep DEF CollectorNext

(***************************************************************************)
(* The invariant of the collectors holds, whatever is pasted.              *)
(***************************************************************************)
THEOREM CollectorInvariant == CollectorSpec => []CollectorIInv
  BY Init0, CollectorStep, PTL DEF CollectorSpec

(***************************************************************************)
(* A result file has a row for every scenario of the matrix and no other:  *)
(* as many different known scenarios as the matrix has entries are all of  *)
(* them (validateManualRows,                                               *)
(* collect_p5x_manual_r0c_product_trace_shaped_results.mjs:238-264).       *)
(***************************************************************************)
THEOREM ResultsCover == CollectorSpec => []ResultsCoverTheMatrix
  <1>1. ASSUME NEW k, NEW file, WrittenBy(k, file)
        PROVE  /\ Len(file) = Len(Matrix)
               /\ {file[i].scenario : i \in DOMAIN file}
                    = {s.id : s \in Scenarios}
    <2>1. PICK input \in Seq(PastedRow) :
            /\ Len(input) = Len(Matrix)
            /\ file = [i \in 1 .. Len(input) |-> Published(k, input[i])]
            /\ \A i \in 1 .. Len(input) : Passed(input[i], k)
            /\ \A i, j \in 1 .. Len(input) :
                 input[i].scenario = input[j].scenario => i = j
      BY <1>1 DEF WrittenBy
    <2>. DEFINE n == Len(Matrix)
                T == {s.id : s \in Scenarios}
                f == [i \in 1 .. n |-> input[i].scenario]
                g == [i \in 1 .. n |-> Matrix[i].id]
    <2>2. n \in Nat /\ DOMAIN Matrix = 1 .. n
      BY LenProperties
    <2>3. g \in Surjection(1 .. n, T)
      BY <2>2 DEF Surjection, Scenarios
    <2>4. \A i \in 1 .. n : input[i].scenario \in T
      BY <2>1 DEF Passed, Known
    <2>5. f \in Injection(1 .. n, T)
      <3>1. f \in [1 .. n -> T]
        BY <2>4
      <3>2. \A i, j \in 1 .. n : f[i] = f[j] => i = j
        BY <2>1
      <3>. QED
        BY <3>1, <3>2 DEF Injection, IsInjective
    <2>6. \A t \in T : \E i \in 1 .. n : f[i] = t
      <3>. HIDE DEF f, g, T, n
      <3>. QED
        BY <2>2, <2>3, <2>5, Covering
    <2>7. /\ DOMAIN file = 1 .. n /\ Len(file) = n
          /\ \A i \in 1 .. n : file[i].scenario = f[i]
      BY <2>1, <2>2 DEF Published
    <2>8. {f[i] : i \in 1 .. n} = T
      BY <2>4, <2>6
    <2>. QED
      BY ZenonT(60), <2>7, <2>8
  <1>2. CollectorIInv => ResultsCoverTheMatrix
    BY <1>1 DEF CollectorIInv, ResultsOK, ResultsCoverTheMatrix
  <1>. QED
    BY <1>2, CollectorInvariant, PTL
-----------------------------------------------------------------------------
(* The two sides of a comparison.                                          *)

\* The rows that say the same of everything but their page.
SameBut(row, r) ==
  /\ r.scenario = row.scenario /\ r.dims = row.dims
  /\ r.fields = row.fields /\ r.finite = row.finite
  /\ r.named = row.named /\ r.label = row.label /\ r.batched = row.batched
  /\ r.scan = row.scan /\ r.mode = row.mode /\ r.checksum = row.checksum
  /\ r.visited = row.visited /\ r.sendVisited = row.sendVisited
  /\ r.index = row.index /\ r.finalIndex = row.finalIndex
  /\ r.expected = row.expected /\ r.logical = row.logical
  /\ r.updates = row.updates /\ r.generations = row.generations
  /\ r.perRepeat = row.perRepeat /\ r.events = row.events
  /\ r.laneTotal = row.laneTotal /\ r.lanesMatch = row.lanesMatch
  /\ r.rendered = row.rendered /\ r.window = row.window
  /\ r.dom = row.dom /\ r.delay = row.delay /\ r.lag = row.lag

LEMMA OtherPage ==
  ASSUME NEW row \in PastedRow, NEW k
  PROVE  /\ SameBut(row, [row EXCEPT !.page = k])
         /\ [row EXCEPT !.page = k].page = k
  BY DEF PastedRow, SameBut

\* The main-thread side requires no more fields than the worker side.
LEMMA PairFields ==
  /\ DOMAIN Pair = {"p5g_r0", "p5i_r0", "p5m_r0", "p5o_r0", "p5q_r0",
                    "p5s_r0", "p5u_r0", "p5x_r0"}
  /\ Pair["p5g_r0"] = "p5f_b2"
  /\ FieldsOf["p5f_b2"] \subseteq FieldsOf["p5g_r0"]
  /\ Pair["p5i_r0"] = "p5i_b2"
  /\ FieldsOf["p5i_b2"] \subseteq FieldsOf["p5i_r0"]
  /\ Pair["p5m_r0"] = "p5m_b2"
  /\ FieldsOf["p5m_b2"] \subseteq FieldsOf["p5m_r0"]
  /\ Pair["p5o_r0"] = "p5o_b2"
  /\ FieldsOf["p5o_b2"] \subseteq FieldsOf["p5o_r0"]
  /\ Pair["p5q_r0"] = "p5q_b2"
  /\ FieldsOf["p5q_b2"] \subseteq FieldsOf["p5q_r0"]
  /\ Pair["p5s_r0"] = "p5s_b2"
  /\ FieldsOf["p5s_b2"] \subseteq FieldsOf["p5s_r0"]
  /\ Pair["p5u_r0"] = "p5u_b2"
  /\ FieldsOf["p5u_b2"] \subseteq FieldsOf["p5u_r0"]
  /\ Pair["p5x_r0"] = "p5x_b2"
  /\ FieldsOf["p5x_b2"] \subseteq FieldsOf["p5x_r0"]
  BY DEF Pair, FieldsOf, Basic, Windowed

\* The checks of a row that are shared by the two sides.
LEMMA SharedChecks ==
  ASSUME NEW row, NEW r, SameBut(row, r), NEW s, NEW k, NEW j,
         FieldsOf[j] \subseteq FieldsOf[k]
  PROVE  /\ HasFields(row, k) => HasFields(r, j)
         /\ AllFinite(row, k) => AllFinite(r, j)
         /\ HasDims(row, s) => HasDims(r, s)
         /\ InWindow(row) => InWindow(r)
         /\ BoundedDom(row) => BoundedDom(r)
         /\ KeepsHistory(row) => KeepsHistory(r)
         /\ SmallDom(row, s) => SmallDom(r, s)
         /\ Streams(row, s) => Streams(r, s)
         /\ StaticContext(row, s, k) => StaticContext(r, s, j)
         /\ RollingContext(row, s, k) => RollingContext(r, s, j)
  <1>1. /\ HasFields(row, k) => HasFields(r, j)
        /\ AllFinite(row, k) => AllFinite(r, j)
    BY DEF SameBut, HasFields, AllFinite
  <1>2. /\ HasDims(row, s) => HasDims(r, s)
        /\ InWindow(row) => InWindow(r)
        /\ BoundedDom(row) => BoundedDom(r)
        /\ KeepsHistory(row) => KeepsHistory(r)
        /\ SmallDom(row, s) => SmallDom(r, s)
    BY DEF SameBut, HasDims, InWindow, BoundedDom, KeepsHistory, SmallDom
  <1>3. Streams(row, s) => Streams(r, s)
    BY Zenon DEF SameBut, Streams
  <1>4. Visits(row, s) => Visits(r, s)
    BY DEF SameBut, Visits
  <1>5. /\ Compact(row, k, "static") => Compact(r, j, "static")
        /\ Compact(row, k, "rolling") => Compact(r, j, "rolling")
    BY <1>1, Zenon DEF SameBut, Compact
  <1>6. StaticContext(row, s, k) => StaticContext(r, s, j)
    BY <1>4, <1>5 DEF StaticContext
  <1>7. RollingContext(row, s, k) => RollingContext(r, s, j)
    BY <1>4, <1>5 DEF SameBut, RollingContext
  <1>. QED
    BY <1>1, <1>2, <1>3, <1>6, <1>7

\* What the worker side takes, the main-thread side takes too.
LEMMA PairTakes ==
  ASSUME NEW k \in DOMAIN Pair, NEW row \in PastedRow, NEW s,
         Accepts(k, row, s)
  PROVE  Accepts(Pair[k], [row EXCEPT !.page = Pair[k]], s)
  <1>1. PICK r : r = [row EXCEPT !.page = Pair[k]]
    OBVIOUS
  <1>2. SameBut(row, r) /\ r.page = Pair[k]
    BY <1>1, OtherPage
  <1>3. CASE k = "p5g_r0"
    <2>1. G_R0(row, s)
      BY <1>3 DEF Accepts
    <2>2. FieldsOf["p5f_b2"] \subseteq FieldsOf["p5g_r0"] /\ r.page = "p5f_b2"
      BY <1>2, <1>3, PairFields
    <2>3. F_B2(r, s)
      BY <1>2, <2>1, <2>2, SharedChecks, Zenon
      DEF G_R0, F_B2, IsOf, SameBut
    <2>. QED
      BY <1>1, <1>3, <2>3, PairFields DEF Accepts
  <1>4. CASE k = "p5i_r0"
    <2>1. I_R0(row, s)
      BY <1>4 DEF Accepts
    <2>2. FieldsOf["p5i_b2"] \subseteq FieldsOf["p5i_r0"] /\ r.page = "p5i_b2"
      BY <1>2, <1>4, PairFields
    <2>3. I_B2(r, s)
      BY <1>2, <2>1, <2>2, SharedChecks, Zenon
      DEF I_R0, I_B2, IsOf, SameBut
    <2>. QED
      BY <1>1, <1>4, <2>3, PairFields DEF Accepts
  <1>5. CASE k = "p5m_r0"
    <2>1. M_R0(row, s)
      BY <1>5 DEF Accepts
    <2>2. FieldsOf["p5m_b2"] \subseteq FieldsOf["p5m_r0"] /\ r.page = "p5m_b2"
      BY <1>2, <1>5, PairFields
    <2>3. M_B2(r, s)
      BY <1>2, <2>1, <2>2, SharedChecks, Zenon
      DEF M_R0, M_B2, IsOf, SameBut
    <2>. QED
      BY <1>1, <1>5, <2>3, PairFields DEF Accepts
  <1>6. CASE k = "p5o_r0"
    <2>1. O_R0(row, s)
      BY <1>6 DEF Accepts
    <2>2. FieldsOf["p5o_b2"] \subseteq FieldsOf["p5o_r0"] /\ r.page = "p5o_b2"
      BY <1>2, <1>6, PairFields
    <2>3. O_B2(r, s)
      BY <1>2, <2>1, <2>2, SharedChecks, Zenon
      DEF O_R0, O_B2, IsOf, SameBut
    <2>. QED
      BY <1>1, <1>6, <2>3, PairFields DEF Accepts
  <1>7. CASE k = "p5q_r0"
    <2>1. Q_R0(row, s)
      BY <1>7 DEF Accepts
    <2>2. FieldsOf["p5q_b2"] \subseteq FieldsOf["p5q_r0"] /\ r.page = "p5q_b2"
      BY <1>2, <1>7, PairFields
    <2>3. Q_B2(r, s)
      BY <1>2, <2>1, <2>2, SharedChecks, Zenon
      DEF Q_R0, Q_B2, IsOf, SameBut
    <2>. QED
      BY <1>1, <1>7, <2>3, PairFields DEF Accepts
  <1>8. CASE k = "p5s_r0"
    <2>1. S_R0(row, s)
      BY <1>8 DEF Accepts
    <2>2. FieldsOf["p5s_b2"] \subseteq FieldsOf["p5s_r0"] /\ r.page = "p5s_b2"
      BY <1>2, <1>8, PairFields
    <2>3. S_B2(r, s)
      BY <1>2, <2>1, <2>2, SharedChecks, Zenon
      DEF S_R0, S_B2, IsOf, SameBut
    <2>. QED
      BY <1>1, <1>8, <2>3, PairFields DEF Accepts
  <1>9. CASE k = "p5u_r0"
    <2>1. U_R0(row, s)
      BY <1>9 DEF Accepts
    <2>2. FieldsOf["p5u_b2"] \subseteq FieldsOf["p5u_r0"] /\ r.page = "p5u_b2"
      BY <1>2, <1>9, PairFields
    <2>3. U_B2(r, s)
      BY <1>2, <2>1, <2>2, SharedChecks, Zenon
      DEF U_R0, U_B2, IsOf, SameBut
    <2>. QED
      BY <1>1, <1>9, <2>3, PairFields DEF Accepts
  <1>10. CASE k = "p5x_r0"
    <2>1. X_R0(row, s)
      BY <1>10 DEF Accepts
    <2>2. FieldsOf["p5x_b2"] \subseteq FieldsOf["p5x_r0"] /\ r.page = "p5x_b2"
      BY <1>2, <1>10, PairFields
    <2>3. X_B2(r, s)
      BY <1>2, <2>1, <2>2, SharedChecks, Zenon
      DEF X_R0, X_B2, IsOf, SameBut
    <2>. QED
      BY <1>1, <1>10, <2>3, PairFields DEF Accepts
  <1>. QED
    BY <1>3, <1>4, <1>5, <1>6, <1>7, <1>8, <1>9, <1>10, PairFields

\* The collectors that compare the label of a row.
LEMMA LabelChecked ==
  ASSUME NEW k \in LabelCheckers, NEW row, Passed(row, k)
  PROVE  row.page = k
  <1>1. k \in {"p5m_b2", "p5m_r0", "p5o_b2", "p5o_r0", "p5q_b2", "p5q_r0",
               "p5s_b2", "p5s_r0", "p5u_b2", "p5u_r0", "p5x_b2", "p5x_r0"}
    BY DEF LabelCheckers, Collectors, FieldsOf
  <1>2. PICK s : Accepts(k, row, s)
    BY DEF Passed
  <1>3. CASE k = "p5m_b2"
    <2>1. M_B2(row, s)
      BY <1>2, <1>3 DEF Accepts
    <2>. QED
      BY <1>3, <2>1 DEF M_B2, IsOf
  <1>4. CASE k = "p5m_r0"
    <2>1. M_R0(row, s)
      BY <1>2, <1>4 DEF Accepts
    <2>. QED
      BY <1>4, <2>1 DEF M_R0, IsOf
  <1>5. CASE k = "p5o_b2"
    <2>1. O_B2(row, s)
      BY <1>2, <1>5 DEF Accepts
    <2>. QED
      BY <1>5, <2>1 DEF O_B2, IsOf
  <1>6. CASE k = "p5o_r0"
    <2>1. O_R0(row, s)
      BY <1>2, <1>6 DEF Accepts
    <2>. QED
      BY <1>6, <2>1 DEF O_R0, IsOf
  <1>7. CASE k = "p5q_b2"
    <2>1. Q_B2(row, s)
      BY <1>2, <1>7 DEF Accepts
    <2>. QED
      BY <1>7, <2>1 DEF Q_B2, IsOf
  <1>8. CASE k = "p5q_r0"
    <2>1. Q_R0(row, s)
      BY <1>2, <1>8 DEF Accepts
    <2>. QED
      BY <1>8, <2>1 DEF Q_R0, IsOf
  <1>9. CASE k = "p5s_b2"
    <2>1. S_B2(row, s)
      BY <1>2, <1>9 DEF Accepts
    <2>. QED
      BY <1>9, <2>1 DEF S_B2, IsOf
  <1>10. CASE k = "p5s_r0"
    <2>1. S_R0(row, s)
      BY <1>2, <1>10 DEF Accepts
    <2>. QED
      BY <1>10, <2>1 DEF S_R0, IsOf
  <1>11. CASE k = "p5u_b2"
    <2>1. U_B2(row, s)
      BY <1>2, <1>11 DEF Accepts
    <2>. QED
      BY <1>11, <2>1 DEF U_B2, IsOf
  <1>12. CASE k = "p5u_r0"
    <2>1. U_R0(row, s)
      BY <1>2, <1>12 DEF Accepts
    <2>. QED
      BY <1>12, <2>1 DEF U_R0, IsOf
  <1>13. CASE k = "p5x_b2"
    <2>1. X_B2(row, s)
      BY <1>2, <1>13 DEF Accepts
    <2>. QED
      BY <1>13, <2>1 DEF X_B2, IsOf
  <1>14. CASE k = "p5x_r0"
    <2>1. X_R0(row, s)
      BY <1>2, <1>14 DEF Accepts
    <2>. QED
      BY <1>14, <2>1 DEF X_R0, IsOf
  <1>. QED
    BY <1>1, <1>3, <1>4, <1>5, <1>6, <1>7, <1>8, <1>9, <1>10,
       <1>11, <1>12, <1>13, <1>14

(***************************************************************************)
(* The two sides of a comparison compare like with like, for every matrix  *)
(* and whatever is pasted: results come from the page they are labelled    *)
(* with, and the main-thread side takes every row the worker side takes    *)
(* (validateScenarioDimensions and the validations after it).              *)
(***************************************************************************)
THEOREM ComparesAlike == CollectorSpec => []ComparedAlike
  <1>1. ASSUME NEW k \in Used \cap LabelCheckers, ResultsOK,
               NEW i \in DOMAIN results[k]
        PROVE  results[k][i].measured = results[k][i].variant
    <2>1. results[k] # <<>>
      BY <1>1
    <2>2. PICK input \in Seq(PastedRow) :
            /\ results[k] = [j \in 1 .. Len(input) |-> Published(k, input[j])]
            /\ \A j \in 1 .. Len(input) : Passed(input[j], k)
      BY <2>1, <1>1 DEF ResultsOK, WrittenBy
    <2>3. i \in 1 .. Len(input) /\ results[k][i] = Published(k, input[i])
      BY <1>1, <2>2
    <2>. QED
      BY <2>2, <2>3, LabelChecked DEF Published
  <1>2. ASSUME ValidatedOK, running \in DOMAIN Pair, at \in DOMAIN rows,
               RowPasses(running, rows[at])
        PROVE  RowPasses(Pair[running],
                         [rows[at] EXCEPT !.page = Pair[running]])
    <2>1. rows[at] \in PastedRow
      BY <1>2, PairFields, LenProperties, ElementOfSeq DEF ValidatedOK, None
    <2>2. PICK r : r = [rows[at] EXCEPT !.page = Pair[running]]
      OBVIOUS
    <2>3. SameBut(rows[at], r)
      BY <2>1, <2>2, OtherPage
    <2>4. FieldsOf[Pair[running]] \subseteq FieldsOf[running]
      BY <1>2, PairFields
    <2>5. HasFields(r, Pair[running])
      BY <1>2, <2>3, <2>4, SharedChecks DEF RowPasses
    <2>6. Accepts(Pair[running], r, ExpectedById(r.scenario))
      BY <1>2, <2>1, <2>2, <2>3, PairTakes DEF RowPasses, SameBut
    <2>. QED
      BY <1>2, <2>2, <2>3, <2>5, <2>6 DEF RowPasses, SameBut
  <1>3. CollectorIInv => ComparedAlike
    BY <1>1, <1>2 DEF CollectorIInv, ComparedAlike
  <1>. QED
    BY <1>3, CollectorInvariant, PTL
=============================================================================
