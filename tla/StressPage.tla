----------------------------- MODULE StressPage -----------------------------
(***************************************************************************)
(* The product-trace-shaped stress page                                    *)
(* (p5x_r0c_product_trace_shaped_stress.html): a worker that keeps the     *)
(* transcript and the active context, a main thread that keeps one record  *)
(* of metrics for whatever interactions its buttons started, and the       *)
(* person who copies the published summary into a row for the result       *)
(* collector (StressRows!X_R0).                                            *)
(*                                                                         *)
(* A block is named by the send run that appended it (0 for the seed) and  *)
(* its number; texts, checksums and times are left out.  An input delay is *)
(* kept as the pair of the interaction whose scheduling mark it counts     *)
(* from (0 for a mark reset to zero) and the one whose input task ended    *)
(* it.                                                                     *)
(***************************************************************************)
EXTENDS StressRows, Sequences, FiniteSets, SequencesExt

CONSTANTS Scenario,    \* the scenario of the page's query
          PhaseCount,  \* trace phases (5 in the page)
          LaneCount,   \* trace lanes (6 in the page)
          MaxClicks    \* bound: button clicks on one page load

ASSUME PageAssumption == /\ PhaseCount \in Nat \ {0}
                         /\ LaneCount \in Nat \ {0}
                         /\ MaxClicks \in Nat
                         /\ Scenario.visible \in Nat
                         /\ Scenario.context \in 1..Scenario.visible
                         /\ Scenario.batch \in Nat \ {0}
                         /\ Scenario.repeats \in Nat \ {0}

VARIABLES worker,     \* the worker's transcript, context and counters
          requests,   \* messages to the worker, in order
          responses,  \* messages from the worker, in order
          pendingRequests,  \* ids without an answer yet
          inputTasks,  \* input tasks not yet run
          waiting,    \* committed responses whose input task has not run
          metrics,    \* the page's one record of metrics
          surface,    \* the projection last committed to the DOM
          summary,    \* the metrics last published
          copied,     \* the rows copied by hand
          clicks,     \* request ids given out
          overlapped  \* a send was started while another was under way
stressVars ==
  <<worker, requests, responses, pendingRequests, inputTasks, waiting,
    metrics, surface, summary, copied, clicks, overlapped>>

Batch == Scenario.batch
-----------------------------------------------------------------------------
(* The worker.                                                              *)

PerPhase == (Batch + PhaseCount - 1) \div PhaseCount

PhaseOf(i) == LET p == (i - 1) \div PerPhase + 1
              IN IF p > PhaseCount THEN PhaseCount ELSE p
LaneOf(i) == ((i - 1) % LaneCount) + 1

\* The lane the merge looks at on visit c of a phase.
Visited(c) == ((c - 1) % LaneCount) + 1

\* What is left of a lane's queue when the merge visits it, and the visit:
\* it takes the first event left.
Left(merged, p, c) ==
  {i \in 1..Batch : PhaseOf(i) = p /\ LaneOf(i) = Visited(c)} \ Range(merged)
Visit(merged, p, c) ==
  IF Left(merged, p, c) = {} THEN merged
  ELSE Append(merged, CHOOSE i \in Left(merged, p, c) :
                        \A j \in Left(merged, p, c) : i <= j)

\* The events of phase p behind those merged before it.
MergePhase(merged, p) ==
  LET after[c \in 0..(Batch * LaneCount)] ==
        IF c = 0 THEN merged ELSE Visit(after[c - 1], p, c)
  IN after[Batch * LaneCount]

Merged == LET upTo[p \in 0..PhaseCount] ==
                IF p = 0 THEN <<>> ELSE MergePhase(upTo[p - 1], p)
          IN upTo[PhaseCount]

\* The number of the send run about to be made.
\* Seeded fault: the run number starts again with each request.
RunNumber_request(v) == (v.runs % Scenario.repeats) + 1

RunNumber(v) == v.runs + 1

TraceBlocks(run) ==
  [n \in 1..Len(Merged) |->
    [run |-> run, event |-> Merged[n],
     ordinal |-> Scenario.visible + (run - 1) * Batch + n]]

Context(blocks) ==
  SubSeq(blocks, Len(blocks) - Scenario.context + 1, Len(blocks))

InitialWorker ==
  LET seed == [n \in 1..Scenario.visible |->
                [run |-> 0, event |-> n, ordinal |-> n]]
  IN [blocks |-> seed, index |-> Context(seed), runs |-> 0, updates |-> 0,
      generations |-> 1]

\* One repeat: the context is visited, the batch merged and appended, the
\* context rebuilt as the last blocks.
SendRun(v) ==
  LET blocks == v.blocks \o TraceBlocks(RunNumber(v))
  IN [blocks |-> blocks, index |-> Context(blocks), runs |-> v.runs + 1,
      updates |-> v.updates + 1, generations |-> v.generations + 1]

After(v) == LET f[n \in 0..Scenario.repeats] ==
                  IF n = 0 THEN v ELSE SendRun(f[n - 1])
            IN f

Tail300(blocks) ==
  LET from == IF Len(blocks) > VisibleWindow THEN Len(blocks) - VisibleWindow
              ELSE 0
  IN SubSeq(blocks, from + 1, Len(blocks))

\* What a response reports of the worker v and of the work of the request.
Response(request, v, visited, events) ==
  [id |-> request.id, kind |-> request.kind, projection |-> Tail300(v.blocks),
   visited |-> visited, events |-> events, logical |-> Len(v.blocks),
   index |-> Len(v.index), updates |-> v.updates,
   generations |-> v.generations]

Sends == {"product", "concurrent"}

Reply(r) == responses' = Append(responses, r)

HandleRequest ==
  /\ requests # <<>>
  /\ LET request == Head(requests)
         f == After(worker)
         visits == [n \in 1..Scenario.repeats |-> Len(f[n - 1].index)]
     IN CASE request.kind = "init" ->
               /\ worker' = InitialWorker
               /\ Reply(Response(request, InitialWorker, 0, 0))
          [] request.kind = "typing" ->
               /\ UNCHANGED worker
               /\ Reply(Response(request, worker, 0, 0))
          [] request.kind \in Sends ->
               /\ worker' = f[Scenario.repeats]
               /\ Reply(Response(request, worker',
                                 FoldLeft(LAMBDA a, b : a + b, 0, visits),
                                 Len(worker'.blocks) - Len(worker.blocks)))
  /\ requests' = Tail(requests)
  /\ UNCHANGED <<pendingRequests, inputTasks, waiting, metrics, surface,
                 summary, copied, clicks, overlapped>>
-----------------------------------------------------------------------------
(* The main thread.                                                         *)

NoDelay == <<0, 0>>

InitialMetrics ==
  [events |-> 0, visited |-> 0, logical |-> Scenario.visible,
   index |-> Scenario.context,
   updates |-> 0, generations |-> 1, rendered |-> 0, work |-> 0,
   scheduled |-> 0, delay |-> NoDelay]

\* What resetInteractionMetrics clears: logical and rendered counts stay.
Reset(m) == [m EXCEPT !.events = 0, !.visited = 0, !.updates = 0,
                      !.generations = 1, !.work = 0, !.scheduled = 0,
                      !.delay = NoDelay]

Apply(m, r) == [m EXCEPT !.events = r.events, !.visited = r.visited,
                         !.logical = r.logical, !.index = r.index,
                         !.updates = r.updates,
                         !.generations = r.generations,
                         !.rendered = Len(r.projection),
                         !.work = IF r.kind = "init" THEN 0 ELSE r.id]

Post(kind) == /\ clicks' = clicks + 1
              /\ requests' = Append(requests,
                                    [id |-> clicks + 1, kind |-> kind])
              /\ pendingRequests' = pendingRequests \cup {clicks + 1}

SendUnderWay == \/ inputTasks # {} \/ waiting # {}
                \/ \E i \in DOMAIN requests : requests[i].kind \in Sends
                \/ \E i \in DOMAIN responses : responses[i].kind \in Sends

ClickTyping == /\ clicks < MaxClicks + 1
               /\ Post("typing")
               /\ UNCHANGED <<worker, responses, inputTasks, waiting, metrics,
                              surface, summary, copied, overlapped>>

ClickProduct == /\ clicks < MaxClicks + 1
                /\ metrics' = Reset(metrics)
                /\ Post("product")
                /\ overlapped' = (overlapped \/ SendUnderWay)
                /\ UNCHANGED <<worker, responses, inputTasks, waiting, surface,
                               summary, copied>>

Marked(id) == [Reset(metrics) EXCEPT !.scheduled = id]

ClickConcurrent == /\ clicks < MaxClicks + 1
                   /\ metrics' = Marked(clicks + 1)
                   /\ Post("concurrent")
                   /\ inputTasks' = inputTasks \cup {clicks + 1}
                   /\ overlapped' = (overlapped \/ SendUnderWay)
                   /\ UNCHANGED <<worker, responses, waiting, surface,
                                  summary, copied>>

Settle(r) == pendingRequests' = pendingRequests \ {r.id}

\* A response resolves its pending request; the interaction that awaits it
\* goes on in the same task, except that a concurrent one also awaits its
\* input task before it applies the metrics.
Deliver ==
  /\ responses # <<>>
  /\ LET r == Head(responses)
     IN /\ Settle(r)
        /\ CASE r.kind = "typing" ->
                  /\ summary' = metrics
                  /\ UNCHANGED <<surface, metrics, waiting>>
             [] r.kind = "concurrent" /\ r.id \in inputTasks ->
                  /\ surface' = r.projection
                  /\ metrics' = [metrics EXCEPT !.rendered = Len(surface')]
                  /\ waiting' = waiting \cup {r}
                  /\ UNCHANGED summary
             [] OTHER ->
                  /\ surface' = r.projection
                  /\ metrics' = Apply(metrics, r)
                  /\ summary' = metrics'
                  /\ UNCHANGED waiting
  /\ responses' = Tail(responses)
  /\ UNCHANGED <<worker, requests, inputTasks, copied, clicks, overlapped>>

InputTask(id) ==
  /\ id \in inputTasks
  /\ inputTasks' = inputTasks \ {id}
  /\ LET timed == [metrics EXCEPT !.delay = <<metrics.scheduled, id>>]
         mine == {r \in waiting : r.id = id}
     IN IF mine = {}
        THEN /\ metrics' = timed
             /\ UNCHANGED <<summary, waiting>>
        ELSE \E r \in mine : /\ metrics' = Apply(timed, r)
                             /\ summary' = metrics'
                             /\ waiting' = waiting \ {r}
  /\ UNCHANGED <<worker, requests, responses, pendingRequests, surface,
                 copied, clicks, overlapped>>

Copy == /\ summary # InitialMetrics
        /\ summary \notin copied
        /\ copied' = copied \cup {summary}
        /\ UNCHANGED <<worker, requests, responses, pendingRequests,
                       inputTasks, waiting, metrics, surface, summary,
                       clicks, overlapped>>

PageInit == /\ worker = [blocks |-> <<>>, index |-> <<>>, runs |-> 0,
                         updates |-> 0, generations |-> 0]
            /\ requests = << [id |-> 1, kind |-> "init"] >>
            /\ responses = <<>> /\ pendingRequests = {1} /\ clicks = 1
            /\ inputTasks = {} /\ waiting = {}
            /\ metrics = InitialMetrics /\ summary = InitialMetrics
            /\ surface = <<>> /\ copied = {} /\ overlapped = FALSE

PageNext == \/ ClickTyping \/ ClickProduct \/ ClickConcurrent
            \/ HandleRequest \/ Deliver \/ Copy
            \/ \E id \in inputTasks : InputTask(id)

PageSpec == PageInit /\ [][PageNext]_stressVars
-----------------------------------------------------------------------------
(* Properties.                                                              *)

\* Every block has its own name, and its ordinal is its place.
OrdinalsArePlaces(b) ==
  \A i \in DOMAIN b :
    /\ b[i].ordinal = i
    /\ \A j \in DOMAIN b :
         i # j => <<b[i].run, b[i].event>> # <<b[j].run, b[j].event>>

\* In every prefix of a phase, a lane that still has events is at most one
\* turn behind any other lane, no lane's events change their order, and the
\* phases follow each other.
LanesTakeTurns(batch) ==
  \A n \in DOMAIN batch :
    LET p == PhaseOf(batch[n])
        taken(l) == Cardinality({i \in 1..n : /\ PhaseOf(batch[i]) = p
                                              /\ LaneOf(batch[i]) = l})
        all(l) == Cardinality({i \in 1..Batch : /\ PhaseOf(i) = p
                                                /\ LaneOf(i) = l})
    IN /\ \A k, l \in 1..LaneCount :
            taken(l) < all(l) => taken(k) <= taken(l) + 1
       /\ \A i \in 1..(n - 1) :
            /\ PhaseOf(batch[i]) <= p
            /\ LaneOf(batch[i]) = LaneOf(batch[n]) => batch[i] < batch[n]

LastBatch(b) == [n \in 1..Batch |-> b[Len(b) - Batch + n].event]

(***************************************************************************)
(* However many sends the page has run, the transcript is sound: the run   *)
(* number is the worker's, not the request's, so that no block takes the   *)
(* name or the place of another (logicalBlockById holds one per name); the *)
(* merge of a batch takes turns among the lanes (mergeTraceEvents, lines   *)
(* 585-617); and between any two requests the active context is the end of *)
(* the transcript (updateActiveContextIndex, lines 504-519).               *)
(***************************************************************************)
TranscriptIsSound ==
  /\ OrdinalsArePlaces(worker.blocks)
  /\ worker.runs > 0 => LanesTakeTurns(LastBatch(worker.blocks))
  /\ worker.blocks # <<>> =>
       /\ Len(worker.index) = Scenario.context
       /\ IsSuffix(worker.index, worker.blocks)

Row(m) ==
  [scenario |-> Scenario.id, page |-> "p5x_r0", dims |-> DimsOf(Scenario),
   fields |-> FieldsOf["p5x_r0"], finite |-> FieldsOf["p5x_r0"],
   named |-> TRUE, scan |-> "compact_checksum_index", mode |-> "rolling",
   checksum |-> "numeric_precomputed_weight", visited |-> m.visited,
   sendVisited |-> m.visited, index |-> m.index, finalIndex |-> m.index,
   expected |-> FinalCount(Scenario), logical |-> m.logical,
   updates |-> m.updates, generations |-> m.generations,
   perRepeat |-> Batch, events |-> m.events, laneTotal |-> m.events,
   lanesMatch |-> TRUE, rendered |-> m.rendered, window |-> VisibleWindow,
   dom |-> 0, delay |-> 0, lag |-> 0]

Accepted == {m \in copied : X_R0(Row(m), Scenario)}

(***************************************************************************)
(* What the collector takes of a page load is one send.  A later send      *)
(* works on a longer transcript, and counters that go on from the earlier  *)
(* one give it away (validateDynamicContextMetrics, lines 355-360 of the   *)
(* collector).  On a page on which no two sends overlapped, the input      *)
(* delay of the row is absent (the send had no input task) or counts from  *)
(* that send's own mark (runConcurrentInputDuringProductTraceProxy,        *)
(* 808-839).                                                               *)
(***************************************************************************)
AcceptedIsOneSend ==
  \A m, n \in Accepted :
    /\ m.work # 0 /\ m.work = n.work
    /\ ~overlapped => m.delay \in {NoDelay, <<m.work, m.work>>}
=============================================================================
