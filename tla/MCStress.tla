------------------------------ MODULE MCStress ------------------------------
(***************************************************************************)
(* The stress measurements in two parts with a state each: a behaviour is  *)
(* one of                                                                  *)
(*   "page": one page load with up to three clicks after the first         *)
(*     request, of a scenario whose phases cut across the turn of the      *)
(*     lanes, so that the merge changes the order of the events, and whose *)
(*     transcript outgrows the rendered window;                            *)
(*   "collector": up to two runs of the collectors over a matrix of two    *)
(*     scenarios, for each collector with every pair of rows among sound   *)
(*     rows of its own page, of the page it is compared with, and rows     *)
(*     wrong in one metric.                                                *)
(***************************************************************************)
EXTENDS StressCollector, StressPage

VARIABLE part

MCScenario == [id |-> "s1", visible |-> 3, context |-> 3, batch |-> 7,
               repeats |-> 2, rich |-> 1, artifactPercent |-> 0]

MCMatrix == << [id |-> "s1", visible |-> 3, context |-> 2, batch |-> 4,
                repeats |-> 2, rich |-> 1, artifactPercent |-> 50],
               [id |-> "s2", visible |-> 4, context |-> 4, batch |-> 2,
                repeats |-> 3, rich |-> 2, artifactPercent |-> 0] >>

AllCollectors == Collectors

Rolling == {"p5q_b2", "p5q_r0", "p5s_b2", "p5s_r0", "p5u_b2", "p5u_r0",
            "p5x_b2", "p5x_r0"}
Worker == DOMAIN Pair

\* The row the page of k reports after one send of scenario s.
Sound(k, s) ==
  [scenario |-> s.id, page |-> k, dims |-> DimsOf(s), fields |-> FieldsOf[k],
   finite |-> FieldsOf[k], named |-> TRUE, label |-> k \in Worker,
   batched |-> k \in Worker, scan |-> "compact_checksum_index",
   mode |-> IF k \in Rolling THEN "rolling" ELSE "static",
   checksum |-> "numeric_precomputed_weight",
   visited |-> s.context * s.repeats, sendVisited |-> s.context * s.repeats,
   index |-> s.context, finalIndex |-> s.context,
   expected |-> FinalCount(s), logical |-> FinalCount(s),
   updates |-> s.repeats, generations |-> s.repeats + 1,
   perRepeat |-> s.batch, events |-> s.batch * s.repeats,
   laneTotal |-> s.batch * s.repeats, lanesMatch |-> TRUE,
   rendered |-> VisibleWindow, window |-> VisibleWindow, dom |-> 3,
   delay |-> 0, lag |-> 0]

\* The same row wrong in one metric.
Wrong(row) ==
  {[row EXCEPT !.scenario = "s3"], [row EXCEPT !.dims.repeats = @ + 1],
   [row EXCEPT !.fields = {}], [row EXCEPT !.finite = {}],
   [row EXCEPT !.named = FALSE], [row EXCEPT !.label = FALSE],
   [row EXCEPT !.batched = FALSE], [row EXCEPT !.scan = "full"],
   [row EXCEPT !.mode = IF @ = "static" THEN "rolling" ELSE "static"],
   [row EXCEPT !.checksum = "none"], [row EXCEPT !.visited = 0],
   [row EXCEPT !.sendVisited = 2 * @], [row EXCEPT !.index = @ + 1],
   [row EXCEPT !.finalIndex = @ + 1], [row EXCEPT !.expected = @ + 1],
   [row EXCEPT !.logical = 0], [row EXCEPT !.logical = @ + 1],
   [row EXCEPT !.updates = 2 * @], [row EXCEPT !.generations = 1],
   [row EXCEPT !.perRepeat = 0], [row EXCEPT !.events = 0],
   [row EXCEPT !.laneTotal = @ + 1], [row EXCEPT !.lanesMatch = FALSE],
   [row EXCEPT !.rendered = VisibleWindow + 1],
   [row EXCEPT !.dom = DomLimit + 1], [row EXCEPT !.delay = -1],
   [row EXCEPT !.lag = -1]}

Compared(k) == {j \in DOMAIN Pair : Pair[j] = k} \cup
               {Pair[j] : j \in DOMAIN Pair \cap {k}}

Candidates(k) ==
  {Sound(j, s) : j \in Compared(k) \cup {k}, s \in Scenarios}
    \cup Wrong(Sound(k, Matrix[1]))

MCInputs(k) ==
  LET one == Sound(k, Matrix[1])  two == Sound(k, Matrix[2])
  IN {<<one>>, <<one, two, one>>} \cup
     {<<one, r>> : r \in Candidates(k)} \cup
     {<<r, two>> : r \in Candidates(k)} \cup
     {<<Sound(j, Matrix[2]), Sound(j, Matrix[1])>> : j \in Compared(k)}
-----------------------------------------------------------------------------
PartInit == part \in {"page", "collector"} /\ PageInit /\ CollectorInit

InPage == part = "page" /\ UNCHANGED <<part, collectorVars>>
InCollector == part = "collector" /\ UNCHANGED <<part, stressVars>>

PartNext ==
  \/ InPage /\ ClickTyping
  \/ InPage /\ ClickProduct
  \/ InPage /\ ClickConcurrent
  \/ InPage /\ HandleRequest
  \/ InPage /\ Deliver
  \/ InPage /\ Copy
  \/ \E id \in inputTasks : InPage /\ InputTask(id)
  \/ \E k \in Used : InCollector /\ Start(k)
  \/ InCollector /\ RefuseCount
  \/ InCollector /\ CountRows
  \/ InCollector /\ AcceptRow
  \/ InCollector /\ RefuseRow
  \/ InCollector /\ Finish

PartSpec == PartInit /\ [][PartNext]_<<part, stressVars, collectorVars>>
=============================================================================
