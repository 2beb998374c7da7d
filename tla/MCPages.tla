------------------------------- MODULE MCPages -------------------------------
(***************************************************************************)
(* The two experiment pages with a life of their own: a behaviour is one   *)
(* of                                                                      *)
(*   "scheduler": the worker scheduler page, five units of work in chunks  *)
(*     of two, so that an urgent request can come before, between and      *)
(*     after the chunks, in both modes, with three runs driven as the      *)
(*     measurements drive it or up to three that may overlap, on a page    *)
(*     that may not be ready;                                              *)
(*   "markdown": the streaming Markdown demo on texts of five pieces, or   *)
(*     six of what tables are made of, cut in every way.                   *)
(***************************************************************************)
EXTENDS WorkerScheduler, MarkdownStability

VARIABLE part

BothModes == {"scheduled", "monolithic"}

MCDrivers == { [overlaps |-> FALSE, waits |-> TRUE],
               [overlaps |-> TRUE, waits |-> FALSE] }

\* The classes a text may have: all, and those a table is made of.
MCLineKinds ==
  {"blank", "mark", "word", "opener", "fence", "lang", "math", "heading",
   "bar", "row", "half", "sep", "item"}
MCTableKinds == {"blank", "word", "row", "sep"}

NoRuns ==
  mode = "scheduled" /\ driver = [overlaps |-> FALSE, waits |-> TRUE]

PartInit ==
  /\ part \in {"scheduler", "markdown"}
  /\ SchedulerInit /\ (part = "markdown" => NoRuns)
  /\ MarkdownInit

InScheduler == part = "scheduler" /\ UNCHANGED <<part, mdVars>>
InMarkdown == part = "markdown" /\ UNCHANGED <<part, schedulerVars>>

\* Bound: two runs when they may overlap, and three in the scheduled mode of
\* a page that is ready and whose workers have not begun: they are enough for
\* a request to be left in a queue.
NoneHasBegun ==
  mode = "scheduled" /\ mounted /\ \A w \in 1 .. runs : workers[w].chunks = 0
FewOverlaps == driver.overlaps => runs < 2 \/ NoneHasBegun

\* Bound: with three of them, each result is rendered before the next comes.
OneByOne == driver.overlaps /\ runs > 2 => pending = <<>>

\* Bound: texts of more than five pieces are of table lines.
OnlyTablesAreLong ==
  pieces >= 5 => \A i \in DOMAIN lines' : lines'[i].kind \in MCTableKinds

PartNext ==
  \/ InScheduler /\ Mount
  \/ InScheduler /\ FewOverlaps /\ CaptureStart
  \/ InScheduler /\ DispatchUrgentRequest
  \/ InScheduler /\ RenderRows
  \/ \E w \in 1 .. runs :
       \/ InScheduler /\ HandleMessage(w)
       \/ InScheduler /\ YieldReturns(w)
       \/ InScheduler /\ OneByOne /\ HandleWorkerMessage(w)
  \/ InMarkdown /\ Arrive /\ OnlyTablesAreLong
  \/ InMarkdown /\ ApplyChunk
  \/ InMarkdown /\ SkipBlank
  \/ InMarkdown /\ TakeCode
  \/ InMarkdown /\ TakeMath
  \/ InMarkdown /\ TakeHeading
  \/ InMarkdown /\ TakeTable
  \/ InMarkdown /\ TakeList
  \/ InMarkdown /\ TakeParagraph
  \/ InMarkdown /\ ExhaustHeap
  \/ InMarkdown /\ Render

partVars == <<part, schedulerVars, mdVars>>

\* Workers run, and the event loop of the page serves its timers, messages
\* and renders.  No capture need come, and no text.
Fairness ==
  /\ \A w \in 1 .. MaxRuns :
       /\ WF_partVars(InScheduler /\ w \in DOMAIN workers /\ HandleMessage(w))
       /\ WF_partVars(InScheduler /\ w \in DOMAIN workers /\ YieldReturns(w))
       /\ WF_partVars(InScheduler /\ w \in DOMAIN outbox
                                  /\ HandleWorkerMessage(w))
  /\ WF_partVars(InScheduler /\ DispatchUrgentRequest)
  /\ WF_partVars(InScheduler /\ RenderRows)
  /\ WF_partVars(InScheduler /\ Mount)

PartSpec == PartInit /\ [][PartNext]_partVars /\ Fairness
=============================================================================
