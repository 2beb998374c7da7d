------------------------------ MODULE MCSession ------------------------------
(***************************************************************************)
(* The engine on the instance of MCCoreEngine, in four parts of one run:   *)
(*   "engine": every message of that instance, in any order;               *)
(*   "traced": a message for every way a message can go, with the traces   *)
(*     and metrics;                                                        *)
(*   "worker": the worker around the engine, posted any messages;          *)
(*   "scenario": the worker driven by a scenario, whose steps it accepts   *)
(*     and refuses, with a projection of the new context, a stale one, a   *)
(*     cyclic one and none, and with the session version told or not.      *)
(***************************************************************************)
EXTENDS DecisionTrace, SessionScenario, MCCoreEngine

VARIABLE part
-----------------------------------------------------------------------------
(* "traced" and "engine"                                                   *)

MCTracedInput ==
  { Sent(e1, o1, Chunk1), Sent(e2, o2, Chunk2), Sent(e4, o4, Message(0)),
    Sent(e6, o6, Chunk1), Sent(e7, o1, Chunk1), Sent(e7, o6, Message(1)),
    Sent(e8, o6, Cancel),
    [Sent(e7, o6, Cancel) EXCEPT !.options = "visible-range"],
    [Sent(e8, o2, Chunk2) EXCEPT !.op_error = "InvalidChecksum"],
    [Sent(e8, o2, Chunk2) EXCEPT !.op_parent_action_id = pa2] }

\* Bound: the active lanes in "engine" and "worker": none, the highest, and
\* one in the middle, which is preempted, kept or matched.
ActiveLane == {NoLane, "urgent-input", "stream-update"}
-----------------------------------------------------------------------------
(* "worker"                                                                *)

\* Two chunks, the first under a new message id, a session message sent
\* twice, a version that disagrees, an operation without a transaction, and
\* a broken envelope.
MCWorkerInput ==
  { Sent(e1, o1, Chunk1), Sent(e2, o2, Chunk2), Sent(e3, o1, Chunk1),
    Sent(e4, o4, Message(1)), Sent(e5, o5, Message(1)),
    [Sent(e3, o2, Chunk2) EXCEPT !.session_version = 0],
    Sent(e3, o3, Cancel),
    [Sent(e1, o1, Chunk1) EXCEPT !.envelope_error = "InvalidChecksum"] }

\* What may arrive in some part.
MCAnyInput == MCInput \cup MCWorkerInput

MCPosted ==
  [input : MCWorkerInput, payload_serializable : {TRUE}]
    \cup { [input |-> Sent(e1, o1, Chunk1), payload_serializable |-> FALSE] }
-----------------------------------------------------------------------------
(* "scenario"                                                              *)

MCFreshProjection ==
  [form |-> "ok", transferable |-> TRUE, session_version |-> 0,
   result_version |-> 0, stale_status |-> "fresh", blocks |-> <<b1>>,
   range |-> {b1}, bytes |-> 1, checksum |-> TRUE]

MCStaleProjection == [MCFreshProjection EXCEPT !.stale_status = "stale"]
MCCyclicProjection == [MCFreshProjection EXCEPT !.transferable = FALSE]

RoundTrip(in, factory, version) ==
  [message |-> [input |-> in, payload_serializable |-> TRUE],
   snapshot |-> CHOOSE s \in MCSnapshot : s.pending_transactions = 0,
   active |-> NoLane, projection |-> NoProjection,
   factory |-> factory, main_version |-> version]

MCScenarioStep ==
  { RoundTrip(Sent(e1, o1, Chunk1), f, NoVersion) :
      f \in {MCStaleProjection, FreshFactory} }
  \cup { RoundTrip(Sent(e2, o2, Chunk2), f, v) :
      f \in {MCCyclicProjection, FreshFactory, NoFactory},
      v \in {NoVersion, 1} }
  \cup { RoundTrip(Sent(e4, o4, Message(1)), FreshFactory, NoVersion),
         [RoundTrip(Sent(e1, o1, Chunk1), FreshFactory, NoVersion)
            EXCEPT !.message.payload_serializable = FALSE] }
-----------------------------------------------------------------------------
PartInit ==
  /\ part \in {"engine", "traced", "worker", "scenario"}
  /\ TraceInit /\ ScenarioInit
  /\ part # "scenario" => ~stop_on_reject

tracing == <<trace, metrics, given>>
working == <<counters, last_decision>>
driving == <<stop_on_reject, step_results, done>>

InEngine == part = "engine" /\ UNCHANGED <<part, tracing, working, driving>>
InTraced == part = "traced" /\ UNCHANGED <<part, working, driving>>
InWorker == part = "worker" /\ UNCHANGED <<part, tracing, driving>>
InScenario == part = "scenario" /\ UNCHANGED <<part, tracing>>

PartNext ==
  \/ \E in \in MCInput, snapshot \in Snapshot, active \in ActiveLane,
        projection \in Projection \cup {NoProjection} :
       \/ InEngine /\ Accept(in, snapshot, active, projection)
       \/ InEngine /\ Reject(in, snapshot, active, projection)
  \/ InTraced /\ TraceNext
  \/ \E m \in Posted : InWorker /\ RejectBeforeCore(m)
  \/ \E m \in Posted, snapshot \in Snapshot, active \in ActiveLane,
        projection \in Projection \cup {NoProjection} :
       InWorker /\ ProcessMessage(m, snapshot, active, projection)
  \/ \E s \in ScenarioStep : InScenario /\ RunStep(s)

PartSpec ==
  PartInit /\ [][PartNext]_<<part, traceVars, working, driving>>
=============================================================================
