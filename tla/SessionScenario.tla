--------------------------- MODULE SessionScenario ---------------------------
(***************************************************************************)
(* The worker and the main thread put together                             *)
(* (in-memory-roundtrip.ts, in-memory-session-scenario.ts).  One step of a *)
(* scenario is a round trip: the worker handles a message; if it accepts,  *)
(* a projection is made of its new context and the main thread decides     *)
(* whether to show it.                                                     *)
(*                                                                         *)
(* Two things can go apart.  The worker keeps what it accepted when the    *)
(* main thread refuses the projection.  And the main thread judges by a    *)
(* session version of its own, the one of the step or, when the step names *)
(* none, one that stays the same through the whole scenario.               *)
(*                                                                         *)
(* A step's factory is a projection it always returns, FreshFactory for    *)
(* one made of the new context, or NoFactory.                              *)
(***************************************************************************)
EXTENDS WorkerAdapter

CONSTANTS
  ScenarioStep,     \* the steps a scenario may be made of
  FreshProjection,  \* what FreshFactory makes, but for its session version
  MainBounds,       \* projection_bounds
  MainVersion,      \* current_session_version of the scenario
  MaxSteps,         \* bound: the steps of a scenario
  FreshFactory, NoFactory, NoVersion

\* What a step gives the worker is what may be posted to it at some time.
ASSUME ScenarioAssumption ==
  \A s \in ScenarioStep :
    /\ s.message \in Posted /\ s.snapshot \in Snapshot
    /\ s.active \in Lane \cup {NoLane}
    /\ s.projection \in Projection \cup {NoProjection}

VARIABLES
  stop_on_reject,  \* the option of the scenario
  step_results,
  done

scenarioVars == <<workerVars, stop_on_reject, step_results, done>>

Main == INSTANCE MainProjection WITH
  Projection <- {FreshProjection}, BoundsChoice <- {MainBounds},
  MaxSessionVersion <- MaxVersion, Nothing <- NoDecision,
  current_session_version <- MainVersion, shown <- NoDecision,
  decision <- NoDecision
-----------------------------------------------------------------------------
VersionOf(s) == IF s.main_version = NoVersion THEN MainVersion
                ELSE s.main_version

Made(s) ==
  IF s.factory = FreshFactory
    THEN [FreshProjection EXCEPT !.session_version = session_version']
    ELSE s.factory

WorkerAccepted == last_decision'.error = "none"

\* The answer of the main thread, or "absent".
MainAnswer(s) ==
  IF ~WorkerAccepted \/ s.factory = NoFactory THEN "absent"
  ELSE Main!MainError(Made(s), VersionOf(s), MainBounds)

StepResult(s) ==
  [step |-> s, worker |-> last_decision'.error, main |-> MainAnswer(s),
   worker_version |-> session_version']

Rejected(result) ==
  result.worker # "none" \/ result.main \notin {"absent", "none"}

Worker(s) ==
  \/ RejectBeforeCore(s.message)
  \/ ProcessMessage(s.message, s.snapshot, s.active, s.projection)

\* Seeded fault: the engine's context is taken back when the main thread
\* refuses the projection.
RunStep_takesBack(s) ==
  /\ ~done /\ Len(step_results) < MaxSteps
  /\ IF /\ EnvelopeError(s.message) = "none"
        /\ AllPass(Checks(s.message.input, s.snapshot, s.active, s.projection))
        /\ s.factory \notin {FreshFactory, NoFactory}
        /\ Main!MainError(s.factory, MainVersion, MainBounds) # "none"
       THEN /\ processed_message_count < MaxMessages
            /\ CountMessage(TRUE)
            /\ last_decision' = Report(s.message, "accept", "none")
            /\ UNCHANGED engineVars
       ELSE Worker(s)
  /\ step_results' = Append(step_results, StepResult(s))
  /\ done' = (stop_on_reject /\ Rejected(StepResult(s)))
  /\ UNCHANGED stop_on_reject

RunStep(s) ==
  /\ ~done /\ Len(step_results) < MaxSteps
  /\ Worker(s)
  /\ step_results' = Append(step_results, StepResult(s))
  /\ done' = (stop_on_reject /\ Rejected(StepResult(s)))
  /\ UNCHANGED stop_on_reject

ScenarioInit ==
  /\ WorkerInit
  /\ stop_on_reject \in BOOLEAN
  /\ step_results = <<>>
  /\ done = FALSE

ScenarioNext == \E s \in ScenarioStep : RunStep(s)

ScenarioSpec == ScenarioInit /\ [][ScenarioNext]_scenarioVars
-----------------------------------------------------------------------------
(* summarizeScenario                                                       *)

\* The steps the worker accepted, of the first n.
AcceptedSteps(n) == { i \in 1 .. n : step_results[i].worker = "none" }
AcceptedWorkerCount == Cardinality(AcceptedSteps(Len(step_results)))
FinalOpLogCount == Len(op_log)
-----------------------------------------------------------------------------
\* A step the worker accepted has its place in the log, behind the ones
\* accepted before it.
IsInItsPlace(i) ==
  LET in == step_results[i].step.message.input
  IN op_log[Cardinality(AcceptedSteps(i))] = [op_id |-> in.op_id,
                                              op |-> in.op]

StopsAtItsRejection ==
  stop_on_reject =>
    \A i \in 1 .. Len(step_results) - 1 :
      step_results[i].worker = "none"
        /\ step_results[i].main \in {"absent", "none"}

(***************************************************************************)
(* The log of the worker is the accepted steps of the scenario in their    *)
(* order, the ones whose projection the main thread refused included: a    *)
(* refused projection takes nothing back.  The summary counts them, and a  *)
(* scenario that stops on a rejection has at most one rejected step, its   *)
(* last, whoever rejected it (in-memory-roundtrip.ts:72-90,                *)
(* in-memory-session-scenario.ts:75-80, 112-125).                          *)
(***************************************************************************)
LogIsTheAcceptedSteps ==
  step_results # <<>> =>
    /\ AcceptedWorkerCount = accepted_message_count
    /\ AcceptedWorkerCount = FinalOpLogCount
    /\ \A i \in AcceptedSteps(Len(step_results)) : IsInItsPlace(i)
    /\ StopsAtItsRejection
=============================================================================
