---------------------------- MODULE DecisionTrace ----------------------------
(***************************************************************************)
(* What the engine says about a decision besides the decision: the trace   *)
(* of the stages it went through (decision-trace.ts, and the calls of      *)
(* markTracePass and markTraceFailure in core-engine.ts) and the metrics   *)
(* snapshot a caller keeps by merging one decision after the other into it *)
(* (metrics-snapshot.ts).                                                  *)
(*                                                                         *)
(* The trace is not taken while the decision is made: the stages of        *)
(* decideCoreAdmission are written down afterwards, from the type of the   *)
(* decision, and the caller of a message cannot see what was really asked. *)
(* given keeps what came with the message, so that the properties can.     *)
(*                                                                         *)
(* Left out: the reasons, and rejected_count, which only counts up.        *)
(***************************************************************************)
EXTENDS CoreEngine

CONSTANT TracedInput  \* the messages whose traces are looked at

ASSUME TracedAssumption == TracedInput \subseteq Input

VARIABLES
  trace,    \* the trace of the last decision
  metrics,  \* the merged metrics snapshot
  given     \* the snapshot and the projection of the last message

traceVars == <<engineVars, trace, metrics, given>>

IntakeStages ==
  <<"envelope-validation", "operation-validation", "op-log-append",
    "transaction-creation", "transaction-validation">>
CoreStages ==
  <<"backpressure-check", "scheduler-admission", "projection-policy">>
DecisionStage == IntakeStages \o CoreStages \o <<"final-decision">>
StageIndex(stage) ==
  CHOOSE i \in DOMAIN DecisionStage : DecisionStage[i] = stage

Step(stage, error) ==
  [stage |-> stage, status |-> IF error = "none" THEN "pass" ELSE "fail",
   error |-> error]
Passes(stages) == [i \in DOMAIN stages |-> Step(stages[i], "none")]
-----------------------------------------------------------------------------
Failed(steps) == { i \in DOMAIN steps : steps[i].status = "fail" }

SummarizeDecisionTrace(steps) ==
  LET accepted == /\ Failed(steps) = {}
                  /\ \E i \in DOMAIN steps : steps[i].stage = "final-decision"
  IN [steps |-> steps, accepted |-> accepted,
      final_status |-> IF Failed(steps) # {} THEN "rejected"
                       ELSE IF accepted THEN "accepted" ELSE "pending"]

\* The stage at which processRuntimeMessage fails a row of IntakeTable.
IntakeStage ==
  <<"envelope-validation", "envelope-validation", "operation-validation",
    "op-log-append", "transaction-creation">>

FirstFailing(table) ==
  CHOOSE i \in DOMAIN table :
    ~table[i].passed /\ \A j \in 1 .. i - 1 : table[j].passed

IntakeTrace(in) ==
  LET i == FirstFailing(IntakeTable(in))
      at == StageIndex(IntakeStage[i])
  IN Passes(SubSeq(IntakeStages, 1, at - 1))
       \o << Step(IntakeStage[i], IntakeTable(in)[i].error) >>

\* Seeded fault: a refused projection is only noted as looked at.
TraceCoreDecisionRejection_noFailure(failure) ==
  CASE failure.decision_type = "reject-backpressure" ->
         << Step(CoreStages[1], failure.error) >>
    [] failure.decision_type = "reject-projection" -> Passes(CoreStages)
    [] OTHER -> Passes(SubSeq(CoreStages, 1, 1))
                  \o << Step(CoreStages[2], failure.error) >>

\* By the type of the decision; a failed check of identity or of versions is
\* put down to the scheduler, with the load passed.
TraceCoreDecisionRejection(failure) ==
  CASE failure.decision_type = "reject-backpressure" ->
         << Step(CoreStages[1], failure.error) >>
    [] failure.decision_type = "reject-projection" ->
         Passes(SubSeq(CoreStages, 1, 2))
           \o << Step(CoreStages[3], failure.error) >>
    [] OTHER -> Passes(SubSeq(CoreStages, 1, 1))
                  \o << Step(CoreStages[2], failure.error) >>

Steps(in, snapshot, active, projection) ==
  LET admission == AdmissionTable(in, snapshot, active, projection)
      intake == Passes(IntakeStages) IN
  IF ~AllPass(IntakeTable(in)) THEN IntakeTrace(in)
  ELSE IF ~AllPass(admission)
    THEN intake \o TraceCoreDecisionRejection(FirstFailure(admission))
  ELSE IF ~CanApply(in.op)
    THEN intake \o << Step("final-decision", StoreError(in.op)) >>
  ELSE intake \o Passes(SubSeq(CoreStages, 1, 2))
         \o (IF projection = NoProjection THEN <<>>
             ELSE Passes(SubSeq(CoreStages, 3, 3)))
         \o Passes(<<"final-decision">>)
-----------------------------------------------------------------------------
HasStage(t, stage) == \E i \in DOMAIN t.steps : t.steps[i].stage = stage
FailsAt(t, stage) == \E i \in Failed(t.steps) : t.steps[i].stage = stage

SummarizeDecisionMetrics(d, t) ==
  [projection_evaluated |-> HasStage(t, "projection-policy"),
   backpressure_rejected |-> d.decision_type = "reject-backpressure"
                               \/ FailsAt(t, "backpressure-check")]

\* op_log_count and session_version, left out, stay those of previous.
MergeCoreMetricsSnapshot(previous, d, t) ==
  [summary |-> SummarizeDecisionMetrics(d, t),
   accepted_count |->
     previous.accepted_count + IF d.error = "none" THEN 1 ELSE 0]

NoTrace == SummarizeDecisionTrace(<<>>)

TraceInit ==
  /\ EngineInit
  /\ trace = NoTrace
  /\ metrics = [summary |-> [projection_evaluated |-> FALSE,
                             backpressure_rejected |-> FALSE],
                accepted_count |-> 0]
  /\ given = [snapshot |-> CHOOSE s \in Snapshot : TRUE,
              projection |-> NoProjection]

Process(in, snapshot, active, projection) ==
  /\ Accept(in, snapshot, active, projection)
       \/ Reject(in, snapshot, active, projection)
  /\ trace' =
       SummarizeDecisionTrace(Steps(in, snapshot, active, projection))
  /\ metrics' = MergeCoreMetricsSnapshot(metrics, decision', trace')
  /\ given' = [snapshot |-> snapshot, projection |-> projection]

TraceNext ==
  \E in \in TracedInput, snapshot \in Snapshot, active \in Lane \cup {NoLane},
     projection \in Projection \cup {NoProjection} :
    Process(in, snapshot, active, projection)

TraceSpec == TraceInit /\ [][TraceNext]_traceVars
-----------------------------------------------------------------------------
DecisionIsTraced ==
  LET steps == trace.steps
      last == steps[Len(steps)] IN
  /\ trace.final_status =
       IF decision.error = "none" THEN "accepted" ELSE "rejected"
  /\ trace.accepted <=> Failed(steps) = {}
  /\ last.error = decision.error
  /\ \A i \in 1 .. Len(steps) - 1 :
       /\ steps[i].status = "pass"
       /\ StageIndex(steps[i].stage) < StageIndex(steps[i + 1].stage)

DecisionIsCounted ==
  /\ metrics.accepted_count = Len(op_log)
  /\ metrics.summary.backpressure_rejected <=>
       decision.error = "BackpressureLimitExceeded"

(***************************************************************************)
(* A trace ends in the decision it is the trace of: it is never left       *)
(* pending, says accepted when the operation took effect, and otherwise    *)
(* its last step is the only failed one and carries the error the sender   *)
(* is given.  Stages come in the order of the code and once each.  Merged  *)
(* over a whole session, the metrics count as accepted what is in the log, *)
(* preemptions included, and say that the load refused a message exactly   *)
(* when the sender is told so (core-engine.ts:124-236, 304-324;            *)
(* decision-trace.ts:71-86; metrics-snapshot.ts:49-86).                    *)
(***************************************************************************)
TraceTellsDecision ==
  trace # NoTrace => DecisionIsTraced /\ DecisionIsCounted
=============================================================================
