---------------------------- MODULE WorkerAdapter ----------------------------
(***************************************************************************)
(* handleWorkerAdapterMessage (worker-message-handler.ts) and the context  *)
(* it keeps (worker-context.ts): the engine as a worker runs it.  The      *)
(* adapter validates the envelope and its payload first, without knowing   *)
(* the processed ids; what passes goes to the engine, which validates the  *)
(* envelope again, with them.  It counts, and tells the sender of a        *)
(* refused message what to do.                                             *)
(*                                                                         *)
(* last_decision stands for last_decision_summary, last_recovery_decision  *)
(* and the error of the output, with the message they answer.              *)
(***************************************************************************)
EXTENDS CoreEngine

CONSTANTS
  Posted,       \* what may be posted to the worker
  MaxMessages,  \* bound: the messages a worker handles
  NoRecovery

MessageType == [input : Input, payload_serializable : BOOLEAN]

\* The recovery actions a message can be answered with.
RecoveryAction ==
  {"reject-message", "reject-projection", "request-fresh-projection",
   "throttle-background", "quarantine-result", "idempotent-ack"}

ASSUME MessageAssumption ==
  /\ Posted \subseteq MessageType
  /\ MaxMessages \in Nat
  /\ NoRecovery \notin [action : RecoveryAction, retry : BOOLEAN]

VARIABLES
  processed_message_count, accepted_message_count, rejected_message_count,
  last_decision

counters ==
  <<processed_message_count, accepted_message_count, rejected_message_count>>

workerVars == <<engineVars, counters, last_decision>>
-----------------------------------------------------------------------------
\* The first error of the adapter's own validation.
EnvelopeError(m) ==
  IF m.input.envelope_error # "none" THEN m.input.envelope_error
  ELSE IF m.payload_serializable THEN "none" ELSE "MissingRequiredField"

RecoveryContext(decision_type) ==
  CASE decision_type = "reject-projection" -> "projection"
    [] decision_type = "reject-backpressure" -> "backpressure"
    [] decision_type \in {"reject-transaction", "defer-transaction"} ->
         "transaction"
    [] decision_type \in {"reject-envelope", "reject-operation", "accept",
                          "preempt-transaction"} -> "message"

Recovery(decision_type, error) ==
  IF error = "none" THEN NoRecovery
  ELSE [action |-> GetRecoveryAction(error, RecoveryContext(decision_type)),
        retry |-> ShouldRetry(error)]

Report(m, decision_type, error) ==
  [message |-> m, decision_type |-> decision_type, error |-> error,
   recovery |-> Recovery(decision_type, error)]

CountMessage(accepted) ==
  /\ processed_message_count' = processed_message_count + 1
  /\ accepted_message_count' =
       accepted_message_count + (IF accepted THEN 1 ELSE 0)
  /\ rejected_message_count' =
       rejected_message_count + (IF accepted THEN 0 ELSE 1)

\* Seeded fault: the message id is remembered although the engine was not
\* asked.
RejectBeforeCore_remembers(m) ==
  /\ processed_message_count < MaxMessages
  /\ EnvelopeError(m) # "none"
  /\ CountMessage(FALSE)
  /\ last_decision' = Report(m, "reject-envelope", EnvelopeError(m))
  /\ processed_message_ids' =
       Append(processed_message_ids, m.input.message_id)
  /\ UNCHANGED <<vars, op_log, decision>>

\* The engine is not asked.
RejectBeforeCore(m) ==
  /\ processed_message_count < MaxMessages
  /\ EnvelopeError(m) # "none"
  /\ CountMessage(FALSE)
  /\ last_decision' = Report(m, "reject-envelope", EnvelopeError(m))
  /\ UNCHANGED engineVars

\* Seeded fault: whatever reached the engine is counted as accepted.
ProcessMessage_countsAll(m, snapshot, active, projection) ==
  /\ processed_message_count < MaxMessages
  /\ EnvelopeError(m) = "none"
  /\ \/ Accept(m.input, snapshot, active, projection)
     \/ Reject(m.input, snapshot, active, projection)
  /\ CountMessage(TRUE)
  /\ last_decision' = Report(m, decision'.decision_type, decision'.error)

\* The answer of the engine is the answer of the adapter.
ProcessMessage(m, snapshot, active, projection) ==
  /\ processed_message_count < MaxMessages
  /\ EnvelopeError(m) = "none"
  /\ \/ Accept(m.input, snapshot, active, projection)
     \/ Reject(m.input, snapshot, active, projection)
  /\ CountMessage(decision'.error = "none")
  /\ last_decision' = Report(m, decision'.decision_type, decision'.error)

WorkerInit ==
  /\ EngineInit
  /\ processed_message_count = 0
  /\ accepted_message_count = 0
  /\ rejected_message_count = 0
  /\ last_decision = NoDecision

WorkerNext ==
  \E m \in Posted :
    \/ RejectBeforeCore(m)
    \/ \E snapshot \in Snapshot, active \in Lane \cup {NoLane},
          projection \in Projection \cup {NoProjection} :
         ProcessMessage(m, snapshot, active, projection)

WorkerSpec == WorkerInit /\ [][WorkerNext]_workerVars
-----------------------------------------------------------------------------
CountersFit ==
  /\ accepted_message_count = Len(op_log)
  /\ processed_message_count =
       accepted_message_count + rejected_message_count

(***************************************************************************)
(* With every answer the counters say what happened: an accepted message   *)
(* is one in the log, and every other message was refused, before the      *)
(* engine or by it (worker-context.ts:33, worker-message-handler.ts:108).  *)
(***************************************************************************)
CountersExplainLog == last_decision # NoDecision => CountersFit

(***************************************************************************)
(* A message that has taken effect and is delivered again in good form is  *)
(* acknowledged, whatever the pressure, the active transaction and the     *)
(* projection are by then: its sender, who may have lost the first answer, *)
(* is never told that it failed (protocol.ts:254, recovery-policy.ts:88).  *)
(***************************************************************************)
RedeliveryAcknowledged ==
  [][processed_message_count' # processed_message_count =>
       LET answer == last_decision' IN
       IsProcessed(answer.message.input.message_id)
         /\ EnvelopeError(answer.message) = "none"
         => /\ answer.recovery # NoRecovery
            /\ answer.recovery.action = "idempotent-ack"]_workerVars

\* The context the sender waits for: no load, nothing active.
IdleSnapshot ==
  [pending_transactions |-> 0, pending_bytes |-> 0,
   largest_pending_projection_bytes |-> 0, uncommitted_projection_count |-> 0]

(***************************************************************************)
(* A retry that is advised leads somewhere.  As long as the session does   *)
(* not move on, the same message without its projection passes every check *)
(* up to the state store once the load is gone: pressure and staleness are *)
(* only reported of messages that nothing else is wrong with               *)
(* (core-decision.ts:86-204 in this order, recovery-policy.ts:93).         *)
(***************************************************************************)
AdvisedRetryLeadsSomewhere ==
  last_decision # NoDecision /\ last_decision.recovery # NoRecovery
    /\ last_decision.recovery.retry
    => LET in == last_decision.message.input IN
       AllPass(IntakeTable(in)
                 \o AdmissionTable(in, IdleSnapshot, NoLane, NoProjection))

(***************************************************************************)
(* An acknowledgement, which tells the sender that nothing is left to do,  *)
(* is only given for what is there: an operation is in the log under that  *)
(* message id, or the session has the message that was to be added.  A     *)
(* message refused earlier, by the adapter or by any check of the engine,  *)
(* must not have left its id behind, or the corrected one that follows     *)
(* under that id is acknowledged and lost (worker-message-handler.ts:53,   *)
(* core-engine.ts:126, 226-235, state-store.ts:277,                        *)
(* recovery-policy.ts:88).                                                 *)
(***************************************************************************)
AcknowledgedIsThere ==
  last_decision # NoDecision /\ last_decision.recovery # NoRecovery
    /\ last_decision.recovery.action = "idempotent-ack"
    => LET in == last_decision.message.input IN
       \/ \E i \in LoggedIndices : processed_message_ids[i] = in.message_id
       \/ /\ in.op.op_type = "AddMessage"
          /\ in.op.message_id \in DOMAIN messages
=============================================================================
