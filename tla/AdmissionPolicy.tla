--------------------------- MODULE AdmissionPolicy ---------------------------
(***************************************************************************)
(* The pure policies that decide whether a transaction is admitted:        *)
(* priorities.ts, scheduler-policy.ts, backpressure-policy.ts, the         *)
(* priority a transaction is given (transaction-lifecycle.ts) and what the *)
(* sender is told to do about an error (recovery-policy.ts).               *)
(*                                                                         *)
(* Numbers in snapshots and limits are naturals: the code rejects others.  *)
(***************************************************************************)
EXTENDS Integers

CONSTANTS NoLane, NoType, NoSize

Lane ==
  {"urgent-input", "visible-projection", "stream-update",
   "background-indexing"}

TransactionType ==
  Lane \cup {"hydration-reconstruction", "cleanup-compaction"}

ASSUME NoLaneAssumption == NoLane \notin Lane
ASSUME NoTypeAssumption == NoType \notin TransactionType
ASSUME NoSizeAssumption == NoSize \notin Nat

PriorityOrder ==
  [l \in Lane |-> CASE l = "urgent-input" -> 4
                    [] l = "visible-projection" -> 3
                    [] l = "stream-update" -> 2
                    [] l = "background-indexing" -> 1]

CanPreempt(current, incoming) ==
  PriorityOrder[incoming] > PriorityOrder[current]
-----------------------------------------------------------------------------
(* scheduler-policy.ts                                                     *)

\* active is NoLane when no transaction is active; versions_match tells
\* whether the two transactions carry the same session version.
ShouldAdmitTransaction(priority, active, versions_match, policy) ==
  IF active = NoLane THEN "admit"
  ELSE IF policy.require_version_match /\ ~versions_match THEN "reject"
  ELSE IF CanPreempt(active, priority) THEN "preempt"
  ELSE IF policy.allow_equal_priority_admission /\ active = priority
    THEN "admit"
  ELSE "defer"

DefaultSchedulerPolicy ==
  [allow_equal_priority_admission |-> FALSE, require_version_match |-> FALSE]
-----------------------------------------------------------------------------
(* backpressure-policy.ts                                                  *)

\* shouldRejectProjectionSize, for a transaction that names a size.
ProjectionFits(input, limits) ==
  input.projection_size = NoSize
    \/ input.projection_size <= limits.max_projection_result_bytes

RoomForTransaction(input, snapshot, limits) ==
  input.priority = "urgent-input"
    \/ snapshot.pending_transactions < limits.max_pending_transactions

RoomForBytes(input, snapshot, limits) ==
  input.priority = "urgent-input"
    \/ snapshot.pending_bytes + input.projected_bytes
         <= limits.max_pending_bytes

RoomForProjection(input, snapshot, limits) ==
  input.priority = "visible-projection" =>
    snapshot.uncommitted_projection_count
      < limits.max_uncommitted_projection_count

CanAdmitTransaction(input, snapshot, limits) ==
  /\ ProjectionFits(input, limits)
  /\ RoomForTransaction(input, snapshot, limits)
  /\ RoomForBytes(input, snapshot, limits)
  /\ RoomForProjection(input, snapshot, limits)

\* Seeded fault: throttling starts one transaction too late.
ShouldThrottleBackground_late(snapshot, limits) ==
  \/ snapshot.pending_transactions > limits.max_pending_transactions
  \/ snapshot.pending_bytes > limits.max_pending_bytes
  \/ snapshot.largest_pending_projection_bytes
       > limits.max_projection_result_bytes
  \/ snapshot.uncommitted_projection_count
       >= limits.max_uncommitted_projection_count

ShouldThrottleBackground(snapshot, limits) ==
  \/ snapshot.pending_transactions >= limits.max_pending_transactions
  \/ snapshot.pending_bytes > limits.max_pending_bytes
  \/ snapshot.largest_pending_projection_bytes
       > limits.max_projection_result_bytes
  \/ snapshot.uncommitted_projection_count
       >= limits.max_uncommitted_projection_count

EvaluateBackpressure(snapshot, limits) ==
  /\ snapshot.pending_bytes <= limits.max_pending_bytes
  /\ snapshot.largest_pending_projection_bytes
       <= limits.max_projection_result_bytes

\* What decideCoreAdmission asks: it passes the priority and nothing else.
LaneOnly(priority) ==
  [priority |-> priority, projected_bytes |-> 0, projection_size |-> NoSize]
-----------------------------------------------------------------------------
(* transaction-lifecycle.ts                                                *)

DeriveTransactionType(op_type) ==
  CASE op_type \in {"RequestProjection", "SetViewport", "CommitProjectionAck"}
         -> "visible-projection"
    [] op_type = "CancelTransaction" -> "urgent-input"
    [] op_type \in {"AppendChunk", "SealBlock", "PatchRange", "AddMessage"}
         -> "stream-update"

DerivePriority(type) ==
  IF type \in Lane THEN type ELSE "background-indexing"

\* The lane of the operation if it names one, else the lane of the type.
TransactionPriority(op_type, op_priority, type_option) ==
  IF op_priority # NoLane THEN op_priority
  ELSE DerivePriority(IF type_option # NoType THEN type_option
                      ELSE DeriveTransactionType(op_type))

\* Operations a visible range can be derived from.
DerivesVisibleRange(op_type) ==
  op_type \notin {"CancelTransaction", "CommitProjectionAck"}
-----------------------------------------------------------------------------
(* recovery-policy.ts, for the errors a message can end in                 *)

RuntimeError ==
  {"ProtocolVersionUnsupported", "UnknownMessageType",
   "MissingRequiredField", "InvalidChecksum", "StaleProjectionRejected",
   "ProjectionTooLarge", "BackpressureLimitExceeded", "AdmissionRejected",
   "EquivalenceMismatch", "DuplicateOperationId", "DuplicateMessageId"}

GetRecoveryAction(error, context) ==
  CASE error \in {"ProtocolVersionUnsupported", "UnknownMessageType",
                  "MissingRequiredField", "AdmissionRejected",
                  "DuplicateOperationId"} -> "reject-message"
    [] error = "InvalidChecksum" ->
         IF context \in {"projection", "result"} THEN "reject-projection"
         ELSE "reject-message"
    [] error = "StaleProjectionRejected" -> "request-fresh-projection"
    [] error = "ProjectionTooLarge" ->
         IF context = "projection" THEN "request-fresh-projection"
         ELSE "reject-projection"
    [] error = "BackpressureLimitExceeded" -> "throttle-background"
    [] error = "EquivalenceMismatch" -> "quarantine-result"
    [] error = "DuplicateMessageId" -> "idempotent-ack"

ShouldRetry(error) ==
  error \in {"StaleProjectionRejected", "ProjectionTooLarge",
             "BackpressureLimitExceeded"}
=============================================================================
