----------------------------- MODULE CoreEngine -----------------------------
(***************************************************************************)
(* processRuntimeMessage (core-engine.ts) and decideCoreAdmission          *)
(* (core-decision.ts): a message carries one operation through a fixed     *)
(* sequence of checks into the op log and the state store.                 *)
(*                                                                         *)
(* The engine is sequential; what is concurrent is its surroundings.  Any  *)
(* message of Input may arrive at any moment, before or after any other,   *)
(* never, or again and again, and the backpressure snapshot, the lane of   *)
(* the active transaction and the projection result that arrive with it    *)
(* are whatever the caller last observed: the engine never updates the     *)
(* ones in its context.                                                    *)
(*                                                                         *)
(* The context is op_log, processed_message_ids and the session state of   *)
(* StateStore; its session_version and current_session_version are always  *)
(* the version of the session state (core-engine.ts:248-249).  decision    *)
(* is the answer to the last message.                                      *)
(***************************************************************************)
EXTENDS StateStore, AdmissionPolicy, ProjectionPolicy

CONSTANTS
  EnvelopeId, OpId, ActionId,
  Input,         \* the messages that may arrive
  Snapshot,      \* the backpressure snapshots callers may hold
  Limits,        \* the backpressure limits
  Projection,    \* the projection results that may come with a message
  NoProjection,
  Bounds,        \* the projection bounds, or NoBounds
  NoDecision

\* The first error that validateMessageEnvelope or validateOperation may
\* find in the form of what they are given, before anything is compared.
FormError ==
  {"MissingRequiredField", "InvalidChecksum", "ProtocolVersionUnsupported",
   "UnknownMessageType"}

\* What the engine reads of its input.  options abstracts the
\* transaction_options: absent, naming a visible range, or invalid.
InputType ==
  [message_id : EnvelopeId, envelope_error : FormError \cup {"none"},
   parent_action_id : ActionId, session_version : Nat,
   op_id : OpId, op_parent_action_id : ActionId,
   op_error : (FormError \ {"ProtocolVersionUnsupported"}) \cup {"none"},
   op_priority : Lane \cup {NoLane}, op : Operation,
   options : {"none", "visible-range", "invalid"},
   transaction_type : TransactionType \cup {NoType}]

ASSUME InputAssumption == Input \subseteq InputType

VARIABLES op_log, processed_message_ids, decision

engineVars == <<vars, op_log, processed_message_ids, decision>>

DecisionType ==
  {"accept", "preempt-transaction", "reject-envelope", "reject-operation",
   "reject-transaction", "reject-backpressure", "defer-transaction",
   "reject-projection"}

LogEntry == [op_id : OpId, op : Operation]
-----------------------------------------------------------------------------
\* Seeded fault: only the last entry of the log is looked at.
IsLogged_last(op_id) ==
  op_log # <<>> /\ op_log[Len(op_log)].op_id = op_id

\* hasOperation.
IsLogged(op_id) == \E i \in 1 .. Len(op_log) : op_log[i].op_id = op_id

\* Seeded fault: only the last message id is remembered.
IsProcessed_last(message_id) ==
  /\ processed_message_ids # <<>>
  /\ processed_message_ids[Len(processed_message_ids)] = message_id

\* seen_message_ids.has.
IsProcessed(message_id) == message_id \in Elements(processed_message_ids)

PriorityOf(in) ==
  TransactionPriority(in.op.op_type, in.op_priority, in.transaction_type)

\* createTransactionFromOperation followed by validateTransaction.
TransactionCanBeCreated(in) ==
  /\ in.options # "invalid"
  /\ in.options = "visible-range" \/ DerivesVisibleRange(in.op.op_type)

SchedulerDecision(in, active) ==
  ShouldAdmitTransaction(PriorityOf(in), active, TRUE, DefaultSchedulerPolicy)

StoreError(op) ==
  IF op.op_type = "AddMessage" /\ op.message_id \in DOMAIN messages
    THEN "DuplicateMessageId" ELSE "AdmissionRejected"

OperationError(in) ==
  IF in.op_error # "none" THEN in.op_error
  ELSE IF IsValidOperation(in.op) THEN "none" ELSE "MissingRequiredField"

Check(passed, type, error) ==
  [passed |-> passed, decision_type |-> type, error |-> error]

\* The envelope, the operation, the log and the transaction.
IntakeTable(in) ==
  << Check(in.envelope_error = "none", "reject-envelope", in.envelope_error),
     Check(~IsProcessed(in.message_id),
           "reject-envelope", "DuplicateMessageId"),
     Check(OperationError(in) = "none",
           "reject-operation", OperationError(in)),
     Check(~IsLogged(in.op_id), "reject-operation", "DuplicateOperationId"),
     Check(TransactionCanBeCreated(in),
           "reject-transaction", "MissingRequiredField") >>

ProjectionCheck(p) ==
  IF p = NoProjection THEN Check(TRUE, "accept", "none")
  ELSE Check(ShouldCommitProjection(p, session_version, Bounds),
             "reject-projection", ProjectionError(p, session_version, Bounds))

\* Seeded fault: the load is looked at before the message is compared with
\* its envelope and the session.
AdmissionTable_loadFirst(in, snapshot, active, projection) ==
  << Check(CanAdmitTransaction(LaneOnly(PriorityOf(in)), snapshot, Limits),
           "reject-backpressure", "BackpressureLimitExceeded"),
     Check(in.op_parent_action_id = in.parent_action_id,
           "reject-operation", "AdmissionRejected"),
     Check(in.op.session_version = in.session_version,
           "reject-operation", "AdmissionRejected"),
     Check(IsCurrent(in.op), "reject-transaction", "AdmissionRejected"),
     Check(SchedulerDecision(in, active) # "defer",
           "defer-transaction", "AdmissionRejected"),
     ProjectionCheck(projection) >>

\* decideCoreAdmission after its repeated validations.  Of the identity
\* checks, the ones on the transaction cannot fail: it was made from the
\* operation.
AdmissionTable(in, snapshot, active, projection) ==
  << Check(in.op_parent_action_id = in.parent_action_id,
           "reject-operation", "AdmissionRejected"),
     Check(in.op.session_version = in.session_version,
           "reject-operation", "AdmissionRejected"),
     Check(IsCurrent(in.op), "reject-transaction", "AdmissionRejected"),
     Check(CanAdmitTransaction(LaneOnly(PriorityOf(in)), snapshot, Limits),
           "reject-backpressure", "BackpressureLimitExceeded"),
     Check(SchedulerDecision(in, active) # "defer",
           "defer-transaction", "AdmissionRejected"),
     ProjectionCheck(projection) >>

StoreTable(op) == << Check(CanApply(op), "reject-operation", StoreError(op)) >>

\* Seeded fault: admission is decided before the message is looked at.
Checks_admissionFirst(in, snapshot, active, projection) ==
  AdmissionTable(in, snapshot, active, projection)
    \o IntakeTable(in) \o StoreTable(in.op)

\* Everything a message must pass, in the order of the code.
Checks(in, snapshot, active, projection) ==
  IntakeTable(in) \o AdmissionTable(in, snapshot, active, projection)
    \o StoreTable(in.op)
-----------------------------------------------------------------------------
\* Every check passes: the log, the session and the processed ids move
\* together.
Accept(in, snapshot, active, projection) ==
  /\ AllPass(Checks(in, snapshot, active, projection))
  /\ Apply(in.op)
  /\ op_log' = Append(op_log, [op_id |-> in.op_id, op |-> in.op])
  /\ processed_message_ids' = Append(processed_message_ids, in.message_id)
  /\ decision' =
       [input |-> in, error |-> "none",
        decision_type |-> IF SchedulerDecision(in, active) = "preempt"
                            THEN "preempt-transaction" ELSE "accept"]

\* Seeded fault: the operation appended at op-log-append stays in the log
\* when the state store refuses it.
Reject_keepsLog(in, snapshot, active, projection) ==
  LET checks == Checks(in, snapshot, active, projection) IN
  /\ ~AllPass(checks)
  /\ decision' = [input |-> in, error |-> FirstFailure(checks).error,
                  decision_type |-> FirstFailure(checks).decision_type]
  /\ op_log' =
       IF AllPass(IntakeTable(in) \o AdmissionTable(in, snapshot, active,
                                                    projection))
         THEN Append(op_log, [op_id |-> in.op_id, op |-> in.op])
         ELSE op_log
  /\ UNCHANGED <<processed_message_ids, vars>>

\* Some check fails: the context the caller gets back is the one it gave.
Reject(in, snapshot, active, projection) ==
  LET checks == Checks(in, snapshot, active, projection) IN
  /\ ~AllPass(checks)
  /\ decision' = [input |-> in, error |-> FirstFailure(checks).error,
                  decision_type |-> FirstFailure(checks).decision_type]
  /\ UNCHANGED <<vars, op_log, processed_message_ids>>

EngineInit ==
  /\ Init
  /\ op_log = <<>>
  /\ processed_message_ids = <<>>
  /\ decision = NoDecision

EngineNext ==
  \E in \in Input, snapshot \in Snapshot, active \in Lane \cup {NoLane},
     projection \in Projection \cup {NoProjection} :
    \/ Accept(in, snapshot, active, projection)
    \/ Reject(in, snapshot, active, projection)

EngineSpec == EngineInit /\ [][EngineNext]_engineVars
-----------------------------------------------------------------------------
(***************************************************************************)
(* The context has the shape of CoreRuntimeContext (core-engine.ts:30) and *)
(* an answer carries one of the decisions and errors of the code.          *)
(***************************************************************************)
EngineTypeOK ==
  /\ TypeOK
  /\ op_log \in Seq(LogEntry)
  /\ processed_message_ids \in Seq(EnvelopeId)
  /\ decision = NoDecision
       \/ decision \in [input : Input, error : RuntimeError \cup {"none"},
                        decision_type : DecisionType]

LoggedIndices == 1 .. Len(op_log)

(***************************************************************************)
(* The log and the list of processed messages move together, and neither   *)
(* repeats itself: the i-th logged operation came in the i-th processed    *)
(* message, however often messages were resent, also under new ids         *)
(* (core-engine.ts:126, 154, 244).                                         *)
(***************************************************************************)
ExactlyOnce ==
  /\ Len(op_log) = Len(processed_message_ids)
  /\ \A i \in LoggedIndices : \E in \in Input :
       /\ in.message_id = processed_message_ids[i]
       /\ op_log[i] = [op_id |-> in.op_id, op |-> in.op]
  /\ \A i, j \in LoggedIndices : i # j =>
       /\ op_log[i].op_id # op_log[j].op_id
       /\ processed_message_ids[i] # processed_message_ids[j]

\* The logged operations of a type.
Logged(op_type) ==
  { op_log[i].op : i \in { j \in LoggedIndices :
                            op_log[j].op.op_type = op_type } }

\* Where the chunks of a block are in the log.
Appends(b) ==
  { i \in LoggedIndices : op_log[i].op.op_type = "AppendChunk"
                            /\ op_log[i].op.block_id = b }

ChunksAreLogged(b) ==
  /\ Len(blocks[b].applied_chunk_ids) = Cardinality(Appends(b))
  /\ \A i \in Appends(b) :
       blocks[b].applied_chunk_ids[Cardinality(Appends(b) \cap 1 .. i)]
         = op_log[i].op.chunk_id

End(op) == op.append_offset + Len(op.payload)

\* Each payload is at its offset, behind the payloads logged before it, and
\* they fill the text.
TextIsLogged(b) ==
  LET text == blocks[b].text
      op(i) == op_log[i].op
  IN /\ \A i \in Appends(b) :
          /\ End(op(i)) <= Len(text)
          /\ \A p \in 1 .. Len(op(i).payload) :
               text[op(i).append_offset + p] = op(i).payload[p]
     /\ \A i, j \in Appends(b) :
          i < j => End(op(i)) <= op(j).append_offset
     /\ \A p \in 1 .. Len(text) : \E i \in Appends(b) :
          op(i).append_offset < p /\ p <= End(op(i))

(***************************************************************************)
(* The session is what its log says: the log holds the operations that     *)
(* took effect and no others, in the order they did.  An operation the     *)
(* state store refuses after it went into the log must be out of it again  *)
(* (core-engine.ts:154 against 226-235, 244).                              *)
(***************************************************************************)
LogExplainsSession ==
  /\ session_version =
       IF op_log = <<>> THEN InitialVersion
                        ELSE op_log[Len(op_log)].op.session_version
  /\ DOMAIN messages = { op.message_id : op \in Logged("AddMessage") }
  /\ \A op \in Logged("AddMessage") : messages[op.message_id] = op.block_ids
  /\ DOMAIN blocks = { op.block_id : op \in Logged("AppendChunk") }
  /\ \A b \in DOMAIN blocks :
       /\ ChunksAreLogged(b)
       /\ blocks[b].sealed = (\E op \in Logged("SealBlock") : op.block_id = b)
       /\ (\A op \in Logged("PatchRange") : op.block_id # b)
            => TextIsLogged(b)

(***************************************************************************)
(* A message the sender is told to send again has not taken effect, so     *)
(* that the retry is not refused as a duplicate.  The duplicate checks     *)
(* must come before every check that can answer "retry"                    *)
(* (core-engine.ts:126-158 before 188; recovery-policy.ts:93).             *)
(***************************************************************************)
RetryCanTakeEffect ==
  decision # NoDecision /\ ShouldRetry(decision.error) =>
    /\ ~IsProcessed(decision.input.message_id)
    /\ ~IsLogged(decision.input.op_id)

\* The abstract log that the engine implements.
Log == INSTANCE SessionLog WITH
  Versions <- Version,
  log <- [i \in LoggedIndices |->
            [message_id |-> processed_message_ids[i],
             op_id |-> op_log[i].op_id,
             session_version |-> op_log[i].op.session_version]]

(***************************************************************************)
(* The engine implements SessionLog: whatever arrives, with whatever       *)
(* pressure, active transaction and projection, what takes effect is one   *)
(* append-only log without duplicates whose versions never go back.        *)
(***************************************************************************)
ImplementsSessionLog == Log!Spec
-----------------------------------------------------------------------------
(***************************************************************************)
(* "urgent-input cannot be dropped": a transaction of that lane that only  *)
(* has to wait is not refused for good.                                    *)
(***************************************************************************)
UrgentInputNotDropped ==
  decision # NoDecision
    /\ decision.decision_type \in {"reject-backpressure", "defer-transaction"}
    /\ PriorityOf(decision.input) = "urgent-input"
    => ShouldRetry(decision.error)
=============================================================================
