-------------------------- MODULE CoreEngineProofs --------------------------
(***************************************************************************)
(* Proofs about CoreEngine, and about WorkerAdapter, SessionScenario and   *)
(* DecisionTrace, which run it: whatever messages, snapshots, active       *)
(* lanes, projections, limits and bounds there are, and for every log      *)
(* length, the engine implements the state store and the exactly-once log, *)
(* which explains the session, the adapter implements the engine, its      *)
(* counters agree with the log and a message that has taken effect is      *)
(* acknowledged, the log is what a scenario saw accepted, and traces and   *)
(* metrics tell what was decided.                                          *)
(***************************************************************************)
EXTENDS SessionScenario, DecisionTrace, StateStoreProofs, PolicyProofs

USE InputAssumption

\* A row that fails has an error to report.
RowType ==
  { row \in [passed : BOOLEAN, decision_type : DecisionType,
             error : RuntimeError \cup {"none"}] :
      ~row.passed => row.error # "none" }

LEMMA InputFields ==
  ASSUME NEW in \in Input
  PROVE  /\ in.message_id \in EnvelopeId
         /\ in.op_id \in OpId
         /\ in.op \in Operation
  BY DEF InputType
-----------------------------------------------------------------------------
(***************************************************************************)
(* The checks a message goes through: twelve rows in three tables.         *)
(***************************************************************************)
LEMMA Tuples ==
  ASSUME NEW S, NEW a \in S, NEW b \in S, NEW c \in S, NEW d \in S,
         NEW e \in S, NEW f \in S
  PROVE  /\ <<a>> \in Seq(S) /\ Len(<<a>>) = 1
         /\ <<a, b, c, d, e>> \in Seq(S) /\ Len(<<a, b, c, d, e>>) = 5
         /\ <<a, b, c, d, e, f>> \in Seq(S) /\ Len(<<a, b, c, d, e, f>>) = 6
  OBVIOUS

LEMMA CheckType ==
  ASSUME NEW passed \in BOOLEAN, NEW type \in DecisionType,
         NEW error \in RuntimeError \cup {"none"},
         ~passed => error # "none"
  PROVE  Check(passed, type, error) \in RowType
  BY DEF Check, RowType

LEMMA TableTypes ==
  ASSUME NEW in \in Input, NEW snapshot, NEW active, NEW projection
  PROVE  /\ IntakeTable(in) \in Seq(RowType)
         /\ Len(IntakeTable(in)) = 5
         /\ AdmissionTable(in, snapshot, active, projection) \in Seq(RowType)
         /\ Len(AdmissionTable(in, snapshot, active, projection)) = 6
         /\ StoreTable(in.op) \in Seq(RowType)
         /\ Len(StoreTable(in.op)) = 1
  <1>1. /\ {"accept", "reject-envelope", "reject-operation",
            "reject-transaction", "reject-backpressure", "defer-transaction",
            "reject-projection"} \subseteq DecisionType
        /\ {"MissingRequiredField", "DuplicateMessageId",
            "DuplicateOperationId", "AdmissionRejected",
            "BackpressureLimitExceeded", "none"}
             \subseteq RuntimeError \cup {"none"}
    BY DEF DecisionType, RuntimeError
  <1>2. /\ (in.envelope_error = "none") \in BOOLEAN
        /\ (~IsProcessed(in.message_id)) \in BOOLEAN
        /\ (~IsLogged(in.op_id)) \in BOOLEAN
        /\ (OperationError(in) = "none") \in BOOLEAN
        /\ in.envelope_error \in RuntimeError \cup {"none"}
        /\ OperationError(in) \in RuntimeError \cup {"none"}
        /\ TransactionCanBeCreated(in) \in BOOLEAN
    BY DEF InputType, FormError, RuntimeError, OperationError, IsProcessed,
           IsLogged, TransactionCanBeCreated
  <1>3. /\ IntakeTable(in) \in Seq(RowType)
        /\ Len(IntakeTable(in)) = 5
    <2>1. Check(in.envelope_error = "none", "reject-envelope",
                in.envelope_error) \in RowType
      BY <1>1, <1>2, CheckType
    <2>2. Check(~IsProcessed(in.message_id), "reject-envelope",
                "DuplicateMessageId") \in RowType
      BY <1>1, <1>2, CheckType
    <2>3. Check(OperationError(in) = "none", "reject-operation",
                OperationError(in)) \in RowType
      BY <1>1, <1>2, CheckType
    <2>4. Check(~IsLogged(in.op_id), "reject-operation",
                "DuplicateOperationId") \in RowType
      BY <1>1, <1>2, CheckType
    <2>5. Check(TransactionCanBeCreated(in), "reject-transaction",
                "MissingRequiredField") \in RowType
      BY <1>1, <1>2, CheckType
    <2>. QED
      BY <2>1, <2>2, <2>3, <2>4, <2>5, Tuples DEF IntakeTable
  <1>4. ProjectionCheck(projection) \in RowType
    <2>1. ShouldCommitProjection(projection, session_version, Bounds)
            \in BOOLEAN
      BY DEF ShouldCommitProjection, AllPass
    <2>. QED
      BY <1>1, <2>1, CheckType, ProjectionErrorType DEF ProjectionCheck
  <1>5. /\ IsCurrent(in.op) \in BOOLEAN
        /\ CanAdmitTransaction(LaneOnly(PriorityOf(in)), snapshot, Limits)
             \in BOOLEAN
        /\ (in.op_parent_action_id = in.parent_action_id) \in BOOLEAN
        /\ (in.op.session_version = in.session_version) \in BOOLEAN
        /\ (SchedulerDecision(in, active) # "defer") \in BOOLEAN
    BY DEF IsCurrent, CanAdmitTransaction
  <1>6. /\ AdmissionTable(in, snapshot, active, projection) \in Seq(RowType)
        /\ Len(AdmissionTable(in, snapshot, active, projection)) = 6
    BY <1>1, <1>4, <1>5, CheckType, Tuples DEF AdmissionTable
  <1>7. /\ StoreTable(in.op) \in Seq(RowType)
        /\ Len(StoreTable(in.op)) = 1
    <2>1. CanApply(in.op) \in BOOLEAN
      BY DEF CanApply
    <2>2. StoreError(in.op) \in RuntimeError \cup {"none"}
      BY <1>1 DEF StoreError
    <2>3. StoreError(in.op) # "none"
      BY DEF StoreError
    <2>. QED
      BY <1>1, <2>1, <2>2, <2>3, CheckType, Tuples DEF StoreTable
  <1>. QED
    BY <1>3, <1>6, <1>7

LEMMA ChecksRows ==
  ASSUME NEW in \in Input, NEW snapshot, NEW active, NEW projection
  PROVE  LET checks == Checks(in, snapshot, active, projection)
             admission == AdmissionTable(in, snapshot, active, projection)
         IN /\ checks \in Seq(RowType)
            /\ Len(checks) = 12
            /\ \A i \in 1 .. 5 : checks[i] = IntakeTable(in)[i]
            /\ \A i \in 1 .. 6 : checks[5 + i] = admission[i]
            /\ checks[12] = StoreTable(in.op)[1]
  <1>. DEFINE A == IntakeTable(in)
              B == AdmissionTable(in, snapshot, active, projection)
              C == StoreTable(in.op)
  <1>1. A \in Seq(RowType) /\ B \in Seq(RowType) /\ C \in Seq(RowType)
    BY TableTypes
  <1>2. Len(A) = 5 /\ Len(B) = 6 /\ Len(C) = 1
    BY TableTypes
  <1>3. Checks(in, snapshot, active, projection) = (A \o B) \o C
    BY DEF Checks
  <1>. HIDE DEF A, B, C
  <1>. DEFINE abc == (A \o B) \o C
  <1>4. /\ abc \in Seq(RowType)
        /\ Len(abc) = Len(A) + Len(B) + Len(C)
        /\ \A i \in 1 .. Len(A) : abc[i] = A[i]
        /\ \A i \in 1 .. Len(B) : abc[Len(A) + i] = B[i]
        /\ \A i \in 1 .. Len(C) : abc[Len(A) + Len(B) + i] = C[i]
    BY <1>1, ThreeTables
  <1>. HIDE DEF abc
  <1>5. Len(abc) = 12
    BY <1>2, <1>4
  <1>6. \A i \in 1 .. 5 : abc[i] = A[i]
    BY <1>2, <1>4
  <1>7. \A i \in 1 .. 6 : abc[5 + i] = B[i]
    BY <1>2, <1>4
  <1>8. abc[12] = C[1]
    <2>1. 1 \in 1 .. Len(C) /\ Len(A) + Len(B) + 1 = 12
      BY <1>2
    <2>. QED
      BY <1>4, <2>1
  <1>. QED
    BY <1>3, <1>4, <1>5, <1>6, <1>7, <1>8 DEF abc, A, B, C

\* The rows that the proofs below look into.
LEMMA RowContents ==
  ASSUME NEW in \in Input, NEW snapshot, NEW active, NEW projection
  PROVE  LET checks == Checks(in, snapshot, active, projection) IN
         /\ checks[2].passed = ~IsProcessed(in.message_id)
         /\ checks[4].passed = ~IsLogged(in.op_id)
         /\ \A i \in 1 .. 5 : ~ShouldRetry(checks[i].error)
         /\ checks[12].passed = CanApply(in.op)
  <1>1. /\ IntakeTable(in)[2].passed = ~IsProcessed(in.message_id)
        /\ IntakeTable(in)[4].passed = ~IsLogged(in.op_id)
        /\ StoreTable(in.op)[1].passed = CanApply(in.op)
    BY DEF IntakeTable, StoreTable, Check
  <1>2. \A i \in 1 .. 5 : ~ShouldRetry(IntakeTable(in)[i].error)
    <2>1. /\ ~ShouldRetry(in.envelope_error)
          /\ ~ShouldRetry(OperationError(in))
      BY DEF InputType, FormError, OperationError, ShouldRetry
    <2>. QED
      BY <2>1 DEF IntakeTable, Check, ShouldRetry
  <1>. QED
    BY SMTT(30), <1>1, <1>2, ChecksRows

LEMMA AcceptedInput ==
  ASSUME NEW in \in Input, NEW snapshot, NEW active, NEW projection,
         Accept(in, snapshot, active, projection)
  PROVE  /\ ~IsProcessed(in.message_id)
         /\ ~IsLogged(in.op_id)
         /\ Apply(in.op)
         /\ IsCurrent(in.op)
  <1>. DEFINE checks == Checks(in, snapshot, active, projection)
  <1>1. AllPass(checks) /\ Apply(in.op)
    BY DEF Accept
  <1>2. /\ Len(checks) = 12
        /\ checks[2].passed = ~IsProcessed(in.message_id)
        /\ checks[4].passed = ~IsLogged(in.op_id)
        /\ checks[12].passed = CanApply(in.op)
    BY ChecksRows, RowContents
  <1>. HIDE DEF checks
  <1>3. checks[2].passed /\ checks[4].passed /\ checks[12].passed
    BY <1>1, <1>2 DEF AllPass
  <1>. QED
    BY <1>1, <1>2, <1>3 DEF CanApply

\* The answer to a refused message is that of the first row that fails.
LEMMA RejectedRow ==
  ASSUME NEW in \in Input, NEW snapshot, NEW active, NEW projection,
         Reject(in, snapshot, active, projection)
  PROVE  \E i \in 1 .. 12 :
           LET checks == Checks(in, snapshot, active, projection) IN
           /\ ~checks[i].passed
           /\ \A j \in 1 .. i - 1 : checks[j].passed
           /\ decision' = [input |-> in, error |-> checks[i].error,
                           decision_type |-> checks[i].decision_type]
           /\ checks[i] \in RowType
           /\ checks[i].error # "none"
  <1>. DEFINE checks == Checks(in, snapshot, active, projection)
  <1>1. checks \in Seq(RowType)
    BY ChecksRows
  <1>1a. Len(checks) = 12
    BY ChecksRows
  <1>2. /\ ~AllPass(checks)
        /\ decision' = [input |-> in, error |-> FirstFailure(checks).error,
                        decision_type |-> FirstFailure(checks).decision_type]
    BY DEF Reject
  <1>. HIDE DEF checks
  <1>2a. Len(checks) \in Nat
    BY <1>1a
  <1>3. PICK i \in 1 .. Len(checks) :
          /\ FirstFailure(checks) = checks[i]
          /\ ~checks[i].passed
          /\ \A j \in 1 .. i - 1 : checks[j].passed
    BY <1>2, <1>2a, FirstFailureRow
  <1>4. checks[i] \in RowType
    BY <1>1
  <1>5. checks[i].error # "none"
    BY <1>3, <1>4 DEF RowType
  <1>. QED
    BY <1>1a, <1>2, <1>3, <1>4, <1>5 DEF checks

LEMMA RejectedInput ==
  ASSUME NEW in \in Input, NEW snapshot, NEW active, NEW projection,
         Reject(in, snapshot, active, projection)
  PROVE  \E row \in RowType :
           /\ decision' = [input |-> in, error |-> row.error,
                           decision_type |-> row.decision_type]
           /\ ShouldRetry(row.error) =>
                ~IsProcessed(in.message_id) /\ ~IsLogged(in.op_id)
  <1>. DEFINE checks == Checks(in, snapshot, active, projection)
  <1>1. PICK i \in 1 .. 12 :
          /\ \A j \in 1 .. i - 1 : checks[j].passed
          /\ decision' = [input |-> in, error |-> checks[i].error,
                          decision_type |-> checks[i].decision_type]
          /\ checks[i] \in RowType
    BY RejectedRow
  <1>2. /\ \A j \in 1 .. 5 : ~ShouldRetry(checks[j].error)
        /\ checks[2].passed = ~IsProcessed(in.message_id)
        /\ checks[4].passed = ~IsLogged(in.op_id)
    BY RowContents
  <1>. HIDE DEF checks
  <1>3. ASSUME ShouldRetry(checks[i].error)
        PROVE  ~IsProcessed(in.message_id) /\ ~IsLogged(in.op_id)
    <2>1. i > 5
      BY <1>2, <1>3
    <2>2. checks[2].passed /\ checks[4].passed
      BY <1>1, <2>1
    <2>. QED
      BY <1>2, <2>2
  <1>. QED
    BY <1>1, <1>3
-----------------------------------------------------------------------------
(***************************************************************************)
(* The engine implements the state store: every message it takes is one    *)
(* operation of StateStore, and every message it refuses changes nothing.  *)
(***************************************************************************)
LEMMA AppliedIsNext ==
  ASSUME NEW op \in Operation, Apply(op)
  PROVE  Next
  <1>1. CASE AppendChunk(op)
    BY <1>1, OperationFields DEF Next, AppendChunk
  <1>2. CASE SealBlock(op)
    BY <1>2, OperationFields DEF Next, SealBlock
  <1>3. CASE PatchRange(op)
    BY <1>3, OperationFields DEF Next, PatchRange
  <1>4. CASE AddMessage(op)
    BY <1>4, OperationFields DEF Next, AddMessage
  <1>5. CASE StateNoOp(op)
    <2>1. op \in NoOp
      BY <1>5
      DEF StateNoOp, Operation, AppendChunkOp, SealBlockOp, PatchRangeOp,
          AddMessageOp, NoOp, NoOpTypes
    <2>. QED
      BY <1>5, <2>1 DEF Next
  <1>. QED
    BY <1>1, <1>2, <1>3, <1>4, <1>5 DEF Apply

(***************************************************************************)
(* The engine changes the session only by steps of the state store, so all *)
(* that is proved of the store holds of the engine.                        *)
(***************************************************************************)
THEOREM ImplementsStateStore == EngineSpec => Spec
  <1>1. EngineInit => Init
    BY DEF EngineInit
  <1>2. [EngineNext]_engineVars => [Next]_vars
    <2>. SUFFICES ASSUME EngineNext PROVE Next \/ UNCHANGED vars
      BY DEF engineVars
    <2>. PICK in \in Input, snapshot \in Snapshot,
              active \in Lane \cup {NoLane},
              projection \in Projection \cup {NoProjection} :
           \/ Accept(in, snapshot, active, projection)
           \/ Reject(in, snapshot, active, projection)
      BY DEF EngineNext
    <2>1. CASE Accept(in, snapshot, active, projection)
      BY <2>1, AcceptedInput, InputFields, AppliedIsNext
    <2>2. CASE Reject(in, snapshot, active, projection)
      BY <2>2 DEF Reject
    <2>. QED
      BY <2>1, <2>2
  <1>. QED
    BY <1>1, <1>2, PTL DEF EngineSpec, Spec
-----------------------------------------------------------------------------
(***************************************************************************)
(* The inductive invariant: the log is typed and without repetitions, and  *)
(* no entry of it is ahead of the session version.  The last part is what  *)
(* orders the entries: a new one is at or above the session version.       *)
(***************************************************************************)
EngineIInv ==
  /\ IInv
  /\ EngineTypeOK
  /\ ExactlyOnce
  /\ \A i \in LoggedIndices : op_log[i].op.session_version <= session_version

LEMMA EngineInitIInv == EngineInit => EngineIInv
  <1>. SUFFICES ASSUME EngineInit PROVE EngineIInv
    OBVIOUS
  <1>1. IInv
    BY InitIInv DEF EngineInit
  <1>2. op_log = <<>> /\ processed_message_ids = <<>> /\ decision = NoDecision
    BY DEF EngineInit
  <1>3. EngineTypeOK
    BY <1>1, <1>2 DEF EngineTypeOK, IInv
  <1>. QED
    BY <1>1, <1>2, <1>3 DEF EngineIInv, ExactlyOnce, LoggedIndices

\* The versions in the log are numbers, at or below the session version.
LEMMA LoggedVersions ==
  ASSUME EngineIInv, NEW i \in 1 .. Len(op_log)
  PROVE  /\ op_log[i].op.session_version <= session_version
         /\ op_log[i].op.session_version \in Nat
  <1>1. op_log[i] \in LogEntry
    BY DEF EngineIInv, EngineTypeOK
  <1>2. op_log[i].op \in Operation
    BY <1>1 DEF LogEntry
  <1>. QED
    BY <1>2, OperationFields DEF EngineIInv, LoggedIndices, Version

\* A step of the state store takes the version up to the operation's.
LEMMA VersionAfter ==
  ASSUME NEW op \in Operation, Apply(op), session_version \in Version,
         IsCurrent(op)
  PROVE  session_version' = op.session_version
  BY OperationFields
  DEF Apply, AppendChunk, SealBlock, PatchRange, AddMessage, StateNoOp,
      AdvanceSessionVersion, IsCurrent, Version

LEMMA AcceptIInv ==
  ASSUME EngineIInv, NEW in \in Input, NEW snapshot, NEW active,
         NEW projection, Accept(in, snapshot, active, projection)
  PROVE  EngineIInv'
  <1>. DEFINE entry == [op_id |-> in.op_id, op |-> in.op]
  <1>1. /\ in.message_id \in EnvelopeId /\ in.op_id \in OpId
        /\ in.op \in Operation /\ in.op.session_version \in Version
        /\ entry \in LogEntry
    BY InputFields, OperationFields DEF LogEntry
  <1>2. /\ ~IsProcessed(in.message_id) /\ ~IsLogged(in.op_id)
        /\ Apply(in.op) /\ IsCurrent(in.op)
    BY AcceptedInput
  <1>3. /\ op_log' = Append(op_log, entry)
        /\ processed_message_ids' =
             Append(processed_message_ids, in.message_id)
        /\ decision' \in [input : Input, error : RuntimeError \cup {"none"},
                          decision_type : DecisionType]
    BY DEF Accept, DecisionType
  <1>. HIDE DEF entry
  <1>4. IInv'
    BY <1>1, <1>2, ApplyIInv DEF EngineIInv
  <1>5. /\ op_log \in Seq(LogEntry) /\ Len(op_log) \in Nat
        /\ processed_message_ids \in Seq(EnvelopeId)
        /\ Len(processed_message_ids) = Len(op_log)
        /\ session_version \in Version
    BY DEF EngineIInv, EngineTypeOK, ExactlyOnce, IInv, TypeOK
  <1>6. EngineTypeOK'
    BY <1>1, <1>3, <1>4, <1>5 DEF EngineTypeOK, IInv
  <1>7. /\ Len(op_log') = Len(op_log) + 1
        /\ Len(processed_message_ids') = Len(op_log) + 1
        /\ op_log'[Len(op_log) + 1] = entry
        /\ processed_message_ids'[Len(op_log) + 1] = in.message_id
        /\ \A i \in 1 .. Len(op_log) :
             /\ op_log'[i] = op_log[i]
             /\ processed_message_ids'[i] = processed_message_ids[i]
    BY <1>1, <1>3, <1>5
  <1>8. ExactlyOnce'
    <2>1. \A i \in 1 .. Len(op_log) :
            /\ op_log[i].op_id # in.op_id
            /\ processed_message_ids[i] # in.message_id
      BY <1>2, <1>5 DEF IsLogged, IsProcessed, Elements
    <2>2. entry.op_id = in.op_id
      BY DEF entry
    <2>3. \A i \in 1 .. Len(op_log) + 1 : \E x \in Input :
            /\ x.message_id = processed_message_ids'[i]
            /\ op_log'[i] = [op_id |-> x.op_id, op |-> x.op]
      <3>1. \A i \in 1 .. Len(op_log) : \E x \in Input :
              /\ x.message_id = processed_message_ids[i]
              /\ op_log[i] = [op_id |-> x.op_id, op |-> x.op]
        BY DEF EngineIInv, ExactlyOnce, LoggedIndices
      <3>2. \A i \in 1 .. Len(op_log) + 1 :
              i \in 1 .. Len(op_log) \/ i = Len(op_log) + 1
        BY <1>5
      <3>. QED
        BY ZenonT(60), <1>7, <3>1, <3>2 DEF entry
    <2>4. \A i, j \in 1 .. Len(op_log) : i # j =>
            /\ op_log[i].op_id # op_log[j].op_id
            /\ processed_message_ids[i] # processed_message_ids[j]
      BY DEF EngineIInv, ExactlyOnce, LoggedIndices
    <2>5. \A i, j \in 1 .. Len(op_log) + 1 : i # j =>
            /\ op_log'[i].op_id # op_log'[j].op_id
            /\ processed_message_ids'[i] # processed_message_ids'[j]
      BY <1>5, <1>7, <2>1, <2>2, <2>4
    <2>. QED
      BY <1>7, <2>3, <2>5 DEF ExactlyOnce, LoggedIndices
  <1>9. \A i \in LoggedIndices' :
          op_log'[i].op.session_version <= session_version'
    <2>1. /\ session_version' = in.op.session_version
          /\ session_version <= in.op.session_version
      BY <1>1, <1>2, <1>5, VersionAfter DEF IsCurrent
    <2>2. \A i \in 1 .. Len(op_log) :
            /\ op_log[i].op.session_version <= session_version
            /\ op_log[i].op.session_version \in Nat
      BY LoggedVersions
    <2>3. entry.op.session_version = in.op.session_version
      BY DEF entry
    <2>4. session_version \in Nat /\ in.op.session_version \in Nat
      BY <1>1, <1>5 DEF Version
    <2>. QED
      BY <1>5, <1>7, <2>1, <2>2, <2>3, <2>4 DEF LoggedIndices
  <1>. QED
    BY <1>4, <1>6, <1>8, <1>9 DEF EngineIInv

LEMMA RejectIInv ==
  ASSUME EngineIInv, NEW in \in Input, NEW snapshot, NEW active,
         NEW projection, Reject(in, snapshot, active, projection)
  PROVE  EngineIInv'
  <1>1. decision' \in [input : Input, error : RuntimeError \cup {"none"},
                       decision_type : DecisionType]
    BY RejectedInput DEF RowType
  <1>2. UNCHANGED <<vars, op_log, processed_message_ids>>
    BY DEF Reject
  <1>3. IInv'
    BY <1>2, StepIInv DEF EngineIInv
  <1>. QED
    BY <1>1, <1>2, <1>3
    DEF EngineIInv, EngineTypeOK, ExactlyOnce, LoggedIndices, vars, IInv

LEMMA EngineStepIInv == EngineIInv /\ [EngineNext]_engineVars => EngineIInv'
  <1>. SUFFICES ASSUME EngineIInv, [EngineNext]_engineVars
                PROVE  EngineIInv'
    OBVIOUS
  <1>1. CASE UNCHANGED engineVars
    <2>1. IInv'
      BY <1>1, StepIInv DEF EngineIInv, engineVars
    <2>. QED
      BY <1>1, <2>1
      DEF engineVars, vars, EngineIInv, EngineTypeOK, ExactlyOnce,
          LoggedIndices, IInv
  <1>2. CASE EngineNext
    BY <1>2, AcceptIInv, RejectIInv DEF EngineNext
  <1>. QED
    BY <1>1, <1>2

(***************************************************************************)
(* The invariant of the engine holds in every reachable state: whatever a  *)
(* message is answered, no part of it is broken.                           *)
(***************************************************************************)
THEOREM EngineInvariant == EngineSpec => []EngineIInv
  BY EngineInitIInv, EngineStepIInv, PTL DEF EngineSpec

(***************************************************************************)
(* The log, the processed ids, the session and the answers keep their      *)
(* types.                                                                  *)
(***************************************************************************)
THEOREM EngineTypeCorrect == EngineSpec => []EngineTypeOK
  BY EngineInvariant, PTL DEF EngineIInv

(***************************************************************************)
(* The log and the processed messages have the same length, come from the  *)
(* same inputs, and neither repeats itself.                                *)
(***************************************************************************)
THEOREM TakesEffectOnce == EngineSpec => []ExactlyOnce
  BY EngineInvariant, PTL DEF EngineIInv

(***************************************************************************)
(* Whoever is told to retry can: the message and its operation have not    *)
(* taken effect.  It is inductive by itself, since a row that advises a    *)
(* retry stands behind both duplicate checks (RejectedInput).              *)
(***************************************************************************)
THEOREM RetryAdvice == EngineSpec => []RetryCanTakeEffect
  <1>1. EngineInit => RetryCanTakeEffect
    BY DEF EngineInit, RetryCanTakeEffect
  <1>2. RetryCanTakeEffect /\ [EngineNext]_engineVars => RetryCanTakeEffect'
    <2>. SUFFICES ASSUME RetryCanTakeEffect, [EngineNext]_engineVars
                  PROVE  RetryCanTakeEffect'
      OBVIOUS
    <2>1. CASE UNCHANGED engineVars
      BY <2>1
      DEF engineVars, RetryCanTakeEffect, IsProcessed, IsLogged
    <2>2. ASSUME NEW in \in Input, NEW snapshot, NEW active, NEW projection,
                 Accept(in, snapshot, active, projection)
          PROVE  RetryCanTakeEffect'
      <3>1. decision'.error = "none"
        BY <2>2 DEF Accept
      <3>. QED
        BY <3>1 DEF RetryCanTakeEffect, ShouldRetry
    <2>3. ASSUME NEW in \in Input, NEW snapshot, NEW active, NEW projection,
                 Reject(in, snapshot, active, projection)
          PROVE  RetryCanTakeEffect'
      <3>1. UNCHANGED <<op_log, processed_message_ids>>
        BY <2>3 DEF Reject
      <3>2. PICK row \in RowType :
              /\ decision' = [input |-> in, error |-> row.error,
                              decision_type |-> row.decision_type]
              /\ ShouldRetry(row.error) =>
                   ~IsProcessed(in.message_id) /\ ~IsLogged(in.op_id)
        BY <2>3, RejectedInput
      <3>. QED
        BY <3>1, <3>2 DEF RetryCanTakeEffect, IsProcessed, IsLogged
    <2>. QED
      BY <2>1, <2>2, <2>3 DEF EngineNext
  <1>. QED
    BY <1>1, <1>2, PTL DEF EngineSpec
-----------------------------------------------------------------------------
(***************************************************************************)
(* The refinement to SessionLog, one step at a time, from the inductive    *)
(* invariant: the version of an accepted operation is at or above the      *)
(* session version (IsCurrent), which is at or above every logged one.     *)
(***************************************************************************)
EntryOf(in) ==
  [message_id |-> in.message_id, op_id |-> in.op_id,
   session_version |-> in.op.session_version]

LoggedEntry(i) ==
  [message_id |-> processed_message_ids[i], op_id |-> op_log[i].op_id,
   session_version |-> op_log[i].op.session_version]

SessionLogOf == [i \in LoggedIndices |-> LoggedEntry(i)]

LEMMA AcceptTakesEffect ==
  ASSUME EngineIInv, NEW in \in Input, NEW snapshot, NEW active,
         NEW projection, Accept(in, snapshot, active, projection)
  PROVE  Log!Next
  <1>1. /\ in.message_id \in EnvelopeId /\ in.op_id \in OpId
        /\ in.op \in Operation /\ in.op.session_version \in Version
    BY InputFields, OperationFields
  <1>2. /\ ~IsProcessed(in.message_id) /\ ~IsLogged(in.op_id)
        /\ session_version <= in.op.session_version
    BY AcceptedInput DEF IsCurrent
  <1>3. /\ op_log' = Append(op_log, [op_id |-> in.op_id, op |-> in.op])
        /\ processed_message_ids' =
             Append(processed_message_ids, in.message_id)
    BY DEF Accept
  <1>4. /\ op_log \in Seq(LogEntry) /\ Len(op_log) \in Nat
        /\ processed_message_ids \in Seq(EnvelopeId)
        /\ Len(processed_message_ids) = Len(op_log)
        /\ session_version \in Version
    BY DEF EngineIInv, EngineTypeOK, ExactlyOnce, IInv, TypeOK
  <1>5. /\ Len(op_log') = Len(op_log) + 1
        /\ op_log'[Len(op_log) + 1] = [op_id |-> in.op_id, op |-> in.op]
        /\ processed_message_ids'[Len(op_log) + 1] = in.message_id
        /\ \A i \in 1 .. Len(op_log) :
             /\ op_log'[i] = op_log[i]
             /\ processed_message_ids'[i] = processed_message_ids[i]
    <2>1. [op_id |-> in.op_id, op |-> in.op] \in LogEntry
      BY <1>1 DEF LogEntry
    <2>. QED
      BY <1>1, <1>3, <1>4, <2>1
  <1>6. \A i \in 1 .. Len(op_log) + 1 :
          LoggedEntry(i)' = IF i \in 1 .. Len(op_log) THEN LoggedEntry(i)
                                                      ELSE EntryOf(in)
    <2>1. \A i \in 1 .. Len(op_log) : LoggedEntry(i)' = LoggedEntry(i)
      BY <1>5 DEF LoggedEntry
    <2>2. ASSUME NEW i, i = Len(op_log) + 1
          PROVE  LoggedEntry(i)' = EntryOf(in)
      <3>1. /\ processed_message_ids'[i] = in.message_id
            /\ op_log'[i] = [op_id |-> in.op_id, op |-> in.op]
        BY <1>5, <2>2
      <3>2. op_log'[i].op_id = in.op_id /\ op_log'[i].op = in.op
        BY <3>1
      <3>. QED
        BY <3>1, <3>2 DEF LoggedEntry, EntryOf
    <2>. QED
      BY <1>4, <2>1, <2>2
  <1>7. SessionLogOf' = Append(SessionLogOf, EntryOf(in))
    <2>. DEFINE L(i) == LoggedEntry(i)
    <2>1. /\ SessionLogOf = [i \in 1 .. Len(op_log) |-> L(i)]
          /\ SessionLogOf' =
               [i \in 1 .. Len(op_log) + 1 |->
                  IF i \in 1 .. Len(op_log) THEN L(i) ELSE EntryOf(in)]
      BY <1>5, <1>6 DEF SessionLogOf, LoggedIndices
    <2>. HIDE DEF L
    <2>2. Append([i \in 1 .. Len(op_log) |-> L(i)], EntryOf(in))
            = [i \in 1 .. Len(op_log) + 1 |->
                 IF i \in 1 .. Len(op_log) THEN L(i) ELSE EntryOf(in)]
      BY <1>4
    <2>. QED
      BY <2>1, <2>2
  <1>8. EntryOf(in) \in Log!Entry
    BY <1>1 DEF EntryOf, Log!Entry
  <1>9. \A i \in 1 .. Len(SessionLogOf) :
          /\ SessionLogOf[i].message_id # EntryOf(in).message_id
          /\ SessionLogOf[i].op_id # EntryOf(in).op_id
          /\ SessionLogOf[i].session_version <= EntryOf(in).session_version
    <2>1. /\ Len(SessionLogOf) = Len(op_log)
          /\ \A i \in 1 .. Len(op_log) : SessionLogOf[i] = LoggedEntry(i)
      BY <1>4 DEF SessionLogOf, LoggedIndices
    <2>2. \A i \in 1 .. Len(op_log) :
            /\ processed_message_ids[i] # in.message_id
            /\ op_log[i].op_id # in.op_id
      BY <1>2, <1>4 DEF IsProcessed, IsLogged, Elements
    <2>3. \A i \in 1 .. Len(op_log) :
            op_log[i].op.session_version <= in.op.session_version
      BY <1>1, <1>2, <1>4, LoggedVersions
      DEF EngineIInv, LoggedIndices, Version
    <2>4. /\ EntryOf(in).message_id = in.message_id
          /\ EntryOf(in).op_id = in.op_id
          /\ EntryOf(in).session_version = in.op.session_version
      BY DEF EntryOf
    <2>5. \A i : /\ LoggedEntry(i).message_id = processed_message_ids[i]
                 /\ LoggedEntry(i).op_id = op_log[i].op_id
                 /\ LoggedEntry(i).session_version
                      = op_log[i].op.session_version
      BY DEF LoggedEntry
    <2>. QED
      BY <2>1, <2>2, <2>3, <2>4, <2>5
  <1>10. Log!TakeEffect(EntryOf(in))
    BY <1>7, <1>9 DEF Log!TakeEffect, SessionLogOf, LoggedEntry
  <1>. QED
    BY <1>8, <1>10 DEF Log!Next

(***************************************************************************)
(* The engine implements the exactly-once log.                             *)
(***************************************************************************)
THEOREM ImplementsLog == EngineSpec => ImplementsSessionLog
  <1>1. EngineInit => Log!Init
    BY DEF EngineInit, Log!Init, LoggedIndices
  <1>2. EngineIInv /\ [EngineNext]_engineVars
          => [Log!Next]_(SessionLogOf)
    <2>. SUFFICES ASSUME EngineIInv, [EngineNext]_engineVars
                  PROVE  Log!Next \/ UNCHANGED SessionLogOf
      OBVIOUS
    <2>1. CASE UNCHANGED <<op_log, processed_message_ids>>
      BY <2>1 DEF SessionLogOf, LoggedEntry, LoggedIndices
    <2>2. CASE UNCHANGED engineVars
      BY <2>1, <2>2 DEF engineVars
    <2>3. CASE EngineNext
      BY <2>1, <2>3, AcceptTakesEffect DEF EngineNext, Reject
    <2>. QED
      BY <2>2, <2>3
  <1>. QED
    BY <1>1, <1>2, EngineInvariant, PTL
    DEF EngineSpec, ImplementsSessionLog, Log!Spec, SessionLogOf, LoggedEntry
-----------------------------------------------------------------------------
(* The log explains the session: how each part of it follows an operation   *)
(* that goes into the log.                                                  *)

\* The log gets one more entry, for op.
Grows(n, op) ==
  /\ n = Len(op_log) /\ Len(op_log') = n + 1
  /\ \A i \in 1 .. n : op_log'[i] = op_log[i]
  /\ op_log'[n + 1].op = op

Unpatched(b) == \A op \in Logged("PatchRange") : op.block_id # b

SealIsLogged(b) ==
  blocks[b].sealed = (\E op \in Logged("SealBlock") : op.block_id = b)

\* Its inductive form: only blocks that exist are sealed, and what was
\* appended is text.
ExplainIInv ==
  /\ LogExplainsSession
  /\ \A op \in Logged("SealBlock") : op.block_id \in DOMAIN blocks
  /\ \A op \in Logged("AppendChunk") : op.payload \in Text
                                       /\ op.append_offset \in Nat

LEMMA LoggedGrows ==
  ASSUME NEW n \in Nat, NEW op, Grows(n, op), NEW t
  PROVE  Logged(t)' = Logged(t) \cup (IF op.op_type = t THEN {op} ELSE {})
  <1>1. /\ LoggedIndices = 1 .. n /\ LoggedIndices' = 1 .. n + 1
        /\ \A i \in 1 .. n : op_log'[i] = op_log[i]
        /\ op_log'[n + 1].op = op
    BY DEF Grows, LoggedIndices
  <1>2. 1 .. n + 1 = (1 .. n) \cup {n + 1}
    OBVIOUS
  <1>3. Logged(t)' = { op_log'[i].op :
                         i \in { j \in 1 .. n + 1 :
                                   op_log'[j].op.op_type = t } }
    BY <1>1 DEF Logged
  <1>4. ASSUME NEW x \in Logged(t)'
        PROVE  x \in Logged(t) \cup (IF op.op_type = t THEN {op} ELSE {})
    <2>1. PICK i \in 1 .. n + 1 : op_log'[i].op.op_type = t
                                  /\ x = op_log'[i].op
      BY <1>3, <1>4
    <2>2. CASE i \in 1 .. n
      BY <1>1, <2>1, <2>2 DEF Logged
    <2>3. CASE i = n + 1
      BY <1>1, <2>1, <2>3
    <2>. QED
      BY <1>2, <2>2, <2>3
  <1>5. ASSUME NEW x \in Logged(t)
        PROVE  x \in Logged(t)'
    <2>1. PICK i \in 1 .. n : op_log[i].op.op_type = t /\ x = op_log[i].op
      BY <1>1, <1>5 DEF Logged
    <2>. QED
      BY <1>1, <1>2, <1>3, <2>1
  <1>6. op.op_type = t => op \in Logged(t)'
    BY <1>1, <1>2, <1>3
  <1>. QED
    BY <1>4, <1>5, <1>6

LEMMA AppendsGrow ==
  ASSUME NEW n \in Nat, NEW op, Grows(n, op), NEW b
  PROVE  /\ Appends(b) \subseteq 1 .. n
         /\ op.op_type = "AppendChunk" /\ op.block_id = b
              => Appends(b)' = Appends(b) \cup {n + 1}
         /\ ~(op.op_type = "AppendChunk" /\ op.block_id = b)
              => Appends(b)' = Appends(b)
  <1>1. /\ LoggedIndices = 1 .. n /\ LoggedIndices' = 1 .. n + 1
        /\ \A i \in 1 .. n : op_log'[i] = op_log[i]
        /\ op_log'[n + 1].op = op
        /\ 1 .. n + 1 = (1 .. n) \cup {n + 1}
    BY DEF Grows, LoggedIndices
  <1>. QED
    BY <1>1 DEF Appends

\* A block the operation does not append to.
LEMMA BlockStaysLogged ==
  ASSUME NEW n \in Nat, NEW op, Grows(n, op), NEW b,
         Appends(b)' = Appends(b)
  PROVE  /\ ChunksAreLogged(b)
              /\ blocks'[b].applied_chunk_ids = blocks[b].applied_chunk_ids
              => ChunksAreLogged(b)'
         /\ TextIsLogged(b) /\ blocks'[b].text = blocks[b].text
              => TextIsLogged(b)'
  <1>1. \A i \in Appends(b) : op_log'[i] = op_log[i]
    BY AppendsGrow DEF Grows
  <1>. QED
    BY <1>1 DEF ChunksAreLogged, TextIsLogged, End

LEMMA AppendedChunkIsLogged ==
  ASSUME EngineIInv, ExplainIInv,
         NEW n \in Nat, NEW op \in Operation, Grows(n, op), AppendChunk(op),
         NEW b, b = op.block_id
  PROVE  ChunksAreLogged(b)'
  <1>. DEFINE ids == BlockOrEmpty(b).applied_chunk_ids
              c == op.chunk_id
  <1>1. /\ op.op_type = "AppendChunk"
        /\ blocks'[b].applied_chunk_ids = Append(ids, c)
    BY DEF AppendChunk, Put
  <1>2. /\ Appends(b)' = Appends(b) \cup {n + 1}
        /\ Appends(b) \subseteq 1 .. n
        /\ \A i \in Appends(b) : op_log'[i] = op_log[i]
        /\ op_log'[n + 1].op = op
    BY ZenonT(60), <1>1, AppendsGrow DEF Grows
  <1>3. /\ ids \in Seq(ChunkId) /\ Len(ids) = Cardinality(Appends(b))
        /\ \A i \in Appends(b) : ids[Cardinality(Appends(b) \cap 1 .. i)]
                                   = op_log[i].op.chunk_id
    <2>1. CASE Exists(b)
      <3>1. ids = blocks[b].applied_chunk_ids /\ b \in DOMAIN blocks
        BY <2>1 DEF BlockOrEmpty, Exists
      <3>2. ChunksAreLogged(b)
        BY <3>1 DEF ExplainIInv, LogExplainsSession
      <3>3. ids \in Seq(ChunkId)
        BY <3>1 DEF EngineIInv, IInv, TypeOK, BlockState
      <3>. QED
        BY <3>1, <3>2, <3>3 DEF ChunksAreLogged
    <2>2. CASE ~Exists(b)
      <3>1. ids = <<>>
        BY <2>2 DEF BlockOrEmpty, EmptyBlock
      <3>2. Appends(b) = {}
        BY <2>2 DEF Exists, ExplainIInv, LogExplainsSession, Appends, Logged
      <3>3. Cardinality({}) = 0
        BY FS_EmptySet
      <3>. QED
        BY <3>1, <3>2, <3>3
    <2>. QED
      BY <2>1, <2>2
  <1>4. IsFiniteSet(Appends(b)) /\ n + 1 \notin Appends(b)
    <2>1. IsFiniteSet(1 .. n)
      BY FS_Interval
    <2>2. n + 1 \notin 1 .. n
      OBVIOUS
    <2>. QED
      BY <1>2, <2>1, <2>2, FS_Subset
  <1>5. c \in ChunkId
    BY <1>1, OperationFields DEF AppendChunkOp
  <1>6. /\ Append(ids, c)[Len(ids) + 1] = c
        /\ Len(Append(ids, c)) = Len(ids) + 1 /\ Len(ids) \in Nat
        /\ \A k \in 1 .. Len(ids) : Append(ids, c)[k] = ids[k]
    BY <1>3, <1>5, AppendProperties, LenProperties
  <1>. HIDE DEF ids, c
  <1>7. Cardinality(Appends(b)') = Len(ids) + 1
    BY ZenonT(60), <1>2, <1>3, <1>4, FS_AddElement
  <1>8. ASSUME NEW i \in Appends(b)
        PROVE  Append(ids, c)[Cardinality(Appends(b)' \cap 1 .. i)]
                 = op_log'[i].op.chunk_id
    <2>1. Appends(b)' \cap 1 .. i = Appends(b) \cap 1 .. i
      BY <1>2, <1>8
    <2>2. Cardinality(Appends(b) \cap 1 .. i) \in 1 .. Len(ids)
      <3>. DEFINE A == Appends(b) \cap 1 .. i
      <3>1. IsFiniteSet(A) /\ Cardinality(A) <= Len(ids)
        BY <1>3, <1>4, FS_Subset
      <3>2. i \in A
        BY <1>2, <1>8
      <3>3. A # {} /\ Cardinality(A) \in Nat
        BY <3>1, <3>2, FS_CardinalityType
      <3>. HIDE DEF A
      <3>4. Cardinality(A) # 0
        BY <3>1, <3>3, FS_EmptySet
      <3>. QED
        BY <1>6, <3>1, <3>3, <3>4 DEF A
    <2>. QED
      BY ZenonT(60), <1>2, <1>3, <1>6, <1>8, <2>1, <2>2
  <1>9. Appends(b)' \cap 1 .. n + 1 = Appends(b)'
    BY <1>2
  <1>10. \A i \in Appends(b)' :
           Append(ids, c)[Cardinality(Appends(b)' \cap 1 .. i)]
             = op_log'[i].op.chunk_id
    <2>1. Append(ids, c)[Cardinality(Appends(b)' \cap 1 .. n + 1)] = c
      BY <1>6, <1>7, <1>9
    <2>2. op_log'[n + 1].op.chunk_id = c
      BY <1>2 DEF c
    <2>. QED
      BY <1>2, <1>8, <2>1, <2>2
  <1>. QED
    BY <1>1, <1>6, <1>7, <1>10 DEF ChunksAreLogged

LEMMA AppendedTextIsLogged ==
  ASSUME EngineIInv, ExplainIInv,
         NEW n \in Nat, NEW op \in Operation, Grows(n, op), AppendChunk(op),
         NEW b, b = op.block_id, Unpatched(b)
  PROVE  TextIsLogged(b)'
  <1>. DEFINE old == BlockOrEmpty(b).text
              new == old \o op.payload
              m == Len(old)
              k == Len(op.payload)
              o(i) == op_log[i].op
  <1>1. /\ op.op_type = "AppendChunk" /\ op.payload \in Text
        /\ op.append_offset = m /\ blocks'[b].text = new
    BY DEF AppendChunk, CanApply, CanAppendChunk, IsInlineText, Put
  <1>2. /\ Appends(b)' = Appends(b) \cup {n + 1}
        /\ Appends(b) \subseteq 1 .. n
        /\ \A i \in Appends(b) : op_log'[i] = op_log[i]
        /\ op_log'[n + 1].op = op
    <2>1. op.op_type = "AppendChunk"
      BY <1>1
    <2>2. /\ Appends(b)' = Appends(b) \cup {n + 1}
          /\ Appends(b) \subseteq 1 .. n
      BY <2>1, AppendsGrow
    <2>. QED
      BY <2>2 DEF Grows
  <1>3. \A i \in Appends(b) :
          o(i).payload \in Text /\ o(i).append_offset \in Nat
    BY DEF ExplainIInv, Appends, Logged
  <1>4. /\ old \in Text
        /\ \A i \in Appends(b) :
             /\ o(i).append_offset + Len(o(i).payload) <= m
             /\ \A p \in 1 .. Len(o(i).payload) :
                  old[o(i).append_offset + p] = o(i).payload[p]
        /\ \A i, j \in Appends(b) : i < j =>
             o(i).append_offset + Len(o(i).payload) <= o(j).append_offset
        /\ \A p \in 1 .. m : \E i \in Appends(b) :
             o(i).append_offset < p
             /\ p <= o(i).append_offset + Len(o(i).payload)
    <2>1. CASE Exists(b)
      <3>1. old = blocks[b].text /\ b \in DOMAIN blocks
        BY <2>1 DEF BlockOrEmpty, Exists
      <3>2. TextIsLogged(b)
        BY <3>1 DEF ExplainIInv, LogExplainsSession, Unpatched
      <3>3. old \in Text
        BY <3>1 DEF EngineIInv, IInv, TypeOK, BlockState
      <3>. QED
        BY <3>1, <3>2, <3>3 DEF TextIsLogged, End
    <2>2. CASE ~Exists(b)
      <3>1. old = <<>>
        BY <2>2 DEF BlockOrEmpty, EmptyBlock
      <3>2. Appends(b) = {}
        BY <2>2 DEF Exists, ExplainIInv, LogExplainsSession, Appends, Logged
      <3>3. <<>> \in Text /\ Len(<<>>) = 0
        BY DEF Text
      <3>. QED
        BY <3>1, <3>2, <3>3
    <2>. QED
      BY <2>1, <2>2
  <1>5. /\ new \in Text /\ Len(new) = m + k /\ m \in Nat /\ k \in Nat
        /\ \A p \in 1 .. m + k :
             new[p] = IF p <= m THEN old[p] ELSE op.payload[p - m]
    <2>1. old \in Seq(CodeUnit) /\ op.payload \in Seq(CodeUnit)
      BY <1>1, <1>4 DEF Text
    <2>2. m \in Nat /\ k \in Nat
      BY <2>1, LenProperties
    <2>. HIDE DEF old
    <2>3. /\ new \in Seq(CodeUnit) /\ Len(new) = m + k
          /\ \A p \in 1 .. m + k :
               new[p] = IF p <= m THEN old[p] ELSE op.payload[p - m]
      BY <2>1, ConcatProperties
    <2>. QED
      BY <2>2, <2>3 DEF Text
  <1>6. \A i \in Appends(b) : Len(o(i).payload) \in Nat
    BY <1>3, LenProperties DEF Text
  <1>. HIDE DEF old, new, m, k
  <1>7. ASSUME NEW i \in Appends(b)'
        PROVE  /\ End(op_log'[i].op) <= m + k
               /\ \A p \in 1 .. Len(op_log'[i].op.payload) :
                    new[op_log'[i].op.append_offset + p]
                      = op_log'[i].op.payload[p]
    <2>1. CASE i \in Appends(b)
      <3>. DEFINE a == o(i).append_offset
                  l == Len(o(i).payload)
      <3>1. op_log'[i].op = o(i) /\ a \in Nat /\ l \in Nat /\ a + l <= m
            /\ \A p \in 1 .. l : old[a + p] = o(i).payload[p]
        BY <1>2, <1>3, <1>4, <1>6, <2>1
      <3>. HIDE DEF a, l
      <3>2. \A p \in 1 .. l : new[a + p] = o(i).payload[p]
        BY <1>5, <3>1
      <3>3. a + l <= m + k
        BY <1>5, <3>1
      <3>. QED
        BY <3>1, <3>2, <3>3 DEF End, a, l
    <2>2. CASE i = n + 1
      <3>1. op_log'[i].op = op
        BY <1>2, <2>2
      <3>2. \A p \in 1 .. k : new[m + p] = op.payload[p]
        BY <1>5
      <3>. QED
        BY <1>1, <1>5, <3>1, <3>2 DEF End, k
    <2>. QED
      BY <1>2, <1>7, <2>1, <2>2
  <1>8. ASSUME NEW i \in Appends(b)', NEW j \in Appends(b)', i < j
        PROVE  End(op_log'[i].op) <= op_log'[j].op.append_offset
    <2>1. i \in Appends(b)
      BY <1>2, <1>8
    <2>2. CASE j \in Appends(b)
      BY <1>2, <1>4, <1>8, <2>1, <2>2 DEF End
    <2>3. CASE j = n + 1
      BY <1>1, <1>2, <1>4, <2>1, <2>3 DEF End
    <2>. QED
      BY <1>2, <1>8, <2>2, <2>3
  <1>9. ASSUME NEW p \in 1 .. m + k
        PROVE  \E i \in Appends(b)' :
                 op_log'[i].op.append_offset < p /\ p <= End(op_log'[i].op)
    <2>1. CASE p \in 1 .. m
      <3>1. PICK i \in Appends(b) :
              o(i).append_offset < p
              /\ p <= o(i).append_offset + Len(o(i).payload)
        BY <1>4, <2>1
      <3>2. i \in Appends(b)' /\ op_log'[i].op = o(i)
        BY <1>2
      <3>. QED
        BY <3>1, <3>2 DEF End
    <2>2. CASE p > m
      <3>1. n + 1 \in Appends(b)' /\ op_log'[n + 1].op = op
        BY <1>2
      <3>2. op.append_offset < p /\ p <= End(op)
        BY <1>1, <1>5, <1>9, <2>2 DEF End, k
      <3>. QED
        BY <3>1, <3>2
    <2>. QED
      BY <1>5, <1>9, <2>1, <2>2
  <1>. QED
    BY <1>1, <1>5, <1>7, <1>8, <1>9 DEF TextIsLogged

\* What holds of a block the operation does not touch.
LEMMA OtherBlocksStayLogged ==
  ASSUME ExplainIInv, NEW n \in Nat, NEW op, Grows(n, op),
         NEW b \in DOMAIN blocks, blocks'[b] = blocks[b],
         op.op_type = "AppendChunk" => op.block_id # b,
         op.op_type = "SealBlock" => op.block_id # b
  PROVE  /\ ChunksAreLogged(b)' /\ SealIsLogged(b)'
         /\ Unpatched(b)' => TextIsLogged(b)'
  <1>1. /\ ChunksAreLogged(b) /\ SealIsLogged(b)
        /\ Unpatched(b) => TextIsLogged(b)
    BY DEF ExplainIInv, LogExplainsSession, SealIsLogged, Unpatched
  <1>2. Appends(b)' = Appends(b)
    BY AppendsGrow
  <1>3. SealIsLogged(b)'
    <2>1. (\E x \in Logged("SealBlock")' : x.block_id = b)
            <=> (\E x \in Logged("SealBlock") : x.block_id = b)
      BY LoggedGrows
    <2>. QED
      BY <1>1, <2>1, Zenon DEF SealIsLogged
  <1>4. Unpatched(b)' => Unpatched(b)
    BY LoggedGrows DEF Unpatched
  <1>. QED
    BY <1>1, <1>2, <1>3, <1>4, BlockStaysLogged

\* The parts of LogExplainsSession that an accepted operation does not touch
\* stay as they are, and it adds its own.
LEMMA BlocksExplained ==
  ASSUME EngineIInv, ExplainIInv, NEW n \in Nat, NEW op \in Operation,
         Grows(n, op), Apply(op)
  PROVE  /\ DOMAIN blocks' = { x.block_id : x \in Logged("AppendChunk")' }
         /\ DOMAIN blocks \subseteq DOMAIN blocks'
         /\ op.op_type = "SealBlock" => op.block_id \in DOMAIN blocks
         /\ op.op_type = "AppendChunk" => op.payload \in Text
                                          /\ op.append_offset \in Nat
         /\ \A b \in DOMAIN blocks' :
              /\ ChunksAreLogged(b)' /\ SealIsLogged(b)'
              /\ Unpatched(b)' => TextIsLogged(b)'
  <1>1. DOMAIN blocks = { x.block_id : x \in Logged("AppendChunk") }
    BY DEF ExplainIInv, LogExplainsSession
  <1>2. CASE AppendChunk(op)
    <2>. DEFINE b == op.block_id
    <2>1. /\ op.op_type = "AppendChunk" /\ op.payload \in Text
          /\ DOMAIN blocks' = DOMAIN blocks \cup {b}
          /\ blocks'[b].sealed = FALSE /\ ~BlockOrEmpty(b).sealed
          /\ \A x \in DOMAIN blocks \ {b} : blocks'[x] = blocks[x]
      BY <1>2 DEF AppendChunk, CanApply, CanAppendChunk, IsInlineText, Put
    <2>2. DOMAIN blocks' = { x.block_id : x \in Logged("AppendChunk")' }
      BY <1>1, <2>1, LoggedGrows
    <2>3. op.append_offset \in Nat
      BY <2>1, OperationFields DEF AppendChunkOp, Offset
    <2>4. ChunksAreLogged(b)'
      BY <1>2, AppendedChunkIsLogged
    <2>5. Unpatched(b)' => TextIsLogged(b)'
      <3>1. Unpatched(b)' => Unpatched(b)
        BY LoggedGrows DEF Unpatched
      <3>. QED
        BY <1>2, <3>1, AppendedTextIsLogged
    <2>6. SealIsLogged(b)'
      <3>1. ~ \E x \in Logged("SealBlock") : x.block_id = b
        <4>1. CASE Exists(b)
          <5>1. ~blocks[b].sealed /\ b \in DOMAIN blocks
            BY <2>1, <4>1 DEF BlockOrEmpty, Exists
          <5>2. SealIsLogged(b)
            BY <5>1 DEF ExplainIInv, LogExplainsSession, SealIsLogged
          <5>. QED
            BY <5>1, <5>2, Zenon DEF SealIsLogged
        <4>2. CASE ~Exists(b)
          BY <4>2 DEF Exists, ExplainIInv
        <4>. QED
          BY <4>1, <4>2
      <3>2. Logged("SealBlock")' = Logged("SealBlock")
        <4>1. Logged("SealBlock")' = Logged("SealBlock") \cup {}
          BY <2>1, LoggedGrows
        <4>. QED
          BY <4>1
      <3>3. ~ \E x \in Logged("SealBlock")' : x.block_id = b
        BY <3>1, <3>2
      <3>. QED
        BY <2>1, <3>3, Zenon DEF SealIsLogged
    <2>7. ASSUME NEW x \in DOMAIN blocks \ {b}
          PROVE  /\ ChunksAreLogged(x)' /\ SealIsLogged(x)'
                 /\ Unpatched(x)' => TextIsLogged(x)'
      BY <2>1, <2>7, OtherBlocksStayLogged
    <2>. HIDE DEF b
    <2>. QED
      BY <2>1, <2>2, <2>3, <2>4, <2>5, <2>6, <2>7
  <1>3. CASE SealBlock(op)
    <2>. DEFINE b == op.block_id
    <2>1. /\ op.op_type = "SealBlock" /\ b \in DOMAIN blocks
          /\ DOMAIN blocks' = DOMAIN blocks
          /\ blocks' = [blocks EXCEPT ![b].sealed = TRUE]
      BY <1>3 DEF SealBlock, CanApply, CanSealBlock, Exists
    <2>2. blocks[b] \in BlockState
      BY <2>1 DEF EngineIInv, IInv, TypeOK
    <2>3. /\ blocks'[b].sealed = TRUE /\ blocks'[b].text = blocks[b].text
          /\ blocks'[b].applied_chunk_ids = blocks[b].applied_chunk_ids
          /\ \A x \in DOMAIN blocks \ {b} : blocks'[x] = blocks[x]
      BY <2>1, <2>2, Zenon DEF BlockState
    <2>4. DOMAIN blocks' = { x.block_id : x \in Logged("AppendChunk")' }
      BY <1>1, <2>1, LoggedGrows
    <2>5. SealIsLogged(b)'
      <3>1. op \in Logged("SealBlock")'
        BY <2>1, LoggedGrows
      <3>. QED
        BY <2>3, <3>1, Zenon DEF SealIsLogged
    <2>6. ChunksAreLogged(b)' /\ (Unpatched(b)' => TextIsLogged(b)')
      <3>1. Appends(b)' = Appends(b)
        BY <2>1, AppendsGrow
      <3>2. Unpatched(b)' => Unpatched(b)
        BY LoggedGrows DEF Unpatched
      <3>3. ChunksAreLogged(b) /\ (Unpatched(b) => TextIsLogged(b))
        BY <2>1 DEF ExplainIInv, LogExplainsSession, Unpatched
      <3>. QED
        BY <2>3, <3>1, <3>2, <3>3, BlockStaysLogged
    <2>7. ASSUME NEW x \in DOMAIN blocks \ {b}
          PROVE  /\ ChunksAreLogged(x)' /\ SealIsLogged(x)'
                 /\ Unpatched(x)' => TextIsLogged(x)'
      BY <2>1, <2>3, <2>7, OtherBlocksStayLogged
    <2>. HIDE DEF b
    <2>8. op.op_type # "AppendChunk"
      BY <2>1
    <2>. QED
      BY <2>1, <2>4, <2>5, <2>6, <2>7, <2>8 DEF b
  <1>4. CASE PatchRange(op)
    <2>. DEFINE b == op.block_id
    <2>1. /\ op.op_type = "PatchRange" /\ b \in DOMAIN blocks
          /\ DOMAIN blocks' = DOMAIN blocks
          /\ blocks' = [blocks EXCEPT ![b].text = PatchedText(op)]
      BY <1>4 DEF PatchRange, CanApply, CanPatchRange, Exists
    <2>2. blocks[b] \in BlockState
      BY <2>1 DEF EngineIInv, IInv, TypeOK
    <2>. DEFINE patched == PatchedText(op)
    <2>. HIDE DEF patched
    <2>3. /\ blocks'[b].sealed = blocks[b].sealed
          /\ blocks'[b].applied_chunk_ids = blocks[b].applied_chunk_ids
          /\ \A x \in DOMAIN blocks \ {b} : blocks'[x] = blocks[x]
      BY <2>1, <2>2, Zenon DEF BlockState, patched
    <2>4. DOMAIN blocks' = { x.block_id : x \in Logged("AppendChunk")' }
      BY <1>1, <2>1, LoggedGrows
    <2>5. SealIsLogged(b)'
      <3>1. SealIsLogged(b)
        BY <2>1 DEF ExplainIInv, LogExplainsSession, SealIsLogged
      <3>2. (\E x \in Logged("SealBlock")' : x.block_id = b)
              <=> (\E x \in Logged("SealBlock") : x.block_id = b)
        BY <2>1, LoggedGrows
      <3>. QED
        BY <2>3, <3>1, <3>2, Zenon DEF SealIsLogged
    <2>6. ChunksAreLogged(b)' /\ ~Unpatched(b)'
      <3>1. Appends(b)' = Appends(b)
        BY <2>1, AppendsGrow
      <3>2. op \in Logged("PatchRange")'
        BY <2>1, LoggedGrows
      <3>3. ChunksAreLogged(b)
        BY <2>1 DEF ExplainIInv, LogExplainsSession
      <3>. QED
        BY <2>3, <3>1, <3>2, <3>3, BlockStaysLogged DEF Unpatched
    <2>7. ASSUME NEW x \in DOMAIN blocks \ {b}
          PROVE  /\ ChunksAreLogged(x)' /\ SealIsLogged(x)'
                 /\ Unpatched(x)' => TextIsLogged(x)'
      BY <2>1, <2>3, <2>7, OtherBlocksStayLogged
    <2>8. op.op_type # "AppendChunk" /\ op.op_type # "SealBlock"
      BY <2>1
    <2>. HIDE DEF b
    <2>. QED
      BY <2>1, <2>4, <2>5, <2>6, <2>7, <2>8
  <1>5. CASE AddMessage(op) \/ StateNoOp(op)
    <2>1. /\ blocks' = blocks /\ op.op_type # "AppendChunk"
          /\ op.op_type # "SealBlock"
      BY <1>5 DEF AddMessage, StateNoOp, NoOpTypes
    <2>2. DOMAIN blocks' = { x.block_id : x \in Logged("AppendChunk")' }
      BY <1>1, <2>1, LoggedGrows
    <2>3. ASSUME NEW b \in DOMAIN blocks
          PROVE  /\ ChunksAreLogged(b)' /\ SealIsLogged(b)'
                 /\ Unpatched(b)' => TextIsLogged(b)'
      BY <2>1, <2>3, OtherBlocksStayLogged
    <2>. QED
      BY <2>1, <2>2, <2>3
  <1>. QED
    BY <1>2, <1>3, <1>4, <1>5 DEF Apply

LEMMA MessagesExplained ==
  ASSUME ExplainIInv, NEW n \in Nat, NEW op \in Operation,
         Grows(n, op), Apply(op)
  PROVE  /\ DOMAIN messages' = { x.message_id : x \in Logged("AddMessage")' }
         /\ \A x \in Logged("AddMessage")' :
              messages'[x.message_id] = x.block_ids
  <1>1. /\ DOMAIN messages = { x.message_id : x \in Logged("AddMessage") }
        /\ \A x \in Logged("AddMessage") :
             messages[x.message_id] = x.block_ids
    BY DEF ExplainIInv, LogExplainsSession
  <1>2. CASE AddMessage(op)
    <2>1. /\ op.op_type = "AddMessage" /\ op.message_id \notin DOMAIN messages
          /\ messages' = Put(messages, op.message_id, op.block_ids)
      BY <1>2 DEF AddMessage, CanApply, CanAddMessage
    <2>2. Logged("AddMessage")' = Logged("AddMessage") \cup {op}
      BY <2>1, LoggedGrows
    <2>. QED
      BY <1>1, <2>1, <2>2 DEF Put
  <1>3. CASE ~AddMessage(op)
    <2>1. messages' = messages /\ op.op_type # "AddMessage"
      BY <1>3 DEF Apply, AppendChunk, SealBlock, PatchRange, StateNoOp,
                  NoOpTypes
    <2>2. Logged("AddMessage")' = Logged("AddMessage")
      <3>1. Logged("AddMessage")' = Logged("AddMessage") \cup {}
        BY <2>1, LoggedGrows
      <3>. QED
        BY <3>1
    <2>. QED
      BY <1>1, <2>1, <2>2
  <1>. QED
    BY <1>2, <1>3

LEMMA AcceptExplains ==
  ASSUME EngineIInv, ExplainIInv, NEW in \in Input, NEW snapshot, NEW active,
         NEW projection, Accept(in, snapshot, active, projection)
  PROVE  ExplainIInv'
  <1>. DEFINE op == in.op
              entry == [op_id |-> in.op_id, op |-> op]
  <1>1. op \in Operation /\ Apply(op) /\ IsCurrent(op) /\ entry \in LogEntry
    BY AcceptedInput, InputFields DEF LogEntry
  <1>2. op_log' = Append(op_log, entry)
    BY DEF Accept
  <1>3. op_log \in Seq(LogEntry) /\ session_version \in Version
    BY DEF EngineIInv, EngineTypeOK, IInv, TypeOK
  <1>4. entry.op = op
    OBVIOUS
  <1>. HIDE DEF op, entry
  <1>5. PICK n \in Nat : n = Len(op_log)
    BY <1>3, LenProperties
  <1>6. Grows(n, op) /\ op_log' # <<>>
    <2>1. /\ op_log' \in Seq(LogEntry) /\ Len(op_log') = n + 1
          /\ \A i \in 1 .. n : op_log'[i] = op_log[i]
          /\ op_log'[n + 1] = entry
      BY <1>1, <1>2, <1>3, <1>5, AppendProperties
    <2>2. op_log' # <<>>
      BY <2>1, EmptySeq
    <2>. QED
      BY <1>4, <1>5, <2>1, <2>2 DEF Grows
  <1>7. session_version' = op_log'[Len(op_log')].op.session_version
    BY <1>1, <1>3, <1>6, VersionAfter DEF Grows
  <1>8. /\ DOMAIN messages' = { x.message_id : x \in Logged("AddMessage")' }
        /\ \A x \in Logged("AddMessage")' :
             messages'[x.message_id] = x.block_ids
    BY <1>1, <1>6, MessagesExplained
  <1>9. /\ DOMAIN blocks' = { x.block_id : x \in Logged("AppendChunk")' }
        /\ DOMAIN blocks \subseteq DOMAIN blocks'
        /\ op.op_type = "SealBlock" => op.block_id \in DOMAIN blocks
        /\ op.op_type = "AppendChunk" => op.payload \in Text
                                         /\ op.append_offset \in Nat
        /\ \A b \in DOMAIN blocks' :
             /\ ChunksAreLogged(b)' /\ SealIsLogged(b)'
             /\ Unpatched(b)' => TextIsLogged(b)'
    BY <1>1, <1>6, BlocksExplained
  <1>10. LogExplainsSession'
    BY <1>6, <1>7, <1>8, <1>9, Zenon
    DEF LogExplainsSession, SealIsLogged, Unpatched
  <1>11. \A x \in Logged("SealBlock")' : x.block_id \in DOMAIN blocks'
    BY <1>6, <1>9, LoggedGrows DEF ExplainIInv
  <1>12. \A x \in Logged("AppendChunk")' : x.payload \in Text
                                           /\ x.append_offset \in Nat
    BY <1>6, <1>9, LoggedGrows DEF ExplainIInv
  <1>. QED
    BY <1>10, <1>11, <1>12 DEF ExplainIInv

(***************************************************************************)
(* The session is what its log says, for logs of every length: the version *)
(* is the one of the last operation, a message has the blocks it was added *)
(* with, a block is there when a chunk was appended to it, with the chunks *)
(* in the order of the log, sealed when the log seals it, and the text of  *)
(* a block that was never patched is its payloads one behind the other.    *)
(***************************************************************************)
THEOREM LogExplains == EngineSpec => []LogExplainsSession
  <1>1. EngineInit => ExplainIInv
    <2>. SUFFICES ASSUME EngineInit PROVE ExplainIInv
      OBVIOUS
    <2>1. /\ op_log = <<>> /\ session_version = InitialVersion
          /\ blocks = <<>> /\ messages = <<>>
      BY DEF EngineInit, Init
    <2>2. \A t : Logged(t) = {}
      BY <2>1 DEF Logged, LoggedIndices
    <2>. QED
      BY <2>1, <2>2 DEF ExplainIInv, LogExplainsSession
  <1>2. ExplainIInv /\ EngineIInv /\ [EngineNext]_engineVars => ExplainIInv'
    <2>. SUFFICES ASSUME ExplainIInv, EngineIInv, [EngineNext]_engineVars
                  PROVE  ExplainIInv'
      OBVIOUS
    <2>1. ASSUME NEW in \in Input, NEW snapshot, NEW active, NEW projection,
                 Accept(in, snapshot, active, projection)
          PROVE  ExplainIInv'
      BY <2>1, AcceptExplains
    <2>2. ASSUME UNCHANGED <<vars, op_log>>
          PROVE  ExplainIInv'
      <3>1. /\ session_version' = session_version /\ op_log' = op_log
            /\ messages' = messages /\ blocks' = blocks
        BY <2>2 DEF vars
      <3>2. /\ \A t : Logged(t)' = Logged(t)
            /\ \A b : Appends(b)' = Appends(b)
        BY <3>1 DEF Logged, LoggedIndices, Appends
      <3>3. \A b : /\ ChunksAreLogged(b)' <=> ChunksAreLogged(b)
                   /\ TextIsLogged(b)' <=> TextIsLogged(b)
        BY <3>1, <3>2 DEF ChunksAreLogged, TextIsLogged
      <3>4. LogExplainsSession' <=> LogExplainsSession
        BY <3>1, <3>2, <3>3, Zenon DEF LogExplainsSession
      <3>. QED
        BY <3>1, <3>2, <3>4 DEF ExplainIInv
    <2>3. ASSUME NEW in \in Input, NEW snapshot, NEW active, NEW projection,
                 Reject(in, snapshot, active, projection)
          PROVE  ExplainIInv'
      BY <2>2, <2>3 DEF Reject
    <2>4. CASE UNCHANGED engineVars
      BY <2>2, <2>4 DEF engineVars
    <2>. QED
      BY <2>1, <2>3, <2>4 DEF EngineNext
  <1>3. ExplainIInv => LogExplainsSession
    BY DEF ExplainIInv
  <1>. QED
    BY <1>1, <1>2, <1>3, EngineInvariant, PTL DEF EngineSpec
-----------------------------------------------------------------------------
(* The worker.                                                             *)

USE MessageAssumption

LEMMA PostedFields ==
  ASSUME NEW m \in Posted
  PROVE  /\ m.input \in Input
         /\ m.payload_serializable \in BOOLEAN
  BY DEF MessageType

\* A step of the worker is one of these.
LEMMA WorkerSteps ==
  ASSUME WorkerNext
  PROVE  \E m \in Posted :
           \/ RejectBeforeCore(m)
           \/ \E snapshot \in Snapshot, active \in Lane \cup {NoLane},
                 projection \in Projection \cup {NoProjection} :
                ProcessMessage(m, snapshot, active, projection)
  BY DEF WorkerNext

\* Every theorem about EngineSpec holds of a worker.
LEMMA WorkerRunsEngine == WorkerSpec => EngineSpec
  <1>1. WorkerInit => EngineInit
    BY DEF WorkerInit
  <1>2. [WorkerNext]_workerVars => [EngineNext]_engineVars
    <2>1. ASSUME NEW m \in Posted, RejectBeforeCore(m)
          PROVE  UNCHANGED engineVars
      BY <2>1 DEF RejectBeforeCore
    <2>2. ASSUME NEW m \in Posted, NEW snapshot \in Snapshot,
                 NEW active \in Lane \cup {NoLane},
                 NEW projection \in Projection \cup {NoProjection},
                 ProcessMessage(m, snapshot, active, projection)
          PROVE  EngineNext
      BY <2>2, PostedFields DEF ProcessMessage, EngineNext
    <2>. QED
      BY <2>1, <2>2, WorkerSteps DEF workerVars
  <1>. QED
    BY <1>1, <1>2, PTL DEF WorkerSpec, EngineSpec
-----------------------------------------------------------------------------
CounterIInv ==
  /\ CountersFit
  /\ accepted_message_count \in Nat
  /\ rejected_message_count \in Nat

\* Whether the engine took the message shows in its error and in its log.
LEMMA AnswerShowsLog ==
  ASSUME EngineIInv, NEW in \in Input, NEW snapshot, NEW active,
         NEW projection
  PROVE  /\ Accept(in, snapshot, active, projection) =>
              decision'.error = "none" /\ Len(op_log') = Len(op_log) + 1
         /\ Reject(in, snapshot, active, projection) =>
              decision'.error # "none" /\ Len(op_log') = Len(op_log)
  <1>1. ASSUME Accept(in, snapshot, active, projection)
        PROVE  decision'.error = "none" /\ Len(op_log') = Len(op_log) + 1
    <2>1. op_log \in Seq(LogEntry) /\ Len(op_log) \in Nat
      BY DEF EngineIInv, EngineTypeOK
    <2>. QED
      BY <1>1, <2>1 DEF Accept
  <1>2. ASSUME Reject(in, snapshot, active, projection)
        PROVE  decision'.error # "none" /\ Len(op_log') = Len(op_log)
    BY <1>2, RejectedRow DEF Reject
  <1>. QED
    BY <1>1, <1>2

LEMMA CounterInit == WorkerInit => CounterIInv
  BY DEF WorkerInit, EngineInit, CounterIInv, CountersFit

LEMMA CounterStep ==
  ASSUME CounterIInv, EngineIInv, [WorkerNext]_workerVars
  PROVE  CounterIInv'
  <1>. USE DEF CounterIInv, CountersFit
  <1>1. ASSUME NEW m \in Posted, RejectBeforeCore(m)
        PROVE  CounterIInv'
    BY <1>1 DEF RejectBeforeCore, CountMessage, engineVars
  <1>2. ASSUME NEW m \in Posted, NEW snapshot \in Snapshot,
               NEW active \in Lane \cup {NoLane},
               NEW projection \in Projection \cup {NoProjection},
               ProcessMessage(m, snapshot, active, projection)
        PROVE  CounterIInv'
    <2>1. \/ decision'.error = "none" /\ Len(op_log') = Len(op_log) + 1
          \/ decision'.error # "none" /\ Len(op_log') = Len(op_log)
      BY <1>2, PostedFields, AnswerShowsLog DEF ProcessMessage
    <2>2. CountMessage(decision'.error = "none")
      BY <1>2 DEF ProcessMessage
    <2>. QED
      BY <2>1, <2>2 DEF CountMessage
  <1>3. CASE UNCHANGED workerVars
    BY <1>3 DEF workerVars, counters, engineVars
  <1>. QED
    BY <1>1, <1>2, <1>3, WorkerSteps

LEMMA CountersAlwaysFit == WorkerSpec => []CountersFit
  <1>1. WorkerSpec => []EngineIInv
    BY WorkerRunsEngine, EngineInvariant, PTL
  <1>2. CounterIInv => CountersFit
    BY DEF CounterIInv
  <1>. QED
    BY <1>1, <1>2, CounterInit, CounterStep, PTL DEF WorkerSpec

(***************************************************************************)
(* The counters of a worker agree with the log of its engine, with every   *)
(* answer it gives (worker-context.ts:33, worker-message-handler.ts:108).  *)
(***************************************************************************)
THEOREM CountersAgree == WorkerSpec => []CountersExplainLog
  <1>1. CountersFit => CountersExplainLog
    BY DEF CountersExplainLog
  <1>. QED
    BY <1>1, CountersAlwaysFit, PTL
-----------------------------------------------------------------------------
\* A well-formed message that has been processed is refused at the second
\* check, before load, active transaction and projection are looked at.
LEMMA ProcessedRejection ==
  ASSUME NEW in \in Input, NEW snapshot, NEW active, NEW projection,
         in.envelope_error = "none", IsProcessed(in.message_id),
         Reject(in, snapshot, active, projection)
  PROVE  decision'.error = "DuplicateMessageId"
  <1>. DEFINE checks == Checks(in, snapshot, active, projection)
  <1>1. PICK i \in 1 .. 12 :
          /\ ~checks[i].passed
          /\ \A j \in 1 .. i - 1 : checks[j].passed
          /\ decision' = [input |-> in, error |-> checks[i].error,
                          decision_type |-> checks[i].decision_type]
    BY RejectedRow
  <1>2. /\ IntakeTable(in)[1].passed
        /\ ~IntakeTable(in)[2].passed
        /\ IntakeTable(in)[2].error = "DuplicateMessageId"
    BY DEF IntakeTable, Check
  <1>3. checks[1] = IntakeTable(in)[1] /\ checks[2] = IntakeTable(in)[2]
    BY ChecksRows
  <1>. HIDE DEF checks
  <1>4. i = 2
    BY <1>1, <1>2, <1>3
  <1>. QED
    BY <1>1, <1>2, <1>3, <1>4

(***************************************************************************)
(* A message that has taken effect is acknowledged when it comes again,    *)
(* whatever the pressure, the active transaction and the projection are.   *)
(***************************************************************************)
THEOREM RedeliveryAnswer == WorkerSpec => RedeliveryAcknowledged
  <1>. DEFINE answer == last_decision'
  <1>1. ASSUME [WorkerNext]_workerVars,
               processed_message_count' # processed_message_count,
               IsProcessed(answer.message.input.message_id),
               EnvelopeError(answer.message) = "none"
        PROVE  /\ answer.recovery # NoRecovery
               /\ answer.recovery.action = "idempotent-ack"
    <2>1. ASSUME NEW m \in Posted, RejectBeforeCore(m)
          PROVE  FALSE
      BY <1>1, <2>1 DEF RejectBeforeCore, Report
    <2>2. PICK m \in Posted, snapshot \in Snapshot,
               active \in Lane \cup {NoLane},
               projection \in Projection \cup {NoProjection} :
            ProcessMessage(m, snapshot, active, projection)
      BY <1>1, <2>1, WorkerSteps DEF workerVars, counters
    <2>3. answer = Report(m, decision'.decision_type, decision'.error)
      BY <2>2 DEF ProcessMessage
    <2>4. m.input.envelope_error = "none" /\ IsProcessed(m.input.message_id)
      BY <1>1, <2>3 DEF Report, EnvelopeError
    <2>5. Reject(m.input, snapshot, active, projection)
      BY <2>2, <2>4, PostedFields, AcceptedInput DEF ProcessMessage
    <2>6. decision'.error = "DuplicateMessageId"
      BY <2>4, <2>5, PostedFields, ProcessedRejection
    <2>7. answer.recovery =
            [action |-> GetRecoveryAction("DuplicateMessageId",
                          RecoveryContext(decision'.decision_type)),
             retry |-> ShouldRetry("DuplicateMessageId")]
      BY <2>3, <2>6 DEF Report, Recovery
    <2>8. \A context :
            GetRecoveryAction("DuplicateMessageId", context) = "idempotent-ack"
      BY DEF GetRecoveryAction
    <2>9. [action |-> "idempotent-ack",
           retry |-> ShouldRetry("DuplicateMessageId")]
            \in [action : RecoveryAction, retry : BOOLEAN]
      BY DEF RecoveryAction, ShouldRetry
    <2>. QED
      BY <2>7, <2>8, <2>9
  <1>2. [WorkerNext]_workerVars =>
          [processed_message_count' # processed_message_count =>
             LET a == last_decision' IN
             IsProcessed(a.message.input.message_id)
               /\ EnvelopeError(a.message) = "none"
               => /\ a.recovery # NoRecovery
                  /\ a.recovery.action = "idempotent-ack"]_workerVars
    BY <1>1
  <1>. QED
    BY <1>2, PTL DEF WorkerSpec, RedeliveryAcknowledged
-----------------------------------------------------------------------------
\* No projection is refused because of the load or as a repetition.
LEMMA ProjectionNotLoad ==
  ASSUME NEW p, NEW current, NEW bounds
  PROVE  /\ ProjectionError(p, current, bounds) # "BackpressureLimitExceeded"
         /\ ProjectionError(p, current, bounds) # "DuplicateMessageId"
  <1>1. CASE bounds = NoBounds
    BY <1>1 DEF ProjectionError
  <1>2. CASE bounds # NoBounds
    <2>. DEFINE table == CommitTable(p, current, bounds)
    <2>1. CASE AllPass(table)
      BY <1>2, <2>1, ProjectionErrorRow
    <2>2. CASE ~AllPass(table)
      <3>1. PICK i \in 1 .. 9 :
              ProjectionError(p, current, bounds) = table[i].error
        BY <1>2, <2>2, ProjectionErrorRow
      <3>2. /\ \A j \in 1 .. 5 :
                 BoundsTable(p, bounds)[j].error # "BackpressureLimitExceeded"
            /\ ChecksumTable(p, bounds)[1].error # "BackpressureLimitExceeded"
            /\ \A j \in 1 .. 3 :
                 VersionTable(p, current, bounds)[j].error
                   # "BackpressureLimitExceeded"
        BY DEF BoundsTable, ChecksumTable, VersionTable
      <3>2a. /\ \A j \in 1 .. 5 :
                  BoundsTable(p, bounds)[j].error # "DuplicateMessageId"
             /\ ChecksumTable(p, bounds)[1].error # "DuplicateMessageId"
             /\ \A j \in 1 .. 3 :
                  VersionTable(p, current, bounds)[j].error
                    # "DuplicateMessageId"
        BY DEF BoundsTable, ChecksumTable, VersionTable
      <3>3. /\ \A j \in 1 .. 5 : table[j] = BoundsTable(p, bounds)[j]
            /\ table[6] = ChecksumTable(p, bounds)[1]
            /\ \A j \in 1 .. 3 :
                 table[6 + j] = VersionTable(p, current, bounds)[j]
        BY CommitRows
      <3>. HIDE DEF table
      <3>4. \/ i \in 1 .. 5
            \/ i = 6
            \/ i - 6 \in 1 .. 3 /\ i = 6 + (i - 6)
        OBVIOUS
      <3>5. table[i].error # "BackpressureLimitExceeded"
        BY <3>2, <3>3, <3>4
      <3>6. table[i].error # "DuplicateMessageId"
        BY <3>2a, <3>3, <3>4
      <3>. QED
        BY <3>1, <3>5, <3>6
    <2>. QED
      BY <2>1, <2>2
  <1>. QED
    BY <1>1, <1>2

-----------------------------------------------------------------------------
\* Only a duplicate is answered with an acknowledgement.
LEMMA OnlyDuplicates ==
  ASSUME NEW error \in RuntimeError, NEW context,
         GetRecoveryAction(error, context) = "idempotent-ack"
  PROVE  error = "DuplicateMessageId"
  BY DEF RuntimeError, GetRecoveryAction

\* The only checks that find one compare with the processed ids and, in the
\* state store, with the messages of the session.
LEMMA DuplicateRow ==
  ASSUME NEW in \in Input, NEW snapshot, NEW active, NEW projection,
         Reject(in, snapshot, active, projection),
         decision'.error = "DuplicateMessageId"
  PROVE  \/ IsProcessed(in.message_id)
         \/ /\ in.op.op_type = "AddMessage"
            /\ in.op.message_id \in DOMAIN messages
  <1>. DEFINE checks == Checks(in, snapshot, active, projection)
              intake == IntakeTable(in)
              admission == AdmissionTable(in, snapshot, active, projection)
              twice == "DuplicateMessageId"
  <1>1. PICK i \in 1 .. 12 :
          /\ ~checks[i].passed
          /\ decision' = [input |-> in, error |-> checks[i].error,
                          decision_type |-> checks[i].decision_type]
    BY RejectedRow
  <1>2. /\ \A j \in 1 .. 5 : checks[j] = intake[j]
        /\ \A j \in 1 .. 6 : checks[5 + j] = admission[j]
        /\ checks[12] = StoreTable(in.op)[1]
    BY ChecksRows
  <1>3. \A j \in {1, 3, 4, 5} : intake[j].error # twice
    <2>1. in.envelope_error # twice /\ OperationError(in) # twice
      BY DEF InputType, FormError, OperationError
    <2>. QED
      BY <2>1 DEF IntakeTable, Check
  <1>4. \A j \in 1 .. 6 : admission[j].error # twice
    <2>1. ProjectionCheck(projection).error # twice
      BY ProjectionNotLoad DEF ProjectionCheck, Check
    <2>. QED
      BY <2>1 DEF AdmissionTable, Check
  <1>5. intake[2].passed <=> ~IsProcessed(in.message_id)
    BY DEF IntakeTable, Check
  <1>6. StoreTable(in.op)[1].error = twice =>
          /\ in.op.op_type = "AddMessage"
          /\ in.op.message_id \in DOMAIN messages
    BY DEF StoreTable, StoreError, Check
  <1>. HIDE DEF checks, intake, admission
  <1>7. checks[i].error = twice
    BY <1>1
  <1>8. \/ i \in {1, 3, 4, 5} \/ i = 2 \/ i = 12
        \/ i - 5 \in 1 .. 6 /\ i = 5 + (i - 5)
    OBVIOUS
  <1>9. i = 2 \/ i = 12
    BY <1>2, <1>3, <1>4, <1>7, <1>8
  <1>10. CASE i = 2
    <2>1. ~intake[2].passed /\ checks[2] = intake[2]
      BY <1>1, <1>2, <1>10
    <2>. QED
      BY <1>5, <2>1
  <1>11. CASE i = 12
    <2>1. StoreTable(in.op)[1].error = twice
      BY <1>2, <1>7, <1>11
    <2>. QED
      BY <1>6, <2>1
  <1>. QED
    BY <1>9, <1>10, <1>11

(***************************************************************************)
(* A worker acknowledges only what is there: an operation under that       *)
(* message id in the log, or the message that was to be added.             *)
(***************************************************************************)
THEOREM AcknowledgedIs == WorkerSpec => []AcknowledgedIsThere
  <1>. DEFINE Acknowledged(a) ==
                /\ a # NoDecision /\ a.recovery # NoRecovery
                /\ a.recovery.action = "idempotent-ack"
  <1>1. WorkerSpec => []EngineIInv
    BY WorkerRunsEngine, EngineInvariant, PTL
  <1>2. WorkerInit => AcknowledgedIsThere
    BY DEF WorkerInit, AcknowledgedIsThere
  <1>3. ASSUME EngineIInv, AcknowledgedIsThere, [WorkerNext]_workerVars
        PROVE  AcknowledgedIsThere'
    <2>1. ASSUME NEW m \in Posted, RejectBeforeCore(m)
          PROVE  ~Acknowledged(last_decision')
      <3>1. EnvelopeError(m) \in RuntimeError \ {"DuplicateMessageId"}
        <4>1. m.input \in InputType
          BY PostedFields, InputAssumption
        <4>2. m.input.envelope_error \in FormError \cup {"none"}
          BY <4>1 DEF InputType
        <4>3. EnvelopeError(m) # "none"
          BY <2>1 DEF RejectBeforeCore
        <4>. QED
          BY <4>2, <4>3 DEF EnvelopeError, FormError, RuntimeError
      <3>2. last_decision'.recovery =
              [action |-> GetRecoveryAction(EnvelopeError(m),
                            RecoveryContext("reject-envelope")),
               retry |-> ShouldRetry(EnvelopeError(m))]
        BY <2>1 DEF RejectBeforeCore, Report, Recovery
      <3>. QED
        BY <3>1, <3>2, OnlyDuplicates
    <2>2. ASSUME NEW m \in Posted, NEW snapshot \in Snapshot,
                 NEW active \in Lane \cup {NoLane},
                 NEW projection \in Projection \cup {NoProjection},
                 ProcessMessage(m, snapshot, active, projection),
                 Acknowledged(last_decision')
          PROVE  \/ \E i \in LoggedIndices' :
                      processed_message_ids'[i] = m.input.message_id
                 \/ /\ m.input.op.op_type = "AddMessage"
                    /\ m.input.op.message_id \in DOMAIN messages'
      <3>1. last_decision' = Report(m, decision'.decision_type,
                                    decision'.error)
        BY <2>2 DEF ProcessMessage
      <3>2. /\ decision'.error # "none"
            /\ GetRecoveryAction(decision'.error,
                 RecoveryContext(decision'.decision_type)) = "idempotent-ack"
        BY <2>2, <3>1 DEF Report, Recovery
      <3>3. Reject(m.input, snapshot, active, projection)
        BY <2>2, <3>2 DEF ProcessMessage, Accept
      <3>4. decision'.error \in RuntimeError
        <4>1. m.input \in Input
          BY PostedFields
        <4>2. PICK i \in 1 .. 12 :
                LET checks == Checks(m.input, snapshot, active, projection)
                IN /\ decision'.error = checks[i].error
                   /\ checks[i] \in RowType
          BY <3>3, <4>1, RejectedRow
        <4>. QED
          BY <3>2, <4>2 DEF RowType
      <3>5. \/ IsProcessed(m.input.message_id)
            \/ /\ m.input.op.op_type = "AddMessage"
               /\ m.input.op.message_id \in DOMAIN messages
        BY <3>2, <3>3, <3>4, PostedFields, OnlyDuplicates, DuplicateRow
      <3>6. UNCHANGED <<messages, op_log, processed_message_ids>>
        BY <3>3 DEF Reject, vars
      <3>7. IsProcessed(m.input.message_id) =>
              \E i \in LoggedIndices :
                 processed_message_ids[i] = m.input.message_id
        BY <1>3 DEF EngineIInv, ExactlyOnce, LoggedIndices, IsProcessed,
                    Elements
      <3>. QED
        BY <3>5, <3>6, <3>7 DEF LoggedIndices
    <2>3. ASSUME NEW m \in Posted, NEW snapshot \in Snapshot,
                 NEW active \in Lane \cup {NoLane},
                 NEW projection \in Projection \cup {NoProjection},
                 ProcessMessage(m, snapshot, active, projection)
          PROVE  AcknowledgedIsThere'
      <3>1. last_decision'.message = m
        BY <2>3 DEF ProcessMessage, Report
      <3>. QED
        BY <2>2, <2>3, <3>1 DEF AcknowledgedIsThere
    <2>4. CASE UNCHANGED workerVars
      BY <1>3, <2>4 DEF workerVars, engineVars, vars, AcknowledgedIsThere,
                        LoggedIndices
    <2>. QED
      BY <1>3, <2>1, <2>3, <2>4, WorkerSteps DEF AcknowledgedIsThere
  <1>. QED
    BY <1>1, <1>2, <1>3, PTL DEF WorkerSpec
-----------------------------------------------------------------------------
\* Limits under which an idle worker admits something.
RoomForOne ==
  /\ Limits.max_pending_transactions \in Nat \ {0}
  /\ Limits.max_pending_bytes \in Nat
  /\ Limits.max_uncommitted_projection_count \in Nat \ {0}

\* Everything before the state store, once the load is gone.
IdleChecks(in) ==
  IntakeTable(in) \o AdmissionTable(in, IdleSnapshot, NoLane, NoProjection)

\* The only checks that advise a retry are those of the load and of the
\* projection; every other check before the state store has passed or comes
\* to pass in the idle context.
LEMMA RetryRow ==
  ASSUME NEW in \in Input, NEW snapshot, NEW active, NEW projection,
         Reject(in, snapshot, active, projection),
         ShouldRetry(decision'.error)
  PROVE  /\ \A j \in 1 .. 5 : IntakeTable(in)[j].passed
         /\ \A j \in 1 .. 3 :
              AdmissionTable(in, snapshot, active, projection)[j].passed
  <1>. DEFINE checks == Checks(in, snapshot, active, projection)
              admission == AdmissionTable(in, snapshot, active, projection)
  <1>1. PICK i \in 1 .. 12 :
          /\ \A j \in 1 .. i - 1 : checks[j].passed
          /\ decision' = [input |-> in, error |-> checks[i].error,
                          decision_type |-> checks[i].decision_type]
    BY RejectedRow
  <1>2. \A j \in 1 .. 5 : ~ShouldRetry(checks[j].error)
    BY RowContents
  <1>3. \A j \in 1 .. 3 : ~ShouldRetry(admission[j].error)
    BY DEF AdmissionTable, Check, ShouldRetry
  <1>4. /\ \A j \in 1 .. 5 : checks[j] = IntakeTable(in)[j]
        /\ \A j \in 1 .. 6 : checks[5 + j] = admission[j]
    BY ChecksRows
  <1>. HIDE DEF checks, admission
  <1>5. ShouldRetry(checks[i].error)
    BY <1>1
  <1>6. i > 8
    <2>1. ASSUME i \in 6 .. 8 PROVE FALSE
      <3>1. i - 5 \in 1 .. 3 /\ 5 + (i - 5) = i
        BY <2>1
      <3>. QED
        BY <1>3, <1>4, <1>5, <3>1
    <2>2. i \notin 1 .. 5
      BY <1>2, <1>5
    <2>. QED
      BY <2>1, <2>2
  <1>7. \A j \in 1 .. 8 : checks[j].passed
    BY <1>1, <1>6
  <1>8. \A j \in 1 .. 3 : 5 + j \in 1 .. 8
    OBVIOUS
  <1>. QED
    BY <1>4, <1>7, <1>8 DEF admission

LEMMA IdlePasses ==
  ASSUME NEW in \in Input, NEW snapshot, NEW active, NEW projection,
         RoomForOne,
         \A j \in 1 .. 5 : IntakeTable(in)[j].passed,
         \A j \in 1 .. 3 :
           AdmissionTable(in, snapshot, active, projection)[j].passed
  PROVE  AllPass(IdleChecks(in))
  <1>. DEFINE A == IntakeTable(in)
              B == AdmissionTable(in, IdleSnapshot, NoLane, NoProjection)
  <1>1. A \in Seq(RowType) /\ B \in Seq(RowType)
    BY TableTypes
  <1>2. Len(A) = 5 /\ Len(B) = 6
    BY TableTypes
  <1>3. B[1].passed /\ B[2].passed /\ B[3].passed
    BY DEF AdmissionTable, Check
  <1>4. B[4].passed
    <2>1. CanAdmitTransaction(LaneOnly(PriorityOf(in)), IdleSnapshot, Limits)
      BY DEF CanAdmitTransaction, ProjectionFits, RoomForTransaction,
             RoomForBytes, RoomForProjection, LaneOnly, IdleSnapshot,
             RoomForOne
    <2>. QED
      BY <2>1 DEF AdmissionTable, Check
  <1>5. B[5].passed
    BY DEF AdmissionTable, Check, SchedulerDecision, ShouldAdmitTransaction
  <1>6. B[6].passed
    BY DEF AdmissionTable, ProjectionCheck, Check
  <1>. HIDE DEF A, B
  <1>7. /\ Len(A \o B) = Len(A) + Len(B)
        /\ \A i \in 1 .. Len(A) : (A \o B)[i] = A[i]
        /\ \A i \in 1 .. Len(B) : (A \o B)[Len(A) + i] = B[i]
    BY <1>1, ConcatAt
  <1>8. ASSUME NEW i \in 1 .. 11
        PROVE  (A \o B)[i].passed
    <2>1. CASE i <= 5
      BY SMTT(30), <1>2, <1>7, <2>1 DEF A
    <2>2. CASE i > 5
      <3>1. PICK j \in 1 .. 6 : i = 5 + j
        <4>1. i - 5 \in 1 .. 6 /\ i = 5 + (i - 5)
          BY <2>2
        <4>. QED
          BY <4>1
      <3>2. B[j].passed
        BY <1>3, <1>4, <1>5, <1>6
      <3>. QED
        BY <1>2, <1>7, <3>1, <3>2
    <2>3. i <= 5 \/ i > 5
      OBVIOUS
    <2>. QED
      BY <2>1, <2>2, <2>3, Zenon
  <1>9. Len(A \o B) = 11
    BY <1>2, <1>7
  <1>. QED
    BY <1>8, <1>9 DEF AllPass, IdleChecks, A, B

\* Where the session and the log stay the same, so do the checks.
LEMMA SameChecks ==
  ASSUME NEW CONSTANT in, UNCHANGED <<vars, op_log, processed_message_ids>>
  PROVE  AllPass(IdleChecks(in))' <=> AllPass(IdleChecks(in))
  <1>1. /\ IsProcessed(in.message_id)' = IsProcessed(in.message_id)
        /\ IsLogged(in.op_id)' = IsLogged(in.op_id)
        /\ IsCurrent(in.op)' = IsCurrent(in.op)
        /\ ProjectionCheck(NoProjection)' = ProjectionCheck(NoProjection)
    BY DEF vars, IsProcessed, IsLogged, IsCurrent, ProjectionCheck
  <1>2. /\ IntakeTable(in)' = IntakeTable(in)
        /\ AdmissionTable(in, IdleSnapshot, NoLane, NoProjection)'
             = AdmissionTable(in, IdleSnapshot, NoLane, NoProjection)
    BY <1>1 DEF IntakeTable, AdmissionTable
  <1>. QED
    BY <1>2 DEF IdleChecks, AllPass

(***************************************************************************)
(* If the limits leave room for one transaction, a message whose sender is *)
(* advised to send it again passes every check up to the state store once  *)
(* the load is gone and it comes without its projection.                   *)
(***************************************************************************)
THEOREM RetryLeadsSomewhere ==
  ASSUME RoomForOne
  PROVE  WorkerSpec => []AdvisedRetryLeadsSomewhere
  <1>. DEFINE Advised(a) ==
                a # NoDecision /\ a.recovery # NoRecovery /\ a.recovery.retry
  <1>1. WorkerInit => AdvisedRetryLeadsSomewhere
    BY DEF WorkerInit, AdvisedRetryLeadsSomewhere
  <1>2. ASSUME AdvisedRetryLeadsSomewhere, [WorkerNext]_workerVars
        PROVE  AdvisedRetryLeadsSomewhere'
    <2>1. ASSUME NEW m \in Posted, RejectBeforeCore(m)
          PROVE  ~Advised(last_decision')
      <3>1. EnvelopeError(m) # "none" /\ ~ShouldRetry(EnvelopeError(m))
        <4>1. m.input \in InputType
          BY PostedFields, InputAssumption
        <4>2. m.input.envelope_error \in FormError \cup {"none"}
          BY <4>1 DEF InputType
        <4>3. EnvelopeError(m) # "none"
          BY <2>1 DEF RejectBeforeCore
        <4>. QED
          BY <4>2, <4>3 DEF EnvelopeError, FormError, ShouldRetry
      <3>. QED
        BY <2>1, <3>1 DEF RejectBeforeCore, Report, Recovery
    <2>2. ASSUME NEW m \in Posted, NEW snapshot \in Snapshot,
                 NEW active \in Lane \cup {NoLane},
                 NEW projection \in Projection \cup {NoProjection},
                 ProcessMessage(m, snapshot, active, projection),
                 Advised(last_decision')
          PROVE  AllPass(IdleChecks(m.input))'
      <3>1. last_decision' = Report(m, decision'.decision_type,
                                    decision'.error)
        BY <2>2 DEF ProcessMessage
      <3>2. decision'.error # "none" /\ ShouldRetry(decision'.error)
        BY <2>2, <3>1 DEF Report, Recovery
      <3>3. Reject(m.input, snapshot, active, projection)
        BY <2>2, <3>2 DEF ProcessMessage, Accept
      <3>4. AllPass(IdleChecks(m.input))
        BY <3>2, <3>3, PostedFields, RetryRow, IdlePasses
      <3>5. UNCHANGED <<vars, op_log, processed_message_ids>>
        BY <3>3 DEF Reject
      <3>. QED
        BY <3>4, <3>5, SameChecks
    <2>3. CASE UNCHANGED workerVars
      <3>1. /\ UNCHANGED <<vars, op_log, processed_message_ids>>
            /\ last_decision' = last_decision
        BY <2>3 DEF workerVars, engineVars
      <3>. QED
        BY <1>2, <3>1, SameChecks DEF AdvisedRetryLeadsSomewhere, IdleChecks
    <2>4. ASSUME NEW m \in Posted, NEW snapshot \in Snapshot,
                 NEW active \in Lane \cup {NoLane},
                 NEW projection \in Projection \cup {NoProjection},
                 ProcessMessage(m, snapshot, active, projection)
          PROVE  AdvisedRetryLeadsSomewhere'
      <3>1. last_decision'.message = m
        BY <2>4 DEF ProcessMessage, Report
      <3>. QED
        BY <2>2, <2>4, <3>1 DEF AdvisedRetryLeadsSomewhere, IdleChecks
    <2>. QED
      BY <1>2, <2>1, <2>3, <2>4, WorkerSteps DEF AdvisedRetryLeadsSomewhere
  <1>. QED
    BY <1>1, <1>2, PTL DEF WorkerSpec
-----------------------------------------------------------------------------
(* A scenario.                                                             *)

\* What a step of a scenario does is done by the worker.
LEMMA StepOfScenario ==
  ASSUME NEW s \in ScenarioStep, RunStep(s)
  PROVE  /\ \/ RejectBeforeCore(s.message)
            \/ ProcessMessage(s.message, s.snapshot, s.active, s.projection)
         /\ s.message \in Posted /\ s.snapshot \in Snapshot
         /\ s.active \in Lane \cup {NoLane}
         /\ s.projection \in Projection \cup {NoProjection}
  BY ScenarioAssumption DEF RunStep, Worker

(***************************************************************************)
(* A scenario is one behaviour of the worker, whatever its steps are and   *)
(* whatever the main thread answers: all that is proved of the worker      *)
(* holds in it (in-memory-session-scenario.ts:75-80).                      *)
(***************************************************************************)
THEOREM ScenarioRunsTheWorker == ScenarioSpec => WorkerSpec
  <1>1. ScenarioInit => WorkerInit
    BY DEF ScenarioInit
  <1>2. [ScenarioNext]_scenarioVars => [WorkerNext]_workerVars
    <2>1. ASSUME NEW s \in ScenarioStep, RunStep(s)
          PROVE  WorkerNext
      BY <2>1, StepOfScenario DEF WorkerNext
    <2>. QED
      BY <2>1 DEF ScenarioNext, scenarioVars
  <1>. QED
    BY <1>1, <1>2, PTL DEF ScenarioSpec, WorkerSpec

\* How many of the first n steps the worker accepted.
Count(n) == Cardinality(AcceptedSteps(n))

ScenarioIInv ==
  /\ \E S : step_results \in Seq(S)
  /\ Count(Len(step_results)) = Len(op_log)
  /\ \A i \in AcceptedSteps(Len(step_results)) :
       Count(i) \in 1 .. Len(op_log) /\ IsInItsPlace(i)
  /\ stop_on_reject =>
       \A i \in 1 .. Len(step_results) :
         Rejected(step_results[i]) => i = Len(step_results) /\ done

LEMMA AcceptedStepsFinite ==
  ASSUME NEW n \in Nat
  PROVE  IsFiniteSet(AcceptedSteps(n)) /\ Count(n) \in Nat
  <1>1. IsFiniteSet(1 .. n)
    BY FS_Interval
  <1>2. AcceptedSteps(n) \subseteq 1 .. n
    BY DEF AcceptedSteps
  <1>. QED
    BY <1>1, <1>2, FS_Subset, FS_CardinalityType DEF Count

LEMMA ScenarioInductive ==
  ASSUME ScenarioIInv, EngineIInv, [ScenarioNext]_scenarioVars
  PROVE  ScenarioIInv'
  <1>1. PICK S : step_results \in Seq(S)
    BY DEF ScenarioIInv
  <1>2. PICK n \in Nat : n = Len(step_results)
    BY <1>1, LenProperties
  <1>3. ASSUME NEW s \in ScenarioStep, RunStep(s)
        PROVE  ScenarioIInv'
    <2>. DEFINE r == StepResult(s)
                in == s.message.input
                entry == [op_id |-> in.op_id, op |-> in.op]
    <2>1. /\ ~done /\ step_results' = Append(step_results, r)
          /\ done' = (stop_on_reject /\ Rejected(r))
          /\ stop_on_reject' = stop_on_reject
      BY <1>3 DEF RunStep
    <2>2. /\ r.step = s /\ r.worker = last_decision'.error
      BY DEF StepResult
    <2>3. \/ r.worker = "none" /\ op_log' = Append(op_log, entry)
          \/ r.worker # "none" /\ op_log' = op_log
      <3>1. CASE RejectBeforeCore(s.message)
        BY <2>2, <3>1 DEF RejectBeforeCore, Report, engineVars
      <3>2. CASE ProcessMessage(s.message, s.snapshot, s.active,
                                s.projection)
        <4>1. last_decision'.error = decision'.error
          BY <3>2 DEF ProcessMessage, Report
        <4>2. in \in Input
          BY <1>3, StepOfScenario, PostedFields
        <4>3. CASE Accept(in, s.snapshot, s.active, s.projection)
          BY <2>2, <4>1, <4>3 DEF Accept
        <4>4. CASE Reject(in, s.snapshot, s.active, s.projection)
          BY <2>2, <4>1, <4>2, <4>4, AnswerShowsLog DEF Reject
        <4>. QED
          BY <3>2, <4>3, <4>4 DEF ProcessMessage
      <3>. QED
        BY <1>3, <3>1, <3>2, StepOfScenario
    <2>. HIDE DEF r, in, entry
    <2>4. /\ step_results' \in Seq(S \cup {r}) /\ Len(step_results') = n + 1
          /\ \A i \in 1 .. n : step_results'[i] = step_results[i]
          /\ step_results'[n + 1] = r
      <3>1. step_results \in Seq(S \cup {r})
        BY <1>1
      <3>. QED
        BY <1>2, <2>1, <3>1, AppendProperties
    <2>5. \A i \in 1 .. n : AcceptedSteps(i)' = AcceptedSteps(i)
      BY <1>2, <2>4 DEF AcceptedSteps
    <2>6. \A i \in 1 .. n : Count(i)' = Count(i)
      BY <2>5 DEF Count
    <2>7. AcceptedSteps(n + 1)' =
            AcceptedSteps(n) \cup (IF r.worker = "none" THEN {n + 1} ELSE {})
      <3>1. AcceptedSteps(n + 1)' =
              { i \in 1 .. n + 1 : step_results'[i].worker = "none" }
        BY DEF AcceptedSteps
      <3>2. \A i \in 1 .. n + 1 : i \in 1 .. n \/ i = n + 1
        BY <1>2
      <3>3. n + 1 \in 1 .. n + 1 /\ 1 .. n \subseteq 1 .. n + 1
        BY <1>2
      <3>4. CASE r.worker = "none"
        BY <2>4, <3>1, <3>2, <3>3, <3>4 DEF AcceptedSteps
      <3>5. CASE r.worker # "none"
        BY <2>4, <3>1, <3>2, <3>3, <3>5 DEF AcceptedSteps
      <3>. QED
        BY <3>4, <3>5
    <2>8. Count(n + 1)' = IF r.worker = "none" THEN Count(n) + 1 ELSE Count(n)
      <3>1. IsFiniteSet(AcceptedSteps(n)) /\ n + 1 \notin AcceptedSteps(n)
        BY <1>2, AcceptedStepsFinite DEF AcceptedSteps
      <3>2. AcceptedSteps(n) \cup {} = AcceptedSteps(n)
        OBVIOUS
      <3>. QED
        BY <2>7, <3>1, <3>2, FS_AddElement DEF Count
    <2>9. /\ Count(n) = Len(op_log) /\ Len(op_log) \in Nat
          /\ op_log \in Seq(LogEntry)
      BY <1>2 DEF ScenarioIInv, EngineIInv, EngineTypeOK
    <2>10. /\ Count(n + 1)' = Len(op_log')
           /\ Len(op_log') >= Len(op_log) /\ Len(op_log') \in Nat
           /\ \A k \in 1 .. Len(op_log) : op_log'[k] = op_log[k]
           /\ r.worker = "none" => op_log'[Count(n + 1)'] = entry
                                   /\ Count(n + 1)' \in 1 .. Len(op_log')
      BY <2>3, <2>8, <2>9
    <2>11. ASSUME NEW i \in AcceptedSteps(n + 1)'
           PROVE  Count(i)' \in 1 .. Len(op_log') /\ IsInItsPlace(i)'
      <3>1. CASE i \in AcceptedSteps(n)
        <4>1. i \in 1 .. n
          BY <3>1 DEF AcceptedSteps
        <4>2. /\ Count(i) \in 1 .. Len(op_log) /\ IsInItsPlace(i)
              /\ Count(i)' = Count(i)
              /\ step_results'[i] = step_results[i]
          BY <1>2, <2>4, <2>6, <3>1, <4>1 DEF ScenarioIInv
        <4>3. op_log'[Count(i)] = op_log[Count(i)]
          BY <2>10, <4>2
        <4>4. Count(i)' \in 1 .. Len(op_log')
          BY <2>9, <2>10, <4>2
        <4>. QED
          BY <4>2, <4>3, <4>4 DEF IsInItsPlace, Count
      <3>2. CASE i = n + 1 /\ r.worker = "none"
        <4>1. step_results'[n + 1].step.message.input = in
          BY <2>2, <2>4 DEF in
        <4>2. IsInItsPlace(n + 1)'
          BY <2>10, <3>2, <4>1 DEF IsInItsPlace, Count, entry
        <4>. QED
          BY <2>10, <3>2, <4>2
      <3>. QED
        BY <2>7, <2>11, <3>1, <3>2
    <2>12. ASSUME stop_on_reject, NEW i \in 1 .. n + 1,
                  Rejected(step_results'[i])
           PROVE  i = n + 1 /\ done'
      <3>1. CASE i \in 1 .. n
        BY <1>2, <2>1, <2>4, <2>12, <3>1 DEF ScenarioIInv
      <3>2. CASE i = n + 1
        BY <2>1, <2>4, <2>12, <3>2
      <3>. QED
        BY <1>2, <2>12, <3>1, <3>2
    <2>13. \E T : step_results' \in Seq(T)
      BY <2>4
    <2>. QED
      <3>1. Count(Len(step_results))' = Len(op_log')
        BY <2>4, <2>10
      <3>2. \A i \in AcceptedSteps(Len(step_results))' :
              Count(i)' \in 1 .. Len(op_log') /\ IsInItsPlace(i)'
        BY <2>4, <2>11
      <3>3. (stop_on_reject =>
               \A i \in 1 .. Len(step_results) :
                 Rejected(step_results[i])
                   => i = Len(step_results) /\ done)'
        BY <2>1, <2>4, <2>12 DEF Rejected
      <3>. QED
        BY <2>13, <3>1, <3>2, <3>3 DEF ScenarioIInv
  <1>4. CASE UNCHANGED scenarioVars
    BY <1>4 DEF scenarioVars, workerVars, engineVars, ScenarioIInv, Count,
                AcceptedSteps, IsInItsPlace, Rejected
  <1>. QED
    BY <1>3, <1>4 DEF ScenarioNext

(***************************************************************************)
(* The log of the worker is the accepted steps of the scenario in their    *)
(* order, with those whose projection the main thread refused, the summary *)
(* counts them, and a scenario that stops on a rejection stops at its      *)
(* first one (in-memory-session-scenario.ts:75-80, 112-125).               *)
(***************************************************************************)
THEOREM LogOfScenario == ScenarioSpec => []LogIsTheAcceptedSteps
  <1>1. ScenarioSpec => []EngineIInv /\ []CountersFit
    BY ScenarioRunsTheWorker, CountersAlwaysFit, WorkerRunsEngine,
       EngineInvariant, PTL
  <1>2. ScenarioInit => ScenarioIInv
    <2>. SUFFICES ASSUME ScenarioInit PROVE ScenarioIInv
      OBVIOUS
    <2>1. step_results = <<>> /\ op_log = <<>>
      BY DEF ScenarioInit, WorkerInit, EngineInit
    <2>2. AcceptedSteps(0) = {}
      BY DEF AcceptedSteps
    <2>3. Count(0) = 0
      BY <2>2, FS_EmptySet DEF Count
    <2>4. <<>> \in Seq({})
      OBVIOUS
    <2>. QED
      BY <2>1, <2>2, <2>3, <2>4 DEF ScenarioIInv
  <1>3. ScenarioIInv /\ EngineIInv /\ [ScenarioNext]_scenarioVars
          => ScenarioIInv'
    BY ScenarioInductive
  <1>4. ScenarioIInv /\ CountersFit => LogIsTheAcceptedSteps
    <2>. SUFFICES ASSUME ScenarioIInv, CountersFit
                  PROVE  LogIsTheAcceptedSteps
      OBVIOUS
    <2>1. Len(step_results) \in Nat
      BY LenProperties DEF ScenarioIInv
    <2>2. StopsAtItsRejection
      BY <2>1 DEF ScenarioIInv, StopsAtItsRejection, Rejected
    <2>. QED
      BY <2>2 DEF ScenarioIInv, LogIsTheAcceptedSteps, CountersFit,
                  AcceptedWorkerCount, FinalOpLogCount, Count
  <1>. QED
    BY <1>1, <1>2, <1>3, <1>4, PTL DEF ScenarioSpec
-----------------------------------------------------------------------------
(***************************************************************************)
(* The trace of a decision is a path: the first stages, all passed, and    *)
(* then one last stage.                                                    *)
(***************************************************************************)
StageName ==
  {"envelope-validation", "operation-validation", "op-log-append",
   "transaction-creation", "transaction-validation", "backpressure-check",
   "scheduler-admission", "projection-policy", "final-decision"}

StepType ==
  [stage : StageName, status : {"pass", "fail"},
   error : RuntimeError \cup {"none"}]

\* The first k stages, passed.
IsPassed(steps, k) ==
  /\ steps \in Seq(StepType)
  /\ Len(steps) = k
  /\ \A i \in 1 .. k : steps[i] = Step(DecisionStage[i], "none")

\* After the first k stages the m-th one, with its error.
IsPath(steps, k, m, error) ==
  /\ steps \in Seq(StepType)
  /\ Len(steps) = k + 1
  /\ \A i \in 1 .. k : steps[i] = Step(DecisionStage[i], "none")
  /\ steps[k + 1] = Step(DecisionStage[m], error)

LEMMA Stages ==
  /\ DecisionStage \in Seq(StageName) /\ Len(DecisionStage) = 9
  /\ IntakeStages \in Seq(StageName) /\ Len(IntakeStages) = 5
  /\ CoreStages \in Seq(StageName) /\ Len(CoreStages) = 3
  /\ \A i \in 1 .. 5 : DecisionStage[i] = IntakeStages[i]
  /\ \A i \in 1 .. 3 : DecisionStage[5 + i] = CoreStages[i]
  /\ DecisionStage[9] = "final-decision"
  <1>. DEFINE A == IntakeStages
              B == CoreStages
              C == <<"final-decision">>
  <1>1. A \in Seq(StageName) /\ Len(A) = 5
    BY DEF IntakeStages, StageName
  <1>2. B \in Seq(StageName) /\ Len(B) = 3
    BY DEF CoreStages, StageName
  <1>3. C \in Seq(StageName) /\ Len(C) = 1 /\ C[1] = "final-decision"
    BY DEF StageName
  <1>4. DecisionStage = (A \o B) \o C
    BY DEF DecisionStage
  <1>. HIDE DEF A, B, C
  <1>. DEFINE abc == (A \o B) \o C
  <1>5. /\ abc \in Seq(StageName)
        /\ Len(abc) = Len(A) + Len(B) + Len(C)
        /\ \A i \in 1 .. Len(A) : abc[i] = A[i]
        /\ \A i \in 1 .. Len(B) : abc[Len(A) + i] = B[i]
        /\ \A i \in 1 .. Len(C) : abc[Len(A) + Len(B) + i] = C[i]
    <2>1. A \in Seq(StageName) /\ B \in Seq(StageName) /\ C \in Seq(StageName)
      BY <1>1, <1>2, <1>3
    <2>. QED
      BY <2>1, ThreeTables
  <1>. HIDE DEF abc
  <1>6. Len(abc) = 9 /\ abc[9] = C[1]
    <2>1. 1 \in 1 .. Len(C) /\ Len(A) + Len(B) + 1 = 9
      BY <1>1, <1>2, <1>3
    <2>. QED
      BY <1>1, <1>2, <1>3, <1>5, <2>1
  <1>7. \A i \in 1 .. 5 : abc[i] = A[i]
    BY <1>1, <1>5
  <1>8. \A i \in 1 .. 3 : abc[5 + i] = B[i]
    BY <1>1, <1>2, <1>5
  <1>9. DecisionStage = abc
    BY <1>4 DEF abc
  <1>. QED
    BY <1>1, <1>2, <1>3, <1>5, <1>6, <1>7, <1>8, <1>9 DEF A, B

LEMMA StageNames ==
  /\ DecisionStage[1] = "envelope-validation"
  /\ DecisionStage[2] = "operation-validation"
  /\ DecisionStage[3] = "op-log-append"
  /\ DecisionStage[4] = "transaction-creation"
  /\ DecisionStage[5] = "transaction-validation"
  /\ DecisionStage[6] = "backpressure-check"
  /\ DecisionStage[7] = "scheduler-admission"
  /\ DecisionStage[8] = "projection-policy"
  /\ DecisionStage[9] = "final-decision"
  <1>1. /\ IntakeStages[1] = "envelope-validation"
        /\ IntakeStages[2] = "operation-validation"
        /\ IntakeStages[3] = "op-log-append"
        /\ IntakeStages[4] = "transaction-creation"
        /\ IntakeStages[5] = "transaction-validation"
    BY DEF IntakeStages
  <1>2. /\ CoreStages[1] = "backpressure-check"
        /\ CoreStages[2] = "scheduler-admission"
        /\ CoreStages[3] = "projection-policy"
    BY DEF CoreStages
  <1>3. \A i \in 1 .. 5 : DecisionStage[i] = IntakeStages[i]
    BY Stages
  <1>4. \A i \in 1 .. 3 : DecisionStage[5 + i] = CoreStages[i]
    BY Stages
  <1>5. /\ DecisionStage[6] = CoreStages[1]
        /\ DecisionStage[7] = CoreStages[2]
        /\ DecisionStage[8] = CoreStages[3]
    <2>1. /\ DecisionStage[5 + 1] = CoreStages[1]
          /\ DecisionStage[5 + 2] = CoreStages[2]
          /\ DecisionStage[5 + 3] = CoreStages[3]
      BY <1>4
    <2>. QED
      BY <2>1
  <1>. QED
    BY <1>1, <1>2, <1>3, <1>5, Stages

\* No stage comes twice.
LEMMA StageIndices ==
  ASSUME NEW i \in 1 .. 9
  PROVE  StageIndex(DecisionStage[i]) = i
  <1>1. DOMAIN DecisionStage = 1 .. 9
    BY Stages
  <1>2. \A j, k \in 1 .. 9 : DecisionStage[j] = DecisionStage[k] => j = k
    BY StageNames
  <1>3. StageIndex(DecisionStage[i]) =
          CHOOSE j \in 1 .. 9 : DecisionStage[j] = DecisionStage[i]
    BY <1>1 DEF StageIndex
  <1>. QED
    BY <1>2, <1>3

LEMMA StepIsTyped ==
  ASSUME NEW i \in 1 .. 9, NEW error \in RuntimeError \cup {"none"}
  PROVE  Step(DecisionStage[i], error) \in StepType
  <1>1. DecisionStage[i] \in StageName
    BY Stages, ElementOfSeq
  <1>. QED
    BY <1>1 DEF Step, StepType

\* Passing some more stages, and ending at one.
LEMMA PassedMore ==
  ASSUME NEW k \in Nat, NEW n \in Nat, NEW a, IsPassed(a, k),
         NEW stages \in Seq(StageName), Len(stages) = n, k + n <= 9,
         \A i \in 1 .. n : stages[i] = DecisionStage[k + i]
  PROVE  IsPassed(a \o Passes(stages), k + n)
  <1>. DEFINE b == Passes(stages)
              ab == a \o b
  <1>1. \A i \in 1 .. n : b[i] = Step(DecisionStage[k + i], "none")
    BY DEF Passes
  <1>2. b \in Seq(StepType) /\ Len(b) = n
    <2>1. b \in [1 .. n -> StepType]
      <3>1. \A i \in 1 .. n : Step(DecisionStage[k + i], "none") \in StepType
        <4>1. \A i \in 1 .. n : k + i \in 1 .. 9
          OBVIOUS
        <4>. QED
          BY <4>1, StepIsTyped
      <3>2. DOMAIN stages = 1 .. n
        OBVIOUS
      <3>3. b = [i \in 1 .. n |-> b[i]]
        BY <3>2 DEF Passes
      <3>. HIDE DEF b
      <3>. QED
        BY <1>1, <3>1, <3>3
    <2>. HIDE DEF b
    <2>. QED
      BY <2>1
  <1>. HIDE DEF b
  <1>3. a \in Seq(StepType) /\ Len(a) = k
    BY DEF IsPassed
  <1>4. /\ ab \in Seq(StepType)
        /\ Len(ab) = Len(a) + Len(b)
        /\ \A i \in 1 .. Len(a) : ab[i] = a[i]
        /\ \A i \in 1 .. Len(b) : ab[Len(a) + i] = b[i]
    <2>1. a \in Seq(StepType)
      BY <1>3
    <2>2. b \in Seq(StepType)
      BY <1>2
    <2>. QED
      BY <2>1, <2>2, ConcatAt
  <1>. HIDE DEF ab
  <1>5. \A i \in 1 .. k + n : ab[i] = Step(DecisionStage[i], "none")
    <2>. SUFFICES ASSUME NEW i \in 1 .. k + n
                  PROVE  ab[i] = Step(DecisionStage[i], "none")
      OBVIOUS
    <2>1. CASE i <= k
      BY <1>3, <1>4, <2>1 DEF IsPassed
    <2>2. CASE i > k
      <3>1. i - k \in 1 .. n /\ k + (i - k) = i
        BY <2>2
      <3>2. ab[k + (i - k)] = b[i - k]
        BY <1>2, <1>3, <1>4, <3>1
      <3>3. b[i - k] = Step(DecisionStage[k + (i - k)], "none")
        BY <1>1, <3>1
      <3>. QED
        BY <3>1, <3>2, <3>3
    <2>. QED
      BY <2>1, <2>2
  <1>. QED
    BY <1>2, <1>3, <1>4, <1>5 DEF IsPassed, ab, b

LEMMA PathFrom ==
  ASSUME NEW k \in Nat, NEW m \in 1 .. 9,
         NEW error \in RuntimeError \cup {"none"}, NEW a, IsPassed(a, k)
  PROVE  IsPath(a \o << Step(DecisionStage[m], error) >>, k, m, error)
  <1>. DEFINE last == Step(DecisionStage[m], error)
  <1>1. last \in StepType
    BY StepIsTyped
  <1>2. a \in Seq(StepType) /\ Len(a) = k
    BY DEF IsPassed
  <1>. HIDE DEF last
  <1>3. /\ a \o <<last>> \in Seq(StepType)
        /\ Len(a \o <<last>>) = k + 1
        /\ \A i \in 1 .. k : (a \o <<last>>)[i] = a[i]
        /\ (a \o <<last>>)[k + 1] = last
    BY <1>1, <1>2
  <1>. QED
    BY <1>3 DEF IsPassed, IsPath, last

LEMMA PathIsASummary ==
  ASSUME NEW k \in Nat, NEW m \in 1 .. 9, k < m, NEW error,
         error = "none" => m = 9, NEW steps, IsPath(steps, k, m, error)
  PROVE  LET t == SummarizeDecisionTrace(steps) IN
         /\ t.steps = steps
         /\ Failed(steps) = IF error = "none" THEN {} ELSE {k + 1}
         /\ t.accepted <=> error = "none"
         /\ t.final_status = IF error = "none" THEN "accepted" ELSE "rejected"
         /\ FailsAt(t, "backpressure-check") <=> error # "none" /\ m = 6
         /\ Len(steps) = k + 1
         /\ steps[k + 1].error = error
         /\ \A i \in 1 .. k :
              /\ steps[i].status = "pass"
              /\ StageIndex(steps[i].stage) < StageIndex(steps[i + 1].stage)
  <1>1. DOMAIN steps = 1 .. k + 1
    BY DEF IsPath
  <1>2. /\ \A i \in 1 .. k :
             steps[i].stage = DecisionStage[i] /\ steps[i].status = "pass"
        /\ steps[k + 1].stage = DecisionStage[m]
        /\ steps[k + 1].error = error
        /\ steps[k + 1].status = IF error = "none" THEN "pass" ELSE "fail"
    <2>1. /\ \A i \in 1 .. k : steps[i] = Step(DecisionStage[i], "none")
          /\ steps[k + 1] = Step(DecisionStage[m], error)
      BY DEF IsPath
    <2>2. /\ Step(DecisionStage[m], error).stage = DecisionStage[m]
          /\ Step(DecisionStage[m], error).error = error
          /\ Step(DecisionStage[m], error).status =
               IF error = "none" THEN "pass" ELSE "fail"
      BY DEF Step
    <2>3. \A i \in 1 .. k :
            /\ Step(DecisionStage[i], "none").stage = DecisionStage[i]
            /\ Step(DecisionStage[i], "none").status = "pass"
      BY DEF Step
    <2>. QED
      BY <2>1, <2>2, <2>3
  <1>3. \A i \in 1 .. k + 1 : i \in 1 .. k \/ i = k + 1
    OBVIOUS
  <1>4. Failed(steps) = IF error = "none" THEN {} ELSE {k + 1}
    <2>1. \A i \in 1 .. k : steps[i].status # "fail"
      BY <1>2
    <2>2. steps[k + 1].status = "fail" <=> error # "none"
      BY <1>2
    <2>. QED
      BY <1>1, <1>3, <2>1, <2>2 DEF Failed
  <1>5. error = "none" =>
          \E i \in DOMAIN steps : steps[i].stage = "final-decision"
    <2>1. k + 1 \in DOMAIN steps
      BY <1>1
    <2>2. DecisionStage[9] = "final-decision"
      BY Stages
    <2>3. error = "none" => steps[k + 1].stage = "final-decision"
      BY <1>2, <2>2
    <2>. QED
      BY <2>1, <2>3
  <1>. DEFINE t == SummarizeDecisionTrace(steps)
  <1>6. /\ t.steps = steps
        /\ t.accepted <=> error = "none"
        /\ t.final_status = IF error = "none" THEN "accepted" ELSE "rejected"
    BY <1>4, <1>5 DEF SummarizeDecisionTrace
  <1>. HIDE DEF t
  <1>7. FailsAt(t, "backpressure-check") <=> error # "none" /\ m = 6
    <2>1. DecisionStage[m] = "backpressure-check" <=> m = 6
      BY StageNames
    <2>. QED
      BY <1>2, <1>4, <1>6, <2>1 DEF FailsAt
  <1>8. \A i \in 1 .. k :
          StageIndex(steps[i].stage) < StageIndex(steps[i + 1].stage)
    <2>. SUFFICES ASSUME NEW i \in 1 .. k
                  PROVE StageIndex(steps[i].stage)
                          < StageIndex(steps[i + 1].stage)
      OBVIOUS
    <2>1. StageIndex(steps[i].stage) = i
      BY <1>2, StageIndices
    <2>2. CASE i = k
      BY <1>2, <2>1, <2>2, StageIndices
    <2>3. CASE i < k
      <3>1. i + 1 \in 1 .. k /\ i + 1 \in 1 .. 9
        BY <2>3
      <3>2. StageIndex(steps[i + 1].stage) = i + 1
        BY <1>2, <3>1, StageIndices
      <3>. QED
        BY <2>1, <3>2
    <2>. QED
      BY <2>2, <2>3
  <1>9. Len(steps) = k + 1
    BY DEF IsPath
  <1>. QED
    BY <1>2, <1>4, <1>6, <1>7, <1>8, <1>9 DEF t

LEMMA SubSequence ==
  ASSUME NEW S, NEW s \in Seq(S), NEW n \in 0 .. Len(s)
  PROVE  /\ SubSeq(s, 1, n) \in Seq(S)
         /\ Len(SubSeq(s, 1, n)) = n
         /\ \A i \in 1 .. n : SubSeq(s, 1, n)[i] = s[i]
  OBVIOUS

LEMMA IntakePassed ==
  /\ \A n \in 0 .. 5 : IsPassed(Passes(SubSeq(IntakeStages, 1, n)), n)
  /\ IsPassed(Passes(IntakeStages), 5)
  <1>0. IsPassed(<<>>, 0)
    BY DEF IsPassed
  <1>1. ASSUME NEW n \in 0 .. 5, NEW stages \in Seq(StageName),
               Len(stages) = n,
               \A i \in 1 .. n : stages[i] = DecisionStage[i]
        PROVE  IsPassed(Passes(stages), n)
    <2>1. 0 + n <= 9 /\ \A i \in 1 .. n : stages[i] = DecisionStage[0 + i]
      BY <1>1
    <2>2. 0 \in Nat /\ n \in Nat
      OBVIOUS
    <2>3. IsPassed(<<>> \o Passes(stages), 0 + n)
      BY <1>0, <1>1, <2>1, <2>2, PassedMore
    <2>4. <<>> \o Passes(stages) = Passes(stages)
      BY <1>1 DEF Passes
    <2>. QED
      BY <2>3, <2>4
  <1>2. ASSUME NEW n \in 0 .. 5
        PROVE  IsPassed(Passes(SubSeq(IntakeStages, 1, n)), n)
    <2>. DEFINE stages == SubSeq(IntakeStages, 1, n)
    <2>1. stages \in Seq(StageName)
      BY Stages, SubSequence
    <2>2. Len(stages) = n /\ \A i \in 1 .. n : stages[i] = DecisionStage[i]
      BY Stages, SubSequence
    <2>. HIDE DEF stages
    <2>3. IsPassed(Passes(stages), n)
      BY <1>1, <2>1, <2>2
    <2>. QED
      BY <2>3 DEF stages
  <1>3. IsPassed(Passes(IntakeStages), 5)
    BY <1>1, Stages
  <1>. QED
    BY <1>2, <1>3

LEMMA CorePassed ==
  /\ \A n \in 0 .. 2 :
       IsPassed(Passes(IntakeStages) \o Passes(SubSeq(CoreStages, 1, n)),
                5 + n)
  /\ IsPassed(Passes(IntakeStages) \o Passes(SubSeq(CoreStages, 1, 2))
                \o Passes(SubSeq(CoreStages, 3, 3)), 8)
  <1>1. ASSUME NEW n \in 0 .. 2
        PROVE  IsPassed(Passes(IntakeStages)
                          \o Passes(SubSeq(CoreStages, 1, n)), 5 + n)
    <2>. DEFINE stages == SubSeq(CoreStages, 1, n)
    <2>1. stages \in Seq(StageName)
      <3>1. n \in 0 .. Len(CoreStages) /\ CoreStages \in Seq(StageName)
        BY Stages
      <3>. QED
        BY <3>1, SubSequence
    <2>2. Len(stages) = n /\ \A i \in 1 .. n : stages[i] = DecisionStage[5 + i]
      BY Stages, SubSequence
    <2>3. 5 \in Nat /\ n \in Nat /\ 5 + n <= 9
      OBVIOUS
    <2>. HIDE DEF stages
    <2>4. IsPassed(Passes(IntakeStages) \o Passes(stages), 5 + n)
      BY <2>1, <2>2, <2>3, IntakePassed, PassedMore
    <2>. QED
      BY <2>4 DEF stages
  <1>2. IsPassed(Passes(IntakeStages) \o Passes(SubSeq(CoreStages, 1, 2))
                   \o Passes(SubSeq(CoreStages, 3, 3)), 8)
    <2>. DEFINE stages == SubSeq(CoreStages, 3, 3)
                a == Passes(IntakeStages) \o Passes(SubSeq(CoreStages, 1, 2))
    <2>1. /\ stages \in Seq(StageName)
          /\ Len(stages) = 1
          /\ \A i \in 1 .. 1 : stages[i] = DecisionStage[7 + i]
      <3>1. CoreStages[3] = DecisionStage[5 + 3]
        BY Stages
      <3>2. CoreStages[3] \in StageName
        BY Stages, ElementOfSeq
      <3>3. \A i \in 3 .. 3 : CoreStages[i] \in StageName
        BY <3>2
      <3>4. /\ stages \in Seq(StageName)
            /\ Len(stages) = 1
            /\ stages[1] = CoreStages[3]
        BY <3>3, SubSeqProperties
      <3>. QED
        BY <3>1, <3>4
    <2>2. IsPassed(a, 7)
      BY <1>1
    <2>. HIDE DEF a, stages
    <2>3. stages \in Seq(StageName) /\ 7 \in Nat /\ 1 \in Nat /\ 7 + 1 <= 9
      BY <2>1
    <2>4. IsPassed(a \o Passes(stages), 7 + 1)
      BY <2>1, <2>2, <2>3, PassedMore
    <2>. QED
      BY <2>4 DEF a, stages
  <1>. QED
    BY <1>1, <1>2

\* There is one first row that fails.
LEMMA FirstIs ==
  ASSUME NEW S, NEW table \in Seq(S), NEW i \in 1 .. Len(table),
         ~table[i].passed, \A j \in 1 .. i - 1 : table[j].passed
  PROVE  /\ ~AllPass(table)
         /\ FirstFailure(table) = table[i]
         /\ FirstFailing(table) = i
  <1>1. DOMAIN table = 1 .. Len(table) /\ Len(table) \in Nat
    BY LenProperties
  <1>2. \A n \in 1 .. Len(table) :
          ~table[n].passed /\ (\A j \in 1 .. n - 1 : table[j].passed) => n = i
    <2>. SUFFICES ASSUME NEW n \in 1 .. Len(table), ~table[n].passed,
                         \A j \in 1 .. n - 1 : table[j].passed
                  PROVE  n = i
      OBVIOUS
    <2>1. ~ (n < i)
      BY <1>1
    <2>2. ~ (i < n)
      BY <1>1
    <2>. QED
      BY <1>1, <2>1, <2>2
  <1>3. (CHOOSE n \in 1 .. Len(table) :
           ~table[n].passed /\ \A j \in 1 .. n - 1 : table[j].passed) = i
    BY <1>2
  <1>. QED
    BY <1>1, <1>3 DEF AllPass, FirstFailure, FirstFailing

\* The tables that a message passes, by the first check that refuses it.
LEMMA FirstFailedTable ==
  ASSUME NEW in \in Input, NEW snapshot, NEW active, NEW projection,
         NEW i \in 1 .. 12,
         ~Checks(in, snapshot, active, projection)[i].passed,
         \A j \in 1 .. i - 1 :
           Checks(in, snapshot, active, projection)[j].passed
  PROVE  LET row == Checks(in, snapshot, active, projection)[i]
             intake == IntakeTable(in)
             admission == AdmissionTable(in, snapshot, active, projection)
         IN /\ i <= 5 => /\ ~AllPass(intake)
                         /\ FirstFailing(intake) = i
                         /\ row = intake[i]
            /\ i > 5 => AllPass(intake)
            /\ i \in 6 .. 11 => /\ ~AllPass(admission)
                                /\ FirstFailure(admission) = row
                                /\ row = admission[i - 5]
            /\ i = 12 => AllPass(admission) /\ row = StoreTable(in.op)[1]
  <1>. DEFINE checks == Checks(in, snapshot, active, projection)
              intake == IntakeTable(in)
              admission == AdmissionTable(in, snapshot, active, projection)
  <1>1. /\ \A j \in 1 .. 5 : checks[j] = intake[j]
        /\ \A j \in 1 .. 6 : checks[5 + j] = admission[j]
        /\ checks[12] = StoreTable(in.op)[1]
    BY ChecksRows
  <1>2. intake \in Seq(RowType) /\ Len(intake) = 5
    BY TableTypes
  <1>3. admission \in Seq(RowType) /\ Len(admission) = 6
    BY TableTypes
  <1>4. ~checks[i].passed /\ \A j \in 1 .. i - 1 : checks[j].passed
    OBVIOUS
  <1>. HIDE DEF checks, intake, admission
  <1>5. CASE i <= 5
    <2>1. /\ i \in 1 .. Len(intake) /\ ~intake[i].passed
          /\ \A j \in 1 .. i - 1 : intake[j].passed
      BY <1>1, <1>2, <1>4, <1>5
    <2>2. ~AllPass(intake) /\ FirstFailing(intake) = i
      BY <1>2, <2>1, FirstIs
    <2>. QED
      BY <1>1, <1>5, <2>2 DEF checks, intake
  <1>6. i > 5 => AllPass(intake)
    BY <1>1, <1>2, <1>4 DEF AllPass
  <1>7. CASE i \in 6 .. 11
    <2>1. i - 5 \in 1 .. Len(admission) /\ i = 5 + (i - 5)
      BY <1>3, <1>7
    <2>2. checks[i] = admission[i - 5]
      BY <1>1, <1>3, <2>1
    <2>3. \A j \in 1 .. (i - 5) - 1 : admission[j].passed
      <3>. TAKE j \in 1 .. (i - 5) - 1
      <3>1. j \in 1 .. 6 /\ 5 + j \in 1 .. i - 1
        BY <1>7
      <3>. QED
        BY <1>1, <1>4, <3>1
    <2>4. ~AllPass(admission) /\ FirstFailure(admission) = admission[i - 5]
      <3>1. admission \in Seq(RowType) /\ ~admission[i - 5].passed
        BY <1>3, <1>4, <2>2
      <3>. QED
        BY <2>1, <2>3, <3>1, FirstIs
    <2>. QED
      BY <1>6, <1>7, <2>2, <2>4 DEF checks, intake, admission
  <1>8. CASE i = 12
    <2>1. \A j \in 1 .. 6 : admission[j].passed
      <3>. TAKE j \in 1 .. 6
      <3>1. 5 + j \in 1 .. i - 1
        BY <1>8
      <3>. QED
        BY <1>1, <1>4, <3>1
    <2>2. AllPass(admission)
      BY <1>3, <2>1 DEF AllPass
    <2>. QED
      BY <1>1, <1>6, <1>8, <2>2 DEF checks, intake, admission
  <1>. QED
    BY <1>5, <1>7, <1>8

LEMMA AcceptedPath ==
  ASSUME NEW in \in Input, NEW snapshot, NEW active, NEW projection,
         Accept(in, snapshot, active, projection)
  PROVE  \E k \in 7 .. 8 :
           IsPath(Steps(in, snapshot, active, projection), k, 9, "none")
  <1>. DEFINE checks == Checks(in, snapshot, active, projection)
              intake == IntakeTable(in)
              admission == AdmissionTable(in, snapshot, active, projection)
              steps == Steps(in, snapshot, active, projection)
              looked == IF projection = NoProjection THEN <<>>
                        ELSE Passes(SubSeq(CoreStages, 3, 3))
              start == Passes(IntakeStages) \o Passes(SubSeq(CoreStages, 1, 2))
  <1>1. /\ \A j \in 1 .. 5 : checks[j] = intake[j]
        /\ \A j \in 1 .. 6 : checks[5 + j] = admission[j]
        /\ Len(checks) = 12
    BY ChecksRows
  <1>2. AllPass(checks)
    BY DEF Accept
  <1>3. Len(intake) = 5 /\ Len(admission) = 6
    BY TableTypes
  <1>4. CanApply(in.op)
    <2>1. checks[12].passed = CanApply(in.op)
      BY RowContents
    <2>. QED
      BY <1>1, <1>2, <2>1 DEF AllPass
  <1>5. AllPass(intake) /\ AllPass(admission)
    <2>. HIDE DEF checks, intake, admission
    <2>1. AllPass(intake)
      BY <1>1, <1>2, <1>3 DEF AllPass
    <2>2. AllPass(admission)
      <3>1. \A j \in 1 .. 6 : 5 + j \in 1 .. 12
        OBVIOUS
      <3>. QED
        BY <1>1, <1>2, <1>3, <3>1 DEF AllPass
    <2>. QED
      BY <2>1, <2>2
  <1>6. Passes(<<"final-decision">>) = << Step(DecisionStage[9], "none") >>
    BY Stages DEF Passes
  <1>7. steps = (start \o looked) \o << Step(DecisionStage[9], "none") >>
    BY <1>4, <1>5, <1>6 DEF Steps
  <1>8. \E k \in 7 .. 8 : IsPassed(start \o looked, k)
    <2>1. CASE projection = NoProjection
      <3>1. IsPassed(start, 7)
        <4>1. IsPassed(start, 5 + 2)
          BY CorePassed
        <4>. QED
          BY <4>1
      <3>2. start \in Seq(StepType)
        BY <3>1 DEF IsPassed
      <3>. HIDE DEF start
      <3>3. start \o looked = start
        BY <2>1, <3>2, ConcatEmptySeq
      <3>4. IsPassed(start \o looked, 7)
        BY <3>1, <3>3
      <3>. HIDE DEF looked
      <3>. QED
        BY <3>4
    <2>2. CASE projection # NoProjection
      BY <2>2, CorePassed
    <2>. QED
      BY <2>1, <2>2
  <1>. HIDE DEF steps, start, looked
  <1>9. PICK k \in 7 .. 8 : IsPassed(start \o looked, k)
    BY <1>8
  <1>10. /\ k \in Nat /\ 9 \in 1 .. 9
         /\ "none" \in RuntimeError \cup {"none"}
    OBVIOUS
  <1>11. IsPath(steps, k, 9, "none")
    BY <1>7, <1>9, <1>10, PathFrom
  <1>. QED
    BY <1>11 DEF steps

LEMMA Associated ==
  ASSUME NEW n \in 1 .. 2, NEW m \in 1 .. 9,
         NEW error \in RuntimeError \cup {"none"}
  PROVE  LET some == Passes(SubSeq(CoreStages, 1, n))
             last == << Step(DecisionStage[m], error) >>
         IN Passes(IntakeStages) \o (some \o last)
              = (Passes(IntakeStages) \o some) \o last
  <1>. DEFINE a == Passes(IntakeStages)
              b == Passes(SubSeq(CoreStages, 1, n))
              last == Step(DecisionStage[m], error)
  <1>1. a \in Seq(StepType)
    BY IntakePassed DEF IsPassed
  <1>2. last \in StepType
    BY StepIsTyped
  <1>3. b \in Seq(StepType)
    <2>1. n \in 0 .. Len(CoreStages) /\ CoreStages \in Seq(StageName)
      BY Stages
    <2>2. /\ SubSeq(CoreStages, 1, n) \in Seq(StageName)
          /\ Len(SubSeq(CoreStages, 1, n)) = n
      BY <2>1, SubSequence
    <2>3. \A i \in 1 .. n : Step(SubSeq(CoreStages, 1, n)[i], "none")
                              \in StepType
      BY <2>2, ElementOfSeq DEF Step, StepType
    <2>. QED
      BY <2>2, <2>3 DEF Passes
  <1>. HIDE DEF a, b, last
  <1>4. <<last>> \in Seq(StepType)
    BY <1>2
  <1>5. a \o (b \o <<last>>) = (a \o b) \o <<last>>
    BY <1>1, <1>3, <1>4, ConcatAssociative
  <1>. QED
    BY <1>5 DEF a, b, last

\* What the rows of a message answer, as far as its trace is about it.
LEMMA RowAnswers ==
  ASSUME NEW in \in Input, NEW snapshot, NEW active, NEW projection
  PROVE  LET intake == IntakeTable(in)
             admission == AdmissionTable(in, snapshot, active, projection)
         IN /\ \A i \in 1 .. 5 :
                 /\ intake[i].decision_type # "reject-backpressure"
                 /\ intake[i].error # "BackpressureLimitExceeded"
            /\ \A i \in {1, 2, 3, 5} :
                 /\ admission[i].decision_type
                      \notin {"reject-backpressure", "reject-projection"}
                 /\ admission[i].error # "BackpressureLimitExceeded"
            /\ admission[4].decision_type = "reject-backpressure"
            /\ admission[4].error = "BackpressureLimitExceeded"
            /\ ~admission[6].passed =>
                 /\ admission[6].decision_type = "reject-projection"
                 /\ admission[6].error # "BackpressureLimitExceeded"
            /\ StoreTable(in.op)[1].decision_type = "reject-operation"
            /\ StoreTable(in.op)[1].error = StoreError(in.op)
            /\ StoreError(in.op) # "BackpressureLimitExceeded"
  <1>1. /\ in.envelope_error # "BackpressureLimitExceeded"
        /\ OperationError(in) # "BackpressureLimitExceeded"
    BY DEF InputType, FormError, OperationError
  <1>2. \A i \in 1 .. 5 :
          /\ IntakeTable(in)[i].decision_type # "reject-backpressure"
          /\ IntakeTable(in)[i].error # "BackpressureLimitExceeded"
    BY <1>1 DEF IntakeTable, Check
  <1>. DEFINE admission == AdmissionTable(in, snapshot, active, projection)
  <1>3. /\ \A i \in {1, 2, 3, 5} :
             /\ admission[i].decision_type
                  \notin {"reject-backpressure", "reject-projection"}
             /\ admission[i].error # "BackpressureLimitExceeded"
        /\ admission[4].decision_type = "reject-backpressure"
        /\ admission[4].error = "BackpressureLimitExceeded"
        /\ admission[6] = ProjectionCheck(projection)
    BY DEF AdmissionTable, Check
  <1>4. LET check == ProjectionCheck(projection) IN
        ~check.passed =>
          /\ check.decision_type = "reject-projection"
          /\ check.error # "BackpressureLimitExceeded"
    BY ProjectionNotLoad DEF ProjectionCheck, Check
  <1>5. /\ StoreTable(in.op)[1].decision_type = "reject-operation"
        /\ StoreTable(in.op)[1].error = StoreError(in.op)
        /\ StoreError(in.op) # "BackpressureLimitExceeded"
    BY DEF StoreTable, Check, StoreError
  <1>. HIDE DEF admission
  <1>. QED
    BY <1>2, <1>3, <1>4, <1>5 DEF admission

\* A message is refused at the sixth stage exactly when the load refuses it.
LEMMA RejectedPath ==
  ASSUME NEW in \in Input, NEW snapshot, NEW active, NEW projection,
         Reject(in, snapshot, active, projection)
  PROVE  \E k \in 0 .. 8, m \in 1 .. 9 :
           /\ k < m
           /\ IsPath(Steps(in, snapshot, active, projection), k, m,
                     decision'.error)
           /\ decision'.error # "none"
           /\ m = 6 <=> decision'.error = "BackpressureLimitExceeded"
           /\ m = 6 <=> decision'.decision_type = "reject-backpressure"
  <1>. DEFINE checks == Checks(in, snapshot, active, projection)
              intake == IntakeTable(in)
              admission == AdmissionTable(in, snapshot, active, projection)
              steps == Steps(in, snapshot, active, projection)
              error == decision'.error
              type == decision'.decision_type
              Told(k, m) ==
                /\ k < m
                /\ IsPath(steps, k, m, error)
                /\ m = 6 <=> error = "BackpressureLimitExceeded"
                /\ m = 6 <=> type = "reject-backpressure"
  <1>1. PICK i \in 1 .. 12 :
          /\ ~checks[i].passed
          /\ \A j \in 1 .. i - 1 : checks[j].passed
          /\ decision' = [input |-> in, error |-> checks[i].error,
                          decision_type |-> checks[i].decision_type]
          /\ checks[i] \in RowType
          /\ checks[i].error # "none"
    BY RejectedRow
  <1>2. /\ error = checks[i].error /\ type = checks[i].decision_type
        /\ error \in RuntimeError \cup {"none"} /\ error # "none"
    BY <1>1 DEF RowType
  <1>3. /\ i <= 5 => ~AllPass(intake) /\ FirstFailing(intake) = i
                       /\ checks[i] = intake[i]
        /\ i > 5 => AllPass(intake)
        /\ i \in 6 .. 11 => ~AllPass(admission)
                              /\ FirstFailure(admission) = checks[i]
                              /\ checks[i] = admission[i - 5]
        /\ i = 12 => AllPass(admission) /\ checks[i] = StoreTable(in.op)[1]
    BY <1>1, FirstFailedTable
  <1>4. /\ \A j \in 1 .. 5 :
             /\ intake[j].decision_type # "reject-backpressure"
             /\ intake[j].error # "BackpressureLimitExceeded"
        /\ \A j \in {1, 2, 3, 5} :
             /\ admission[j].decision_type
                  \notin {"reject-backpressure", "reject-projection"}
             /\ admission[j].error # "BackpressureLimitExceeded"
        /\ admission[4].decision_type = "reject-backpressure"
        /\ admission[4].error = "BackpressureLimitExceeded"
        /\ ~admission[6].passed =>
             /\ admission[6].decision_type = "reject-projection"
             /\ admission[6].error # "BackpressureLimitExceeded"
        /\ StoreTable(in.op)[1].decision_type = "reject-operation"
        /\ StoreTable(in.op)[1].error = StoreError(in.op)
        /\ StoreError(in.op) # "BackpressureLimitExceeded"
    BY RowAnswers
  <1>5. CASE i <= 5
    <2>. DEFINE at == << 1, 1, 2, 3, 4 >>[i]
    <2>1. at \in 1 .. 4 /\ IntakeStage[i] = DecisionStage[at]
      BY <1>5, StageNames DEF IntakeStage
    <2>. HIDE DEF at
    <2>2. StageIndex(IntakeStage[i]) = at
      BY <2>1, StageIndices
    <2>3. steps = Passes(SubSeq(IntakeStages, 1, at - 1))
                    \o << Step(DecisionStage[at], error) >>
      BY <1>2, <1>3, <1>5, <2>1, <2>2 DEF Steps, IntakeTrace
    <2>4. /\ at - 1 \in Nat /\ at \in 1 .. 9
          /\ IsPassed(Passes(SubSeq(IntakeStages, 1, at - 1)), at - 1)
      BY <2>1, IntakePassed
    <2>. HIDE DEF steps, error, type
    <2>5. IsPath(steps, at - 1, at, error)
      BY <1>2, <2>3, <2>4, PathFrom
    <2>6. error # "BackpressureLimitExceeded"
            /\ type # "reject-backpressure"
      BY <1>2, <1>3, <1>4, <1>5
    <2>7. Told(at - 1, at) /\ at - 1 \in 0 .. 8 /\ at \in 1 .. 9
      BY <2>1, <2>5, <2>6
    <2>. QED
      BY <1>2, <2>7 DEF steps, error, type
  <1>6. CASE i = 9
    <2>1. /\ error = "BackpressureLimitExceeded"
          /\ type = "reject-backpressure"
      BY <1>2, <1>3, <1>4, <1>6
    <2>2. steps = Passes(IntakeStages) \o << Step(CoreStages[1], error) >>
      BY <1>2, <1>3, <1>6, <2>1 DEF Steps, TraceCoreDecisionRejection
    <2>. HIDE DEF steps, error, type
    <2>3. CoreStages[1] = DecisionStage[6] /\ 5 \in Nat /\ 6 \in 1 .. 9
      BY StageNames DEF CoreStages
    <2>4. IsPath(steps, 5, 6, error)
      BY <1>2, <2>2, <2>3, IntakePassed, PathFrom
    <2>5. Told(5, 6) /\ 5 \in 0 .. 8
      BY <2>1, <2>4
    <2>. QED
      BY <1>2, <2>3, <2>5 DEF steps, error, type
  <1>7. CASE i = 11
    <2>1. /\ error # "BackpressureLimitExceeded"
          /\ type = "reject-projection"
      BY <1>1, <1>2, <1>3, <1>4, <1>7
    <2>. DEFINE two == Passes(SubSeq(CoreStages, 1, 2))
                last == << Step(CoreStages[3], error) >>
    <2>2. steps = Passes(IntakeStages) \o (two \o last)
      BY <1>2, <1>3, <1>7, <2>1 DEF Steps, TraceCoreDecisionRejection
    <2>. HIDE DEF steps, error, type
    <2>3. CoreStages[3] = DecisionStage[8] /\ 7 \in Nat /\ 8 \in 1 .. 9
      BY StageNames DEF CoreStages
    <2>4. IsPassed(Passes(IntakeStages) \o two, 7)
      <3>1. IsPassed(Passes(IntakeStages) \o two, 5 + 2)
        BY CorePassed
      <3>. QED
        BY <3>1
    <2>5. steps = (Passes(IntakeStages) \o two) \o last
      BY <1>2, <2>2, <2>3, Associated
    <2>6. IsPath(steps, 7, 8, error)
      BY <1>2, <2>3, <2>4, <2>5, PathFrom
    <2>7. Told(7, 8) /\ 7 \in 0 .. 8
      BY <2>1, <2>6
    <2>. QED
      BY <1>2, <2>3, <2>7 DEF steps, error, type
  <1>8. CASE i \in {6, 7, 8, 10}
    <2>1. /\ error # "BackpressureLimitExceeded"
          /\ type \notin {"reject-backpressure", "reject-projection"}
      <3>1. i - 5 \in {1, 2, 3, 5} /\ checks[i] = admission[i - 5]
        BY <1>3, <1>8
      <3>. QED
        BY <1>2, <1>4, <3>1
    <2>. DEFINE one == Passes(SubSeq(CoreStages, 1, 1))
                last == << Step(CoreStages[2], error) >>
    <2>2. steps = Passes(IntakeStages) \o (one \o last)
      <3>1. /\ AllPass(intake) /\ ~AllPass(admission)
            /\ FirstFailure(admission) = checks[i]
        BY <1>3, <1>8
      <3>2. steps = Passes(IntakeStages)
                      \o TraceCoreDecisionRejection(checks[i])
        BY <3>1 DEF Steps
      <3>. HIDE DEF checks
      <3>3. TraceCoreDecisionRejection(checks[i]) = one \o last
        BY <1>2, <2>1 DEF TraceCoreDecisionRejection
      <3>. QED
        BY <3>2, <3>3
    <2>. HIDE DEF steps, error, type
    <2>3. CoreStages[2] = DecisionStage[7] /\ 6 \in Nat /\ 7 \in 1 .. 9
      BY StageNames DEF CoreStages
    <2>4. IsPassed(Passes(IntakeStages) \o one, 6)
      <3>1. IsPassed(Passes(IntakeStages) \o one, 5 + 1)
        BY CorePassed
      <3>. QED
        BY <3>1
    <2>5. steps = (Passes(IntakeStages) \o one) \o last
      BY <1>2, <2>2, <2>3, Associated
    <2>6. IsPath(steps, 6, 7, error)
      BY <1>2, <2>3, <2>4, <2>5, PathFrom
    <2>7. Told(6, 7) /\ 6 \in 0 .. 8
      BY <2>1, <2>6
    <2>. QED
      BY <1>2, <2>3, <2>7 DEF steps, error, type
  <1>9. CASE i = 12
    <2>1. /\ error # "BackpressureLimitExceeded"
          /\ type # "reject-backpressure"
          /\ error = StoreError(in.op)
      BY <1>2, <1>3, <1>4, <1>9
    <2>2. ~CanApply(in.op)
      BY <1>1, <1>9, RowContents
    <2>3. steps = Passes(IntakeStages) \o << Step("final-decision", error) >>
      BY <1>2, <1>3, <1>9, <2>1, <2>2 DEF Steps
    <2>. HIDE DEF steps, error, type
    <2>4. "final-decision" = DecisionStage[9] /\ 5 \in Nat /\ 9 \in 1 .. 9
      BY StageNames
    <2>5. IsPath(steps, 5, 9, error)
      BY <1>2, <2>3, <2>4, IntakePassed, PathFrom
    <2>6. Told(5, 9) /\ 5 \in 0 .. 8
      BY <2>1, <2>5
    <2>. QED
      BY <1>2, <2>4, <2>6 DEF steps, error, type
  <1>. QED
    BY <1>5, <1>6, <1>7, <1>8, <1>9

(***************************************************************************)
(* With its trace the engine does what it does without: Process takes the  *)
(* same messages by the same steps.                                        *)
(***************************************************************************)
THEOREM TracedIsEngine == TraceSpec => EngineSpec
  <1>1. TraceInit => EngineInit
    BY DEF TraceInit
  <1>2. [TraceNext]_traceVars => [EngineNext]_engineVars
    BY TracedAssumption DEF TraceNext, Process, EngineNext, traceVars
  <1>. QED
    BY <1>1, <1>2, PTL DEF TraceSpec, EngineSpec

\* The inductive invariant: that the metrics count the log holds from the
\* start, when there is no trace yet.
TraceIInv ==
  /\ metrics.accepted_count = Len(op_log)
  /\ TraceTellsDecision

\* What a step tells, from the path its trace is.
LEMMA PathTells ==
  ASSUME NEW in, NEW snapshot, NEW active, NEW projection,
         Process(in, snapshot, active, projection),
         NEW k \in 0 .. 8, NEW m \in 1 .. 9, k < m,
         decision'.error = "none" => m = 9,
         IsPath(Steps(in, snapshot, active, projection), k, m,
                decision'.error),
         decision'.error # "none" =>
           (m = 6 <=> decision'.error = "BackpressureLimitExceeded"),
         decision'.decision_type = "reject-backpressure" <=>
           decision'.error = "BackpressureLimitExceeded"
  PROVE  /\ DecisionIsTraced'
         /\ trace'.accepted <=> decision'.error = "none"
         /\ metrics'.summary.backpressure_rejected <=>
              decision'.error = "BackpressureLimitExceeded"
         /\ metrics'.accepted_count =
              metrics.accepted_count + IF decision'.error = "none"
                                         THEN 1 ELSE 0
  <1>. DEFINE steps == Steps(in, snapshot, active, projection)
              error == decision'.error
              t == SummarizeDecisionTrace(steps)
  <1>1. trace' = t
    BY DEF Process
  <1>2. /\ t.steps = steps
        /\ Failed(steps) = IF error = "none" THEN {} ELSE {k + 1}
        /\ t.accepted <=> error = "none"
        /\ t.final_status = IF error = "none" THEN "accepted" ELSE "rejected"
        /\ FailsAt(t, "backpressure-check") <=> error # "none" /\ m = 6
        /\ Len(steps) = k + 1
        /\ steps[k + 1].error = error
        /\ \A i \in 1 .. k :
             /\ steps[i].status = "pass"
             /\ StageIndex(steps[i].stage) < StageIndex(steps[i + 1].stage)
    <2>. HIDE DEF steps, error
    <2>1. IsPath(steps, k, m, error) /\ (error = "none" => m = 9)
      BY DEF steps, error
    <2>2. k \in Nat
      OBVIOUS
    <2>. QED
      BY <2>1, <2>2, PathIsASummary
  <1>3. metrics' = MergeCoreMetricsSnapshot(metrics, decision', t)
    BY <1>1 DEF Process
  <1>4. error = "none" => error # "BackpressureLimitExceeded"
    OBVIOUS
  <1>5. /\ metrics'.accepted_count =
             metrics.accepted_count + IF decision'.error = "none"
                                        THEN 1 ELSE 0
        /\ metrics'.summary.backpressure_rejected <=>
             \/ decision'.decision_type = "reject-backpressure"
             \/ FailsAt(t, "backpressure-check")
    BY <1>3 DEF MergeCoreMetricsSnapshot, SummarizeDecisionMetrics
  <1>. HIDE DEF t, steps
  <1>6. DecisionIsTraced'
    <2>1. /\ trace'.steps = steps
          /\ trace'.final_status =
               IF error = "none" THEN "accepted" ELSE "rejected"
          /\ trace'.accepted <=> error = "none"
      BY <1>1, <1>2
    <2>2. Failed(steps) = {} <=> error = "none"
      BY <1>2
    <2>3. /\ steps[Len(steps)].error = error
          /\ \A i \in 1 .. Len(steps) - 1 :
               /\ steps[i].status = "pass"
               /\ StageIndex(steps[i].stage) < StageIndex(steps[i + 1].stage)
      BY <1>2
    <2>. QED
      BY <2>1, <2>2, <2>3 DEF DecisionIsTraced
  <1>. QED
    BY <1>1, <1>2, <1>4, <1>5, <1>6

LEMMA TraceInductive ==
  ASSUME TraceIInv, EngineIInv, [TraceNext]_traceVars
  PROVE  TraceIInv'
  <1>1. CASE UNCHANGED traceVars
    BY <1>1 DEF TraceIInv, traceVars, engineVars, TraceTellsDecision,
                DecisionIsTraced, DecisionIsCounted
  <1>2. CASE TraceNext
    <2>. PICK in \in TracedInput, snapshot \in Snapshot,
              active \in Lane \cup {NoLane},
              projection \in Projection \cup {NoProjection} :
           Process(in, snapshot, active, projection)
      BY <1>2 DEF TraceNext
    <2>1. in \in Input
      BY TracedAssumption
    <2>2. CASE Accept(in, snapshot, active, projection)
      <3>1. /\ decision'.error = "none"
            /\ decision'.decision_type # "reject-backpressure"
            /\ op_log' = Append(op_log, [op_id |-> in.op_id, op |-> in.op])
        BY <2>2 DEF Accept
      <3>2. PICK k \in 7 .. 8 :
              IsPath(Steps(in, snapshot, active, projection), k, 9, "none")
        BY <2>1, <2>2, AcceptedPath
      <3>3. /\ DecisionIsTraced'
            /\ metrics'.summary.backpressure_rejected <=>
                 decision'.error = "BackpressureLimitExceeded"
            /\ metrics'.accepted_count = metrics.accepted_count + 1
        <4>1. k \in 0 .. 8 /\ 9 \in 1 .. 9 /\ k < 9
          OBVIOUS
        <4>. QED
          BY <3>1, <3>2, <4>1, PathTells
      <3>4. Len(op_log') = Len(op_log) + 1
        BY <3>1 DEF EngineIInv, EngineTypeOK
      <3>. QED
        BY <3>3, <3>4 DEF TraceIInv, TraceTellsDecision, DecisionIsCounted
    <2>3. CASE Reject(in, snapshot, active, projection)
      <3>1. op_log' = op_log
        BY <2>3 DEF Reject
      <3>2. PICK k \in 0 .. 8, m \in 1 .. 9 :
              /\ k < m
              /\ IsPath(Steps(in, snapshot, active, projection), k, m,
                        decision'.error)
              /\ decision'.error # "none"
              /\ m = 6 <=> decision'.error = "BackpressureLimitExceeded"
              /\ m = 6 <=> decision'.decision_type = "reject-backpressure"
        BY <2>1, <2>3, RejectedPath
      <3>3. /\ DecisionIsTraced'
            /\ metrics'.summary.backpressure_rejected <=>
                 decision'.error = "BackpressureLimitExceeded"
            /\ metrics'.accepted_count = metrics.accepted_count + 0
        BY <3>2, PathTells
      <3>4. metrics'.accepted_count = Len(op_log')
        <4>1. Len(op_log) \in Nat
          BY DEF EngineIInv, EngineTypeOK
        <4>. QED
          BY <3>1, <3>3, <4>1 DEF TraceIInv
      <3>. QED
        BY <3>3, <3>4 DEF TraceIInv, TraceTellsDecision, DecisionIsCounted
    <2>. QED
      BY <2>2, <2>3 DEF Process
  <1>. QED
    BY <1>1, <1>2

(***************************************************************************)
(* Whatever messages come, with whatever load, active lane and projection, *)
(* the trace of a decision ends in it and carries its error, and the       *)
(* metrics count the log (core-engine.ts:124-236, 304-324;                 *)
(* decision-trace.ts:71-86; metrics-snapshot.ts:49-86).                    *)
(***************************************************************************)
THEOREM TraceIsTrue == TraceSpec => []TraceTellsDecision
  <1>1. TraceSpec => []EngineIInv
    BY TracedIsEngine, EngineInvariant, PTL
  <1>2. TraceInit => TraceIInv
    BY DEF TraceInit, EngineInit, TraceIInv, TraceTellsDecision
  <1>3. TraceIInv /\ EngineIInv /\ [TraceNext]_traceVars => TraceIInv'
    BY TraceInductive
  <1>4. TraceIInv => TraceTellsDecision
    BY DEF TraceIInv
  <1>. QED
    BY <1>1, <1>2, <1>3, <1>4, PTL DEF TraceSpec
=============================================================================
