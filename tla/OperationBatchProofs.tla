------------------------ MODULE OperationBatchProofs ------------------------
(***************************************************************************)
(* Proofs about batches of operations, for every batch a caller may send,  *)
(* and about the texts they cut, for every text.                           *)
(***************************************************************************)
EXTENDS OperationBatch, TypedText, StateStoreProofs, FiniteSetTheorems,
        WellFoundedInduction

USE BatchAssumption

(***************************************************************************)
(* The step of a batch is the step of its next operation.                  *)
(***************************************************************************)
LEMMA ApplyIsNext ==
  ASSUME NEW op \in Operation, Apply(op)
  PROVE  Next
  <1>1. op.op_type \in NoOpTypes => op \in NoOp
    BY DEF Operation, AppendChunkOp, SealBlockOp, PatchRangeOp, AddMessageOp,
           NoOp, NoOpTypes
  <1>2. CASE AppendChunk(op)
    BY <1>2, OperationFields DEF Next, AppendChunk
  <1>3. CASE SealBlock(op)
    BY <1>3, OperationFields DEF Next, SealBlock
  <1>4. CASE PatchRange(op)
    BY <1>4, OperationFields DEF Next, PatchRange
  <1>5. CASE AddMessage(op)
    BY <1>5, OperationFields DEF Next, AddMessage
  <1>6. CASE StateNoOp(op)
    BY <1>1, <1>6 DEF Next, StateNoOp
  <1>. QED
    BY <1>2, <1>3, <1>4, <1>5, <1>6 DEF Apply

\* The chunk op carries is in its block.
IsAppended(op) ==
  /\ op.block_id \in DOMAIN blocks
  /\ op.chunk_id \in Elements(blocks[op.block_id].applied_chunk_ids)

(***************************************************************************)
(* The inductive invariant of a call: the batch is one of operations, and  *)
(* the chunk it begins with, once passed, is in its block.                 *)
(***************************************************************************)
BatchTypeOK ==
  /\ ops \in Seq(Operation)
  /\ index \in 0 .. Len(ops)

FirstChunkIsKept ==
  index > 0 /\ ops[1].op_type = "AppendChunk" => IsAppended(ops[1])

BatchIInv == IInv /\ BatchTypeOK /\ FirstChunkIsKept

LEMMA ApplyNextApplies ==
  ASSUME BatchTypeOK, ApplyNext
  PROVE  ops[index + 1] \in Operation /\ Apply(ops[index + 1])
  BY DEF BatchTypeOK, ApplyNext

\* An append leaves its chunk in its block.
LEMMA ChunkIsAppended ==
  ASSUME IInv, NEW op \in Operation, op.op_type = "AppendChunk", Apply(op)
  PROVE  IsAppended(op)'
  <1>. DEFINE block == BlockOrEmpty(op.block_id)
              ids == block.applied_chunk_ids
  <1>1. /\ AppendChunk(op)
        /\ op \in AppendChunkOp
    BY OperationFields
    DEF Apply, AppendChunk, SealBlock, PatchRange, AddMessage, StateNoOp,
        NoOpTypes
  <1>2. /\ op.block_id \in DOMAIN blocks'
        /\ blocks'[op.block_id].applied_chunk_ids = Append(ids, op.chunk_id)
    BY <1>1 DEF AppendChunk, Put
  <1>3. ids \in Seq(ChunkId)
    <2>1. CASE Exists(op.block_id)
      BY <2>1, BlockwiseIInv DEF BlockOrEmpty, Exists, GoodBlock, BlockState
    <2>2. CASE ~Exists(op.block_id)
      BY <2>2 DEF BlockOrEmpty, EmptyBlock
    <2>. QED
      BY <2>1, <2>2
  <1>. HIDE DEF ids
  <1>4. /\ Len(Append(ids, op.chunk_id)) = Len(ids) + 1
        /\ Append(ids, op.chunk_id)[Len(ids) + 1] = op.chunk_id
        /\ Len(ids) + 1 \in 1 .. Len(ids) + 1
    BY <1>3
  <1>. QED
    BY <1>2, <1>4 DEF IsAppended, Elements

\* No operation takes a chunk out of a block.
LEMMA ChunkStays ==
  ASSUME IInv, NEW op \in Operation, Apply(op), NEW first, IsAppended(first)
  PROVE  first.block_id \in DOMAIN blocks'
         /\ first.chunk_id \in
              Elements(blocks'[first.block_id].applied_chunk_ids)
  <1>. DEFINE b == first.block_id
              before == blocks[b].applied_chunk_ids
              after == blocks'[b].applied_chunk_ids
  <1>1. b \in DOMAIN blocks /\ before \in Seq(ChunkId)
    BY BlockwiseIInv DEF IsAppended, GoodBlock, BlockState
  <1>2. /\ b \in DOMAIN blocks'
        /\ after = before \/ \E c \in ChunkId : after = Append(before, c)
    BY <1>1, BlockStep
  <1>3. PICK i \in 1 .. Len(before) : before[i] = first.chunk_id
    BY DEF IsAppended, Elements
  <1>. HIDE DEF before, after
  <1>4. i \in 1 .. Len(after) /\ after[i] = before[i]
    BY <1>1, <1>2, <1>3
  <1>. QED
    BY <1>2, <1>3, <1>4 DEF Elements, after

LEMMA BatchInductive == BatchIInv /\ [BatchNext]_batchVars => BatchIInv'
  <1>. SUFFICES ASSUME BatchIInv, [BatchNext]_batchVars PROVE BatchIInv'
    OBVIOUS
  <1>. USE DEF BatchIInv
  <1>1. ASSUME UNCHANGED vars, BatchTypeOK',
               index' = 0 \/ UNCHANGED <<ops, index>>
        PROVE  BatchIInv'
    <2>1. IInv'
      BY <1>1, StepIInv
    <2>2. FirstChunkIsKept'
      BY <1>1 DEF FirstChunkIsKept, IsAppended, vars
    <2>. QED
      BY <1>1, <2>1, <2>2
  <1>2. CASE UNCHANGED batchVars
    BY <1>1, <1>2 DEF batchVars, BatchTypeOK
  <1>3. ASSUME NEW batch \in Batch, Call(batch)
        PROVE  BatchIInv'
    <2>1. batch \in Seq(Operation) /\ 0 \in 0 .. Len(batch)
      OBVIOUS
    <2>. QED
      BY <1>1, <1>3, <2>1 DEF Call, BatchTypeOK
  <1>4. CASE ApplyNext
    <2>. DEFINE op == ops[index + 1]
    <2>1. op \in Operation /\ Apply(op)
      BY <1>4, ApplyNextApplies
    <2>2. IInv'
      BY <2>1, ApplyIInv
    <2>3. BatchTypeOK'
      BY <1>4 DEF ApplyNext, BatchTypeOK
    <2>4. FirstChunkIsKept'
      <3>. SUFFICES ASSUME ops[1].op_type = "AppendChunk"
                    PROVE  IsAppended(ops[1])'
        BY <1>4 DEF FirstChunkIsKept, ApplyNext
      <3>1. ops' = ops
        BY <1>4 DEF ApplyNext
      <3>2. CASE index = 0
        <4>1. op = ops[1]
          BY <3>2
        <4>. QED
          BY <2>1, <3>1, <4>1, ChunkIsAppended DEF IsAppended
      <3>3. CASE index > 0
        <4>1. IsAppended(ops[1])
          BY <3>3 DEF FirstChunkIsKept
        <4>. QED
          BY <2>1, <3>1, <4>1, ChunkStays DEF IsAppended
      <3>. QED
        BY <3>2, <3>3 DEF BatchTypeOK
    <2>. QED
      BY <2>2, <2>3, <2>4
  <1>5. CASE RejectNext \/ Finish
    BY <1>1, <1>5 DEF RejectNext, Finish, BatchTypeOK
  <1>. QED
    BY <1>2, <1>3, <1>4, <1>5 DEF BatchNext

(***************************************************************************)
(* The invariant of the call holds, and with it every invariant of the     *)
(* store: a batch leaves a session that operations one by one could leave. *)
(***************************************************************************)
THEOREM BatchInvariant == BatchSpec => []BatchIInv
  <1>1. BatchInit => BatchIInv
    BY InitIInv
    DEF BatchInit, BatchIInv, BatchTypeOK, FirstChunkIsKept
  <1>. QED
    BY <1>1, BatchInductive, PTL DEF BatchSpec

(***************************************************************************)
(* A refused batch that begins with a chunk and got past it is refused at  *)
(* once when it is sent again: its chunk is in the block, and nothing the  *)
(* batch did since could take it out.                                      *)
(***************************************************************************)
THEOREM ResendRefused == BatchSpec => []ResendIsRefused
  <1>1. BatchIInv => ResendIsRefused
    <2>. SUFFICES ASSUME BatchIInv, index > 0,
                         ops[1].op_type = "AppendChunk"
                  PROVE  ~CanApply(ops[1])
      BY DEF ResendIsRefused
    <2>1. IsAppended(ops[1])
      BY DEF BatchIInv, FirstChunkIsKept
    <2>. QED
      BY <2>1
      DEF IsAppended, CanApply, CanAppendChunk, BlockOrEmpty, Exists
  <1>. QED
    BY <1>1, BatchInvariant, PTL

(***************************************************************************)
(* A batch implements the store: every step of a call applies one          *)
(* operation as StateStore does, or changes nothing of the session.        *)
(***************************************************************************)
THEOREM BatchRefinesStore == BatchSpec => BatchImplementsStore
  <1>1. BatchInit => Init
    BY DEF BatchInit
  <1>2. BatchIInv /\ [BatchNext]_batchVars => [Next]_vars
    <2>. SUFFICES ASSUME BatchIInv, [BatchNext]_batchVars PROVE [Next]_vars
      OBVIOUS
    <2>1. CASE ApplyNext
      BY <2>1, ApplyNextApplies, ApplyIsNext DEF BatchIInv
    <2>2. CASE UNCHANGED vars
      BY <2>2
    <2>. QED
      BY <2>1, <2>2
      DEF BatchNext, Call, RejectNext, Finish, batchVars
  <1>. QED
    BY <1>1, <1>2, BatchInvariant, PTL
    DEF BatchSpec, BatchImplementsStore, Spec
-----------------------------------------------------------------------------
(* The texts that PatchRange cuts. *)

USE CodeUnitAssumption

\* A set of numbers has a least one.
LEMMA LeastNumber ==
  ASSUME NEW T \in SUBSET Nat, T # {}
  PROVE  \E n \in T : \A m \in T : n <= m
  <1>1. PICK k \in T : TRUE
    OBVIOUS
  <1>. DEFINE segments == { 0 .. i : i \in {j \in T : j <= k} }
              S == FiniteSubsetsOf(0 .. k)
              R == StrictSubsetOrdering(0 .. k)
  <1>2. IsWellFoundedOn(R, S)
    BY FS_StrictSubsetOrderingWellFounded
  <1>3. segments \subseteq S /\ segments # {}
    <2>1. ASSUME NEW i \in T, i <= k PROVE 0 .. i \in S
      <3>1. 0 .. i \subseteq 0 .. k /\ i \in Int /\ 0 \in Int
        BY <2>1
      <3>2. IsFiniteSet(0 .. i)
        BY <3>1, FS_Interval
      <3>. QED
        BY <3>1, <3>2 DEF FiniteSubsetsOf
    <2>2. 0 .. k \in segments
      OBVIOUS
    <2>. QED
      BY <2>1, <2>2
  <1>4. \E x \in segments : \A y \in segments : ~ (<<y, x>> \in R)
    <2>. HIDE DEF segments, S, R
    <2>. QED
      BY <1>2, <1>3, WFMin
  <1>5. PICK i \in T : /\ i <= k
                       /\ \A j \in T : j <= k => ~ (<<0 .. j, 0 .. i>> \in R)
    BY <1>4
  <1>6. ASSUME NEW j \in T, j < i
        PROVE  FALSE
    <2>1. j <= k /\ 0 .. j \subseteq 0 .. k /\ 0 .. i \subseteq 0 .. k
      BY <1>5, <1>6
    <2>2. 0 .. j \subseteq 0 .. i /\ i \in 0 .. i /\ i \notin 0 .. j
      BY <1>6
    <2>. QED
      BY <1>5, <2>1, <2>2 DEF StrictSubsetOrdering
  <1>. QED
    BY <1>5, <1>6

\* Well formed from unit i on, which is preceded by nothing.
FormedFrom(t, i) ==
  \A k \in i .. Len(t) :
    /\ t[k] \in HighSurrogate => k < Len(t) /\ t[k + 1] \in LowSurrogate
    /\ t[k] \in LowSurrogate => k > i /\ t[k - 1] \in HighSurrogate

\* What scanning yields at unit i, when g is what it yields further on.
Scanned(t, g, i) ==
  IF i > Len(t) THEN TRUE
  ELSE IF t[i] \in HighSurrogate
  THEN i < Len(t) /\ t[i + 1] \in LowSurrogate /\ g[i + 2]
  ELSE t[i] \notin LowSurrogate /\ g[i + 1]

\* A scan g is one of t when it is ScanOf(t, g).
ScanOf(t, g) == [i \in 1 .. Len(t) + 2 |-> Scanned(t, g, i)]

\* The text from unit i on, in terms of what comes after that unit.
LEMMA FormedFromUnit ==
  ASSUME NEW t \in Text, NEW i \in 1 .. Len(t)
  PROVE  /\ t[i] \in HighSurrogate =>
              FormedFrom(t, i) =
                (i < Len(t) /\ t[i + 1] \in LowSurrogate
                 /\ FormedFrom(t, i + 2))
         /\ t[i] \notin HighSurrogate =>
              FormedFrom(t, i) =
                (t[i] \notin LowSurrogate /\ FormedFrom(t, i + 1))
  <1>1. Len(t) \in Nat
    BY LenProperties DEF Text
  <1>2. ASSUME t[i] \notin HighSurrogate
        PROVE  FormedFrom(t, i) <=>
                 t[i] \notin LowSurrogate /\ FormedFrom(t, i + 1)
    <2>1. i .. Len(t) = {i} \cup (i + 1 .. Len(t))
      BY <1>1
    <2>2. t[i] \notin LowSurrogate =>
            (FormedFrom(t, i) <=> FormedFrom(t, i + 1))
      BY <1>1, <1>2, <2>1 DEF FormedFrom
    <2>3. t[i] \in LowSurrogate => ~FormedFrom(t, i)
      BY <1>1 DEF FormedFrom
    <2>. QED
      BY <2>2, <2>3
  <1>3. ASSUME t[i] \in HighSurrogate
        PROVE  FormedFrom(t, i) <=>
                 /\ i < Len(t) /\ t[i + 1] \in LowSurrogate
                 /\ FormedFrom(t, i + 2)
    <2>1. t[i] \notin LowSurrogate
      BY <1>3
    <2>2. CASE ~(i < Len(t) /\ t[i + 1] \in LowSurrogate)
      BY <1>1, <1>3, <2>2 DEF FormedFrom
    <2>3. CASE i < Len(t) /\ t[i + 1] \in LowSurrogate
      <3>1. t[i + 1] \notin HighSurrogate
        BY <2>3
      <3>2. i .. Len(t) = {i, i + 1} \cup (i + 2 .. Len(t))
        BY <1>1, <2>3
      <3>3. ASSUME NEW k \in i + 2 .. Len(t), FormedFrom(t, i)
            PROVE  t[k] \in LowSurrogate => k > i + 2
        BY <1>1, <3>1, <3>3 DEF FormedFrom
      <3>. QED
        BY <1>1, <1>3, <2>1, <2>3, <3>1, <3>2, <3>3 DEF FormedFrom
    <2>. QED
      BY <2>2, <2>3
  <1>4. FormedFrom(t, i) \in BOOLEAN
    BY DEF FormedFrom
  <1>. HIDE DEF FormedFrom
  <1>. QED
    BY <1>2, <1>3, <1>4

LEMMA ScanAt ==
  ASSUME NEW t \in Text, NEW g, NEW i \in 1 .. Len(t) + 2
  PROVE  /\ i > Len(t) => ScanOf(t, g)[i] = TRUE
         /\ i <= Len(t) /\ t[i] \in HighSurrogate =>
              ScanOf(t, g)[i] =
                (i < Len(t) /\ t[i + 1] \in LowSurrogate /\ g[i + 2])
         /\ i <= Len(t) /\ t[i] \notin HighSurrogate =>
              ScanOf(t, g)[i] = (t[i] \notin LowSurrogate /\ g[i + 1])
  <1>1. ScanOf(t, g)[i] = Scanned(t, g, i)
    BY DEF ScanOf
  <1>2. i > Len(t) <=> ~(i <= Len(t))
    BY LenProperties DEF Text
  <1>. QED
    BY <1>1, <1>2 DEF Scanned

(***************************************************************************)
(* The loop and the definition.  The definition, unit by unit, solves the  *)
(* equation of the loop (FormedFromUnit), so there is a scan; and of the   *)
(* last unit at which some scan would differ from it there is none, since  *)
(* what comes after a unit settles the unit itself.                        *)
(***************************************************************************)
LEMMA ScanIsDefinition ==
  ASSUME NEW t \in Text
  PROVE  ScanFrom(t) = IsWellFormedUtf16(t)
  <1>. DEFINE n == Len(t)
              g == [i \in 1 .. n + 2 |-> FormedFrom(t, i)]
              h == CHOOSE s : s = [i \in 1 .. Len(t) + 2 |->
                IF i > Len(t) THEN TRUE
                ELSE IF t[i] \in HighSurrogate
                THEN i < Len(t) /\ t[i + 1] \in LowSurrogate /\ s[i + 2]
                ELSE t[i] \notin LowSurrogate /\ s[i + 1]]
  <1>1. n \in Nat
    BY LenProperties DEF Text
  <1>2. g = ScanOf(t, g)
    <2>1. ASSUME NEW i \in 1 .. n + 2
          PROVE  FormedFrom(t, i) = ScanOf(t, g)[i]
      <3>1. CASE i > n
        <4>1. FormedFrom(t, i) /\ FormedFrom(t, i) \in BOOLEAN
          BY <1>1, <3>1 DEF FormedFrom
        <4>2. ScanOf(t, g)[i] = TRUE
          <5>. HIDE DEF g
          <5>. QED
            BY <3>1, ScanAt
        <4>. QED
          BY <4>1, <4>2
      <3>2. CASE i <= n
        <4>1. /\ i \in 1 .. Len(t) /\ i <= Len(t) /\ i \in 1 .. Len(t) + 2
              /\ i + 1 \in 1 .. n + 2 /\ i + 2 \in 1 .. n + 2
          BY <1>1, <3>2
        <4>2. CASE t[i] \in HighSurrogate
          <5>1. g[i + 2] = FormedFrom(t, i + 2)
            BY <4>1
          <5>. HIDE DEF g
          <5>2. ScanOf(t, g)[i] =
                  (i < n /\ t[i + 1] \in LowSurrogate /\ g[i + 2])
            BY <4>1, <4>2, ScanAt
          <5>3. FormedFrom(t, i) =
                  (i < n /\ t[i + 1] \in LowSurrogate
                   /\ FormedFrom(t, i + 2))
            BY <4>1, <4>2, FormedFromUnit
          <5>. QED
            BY <5>1, <5>2, <5>3
        <4>3. CASE t[i] \notin HighSurrogate
          <5>1. g[i + 1] = FormedFrom(t, i + 1)
            BY <4>1
          <5>. HIDE DEF g
          <5>2. ScanOf(t, g)[i] =
                  (t[i] \notin LowSurrogate /\ g[i + 1])
            BY <4>1, <4>3, ScanAt
          <5>3. FormedFrom(t, i) =
                  (t[i] \notin LowSurrogate /\ FormedFrom(t, i + 1))
            BY <4>1, <4>3, FormedFromUnit
          <5>. QED
            BY <5>1, <5>2, <5>3
        <4>. QED
          BY <4>2, <4>3
      <3>. QED
        BY <1>1, <3>1, <3>2
    <2>2. ASSUME NEW i \in 1 .. n + 2
          PROVE  FormedFrom(t, i) = Scanned(t, g, i)
      <3>1. ScanOf(t, g)[i] = Scanned(t, g, i)
        BY DEF ScanOf
      <3>. QED
        BY <2>1, <3>1, Zenon
    <2>. QED
      BY <2>2 DEF ScanOf
  <1>3. h = ScanOf(t, h)
    <2>. HIDE DEF g
    <2>1. h = CHOOSE s : s = ScanOf(t, s)
      BY DEF ScanOf, Scanned
    <2>. HIDE DEF h
    <2>. QED
      BY <1>2, <2>1
  <1>4. ScanFrom(t) = h[1]
    BY DEF ScanFrom
  <1>. HIDE DEF h
  <1>5. \A i \in 1 .. n + 2 : h[i] = FormedFrom(t, i)
    <2>. SUFFICES ASSUME NEW j \in 1 .. n + 2, h[j] # FormedFrom(t, j)
                  PROVE  FALSE
      OBVIOUS
    <2>. DEFINE T == {m \in 0 .. n + 1 :
                        h[n + 2 - m] # FormedFrom(t, n + 2 - m)}
    <2>1. n + 2 - j \in T
      <3>1. n + 2 - (n + 2 - j) = j /\ n + 2 - j \in 0 .. n + 1
        BY <1>1
      <3>. QED
        BY <3>1
    <2>2. PICK m \in T : \A k \in T : m <= k
      <3>. HIDE DEF T
      <3>1. T \in SUBSET Nat
        BY DEF T
      <3>. QED
        BY <2>1, <3>1, LeastNumber
    <2>. DEFINE i == n + 2 - m
    <2>3. i \in 1 .. n + 2 /\ h[i] # FormedFrom(t, i)
      BY <1>1, <2>2
    <2>4. ASSUME NEW k \in i + 1 .. n + 2
          PROVE  h[k] = FormedFrom(t, k)
      <3>1. n + 2 - k \in 0 .. n + 1 /\ n + 2 - k < m
            /\ n + 2 - (n + 2 - k) = k
        BY <1>1, <2>2
      <3>2. n + 2 - k \notin T
        BY <1>1, <2>2, <3>1
      <3>. QED
        BY <3>1, <3>2
    <2>. HIDE DEF T, i
    <2>5. CASE i > n
      <3>1. FormedFrom(t, i)
        BY <1>1, <2>3, <2>5 DEF FormedFrom
      <3>2. h[i] = TRUE
        <4>1. ScanOf(t, h)[i] = TRUE
          BY <2>3, <2>5, ScanAt
        <4>. QED
          BY <1>3, <4>1
      <3>. QED
        BY <2>3, <3>1, <3>2
    <2>6. CASE i <= n
      <3>1. /\ i \in 1 .. n /\ i + 1 \in i + 1 .. n + 2
            /\ i + 2 \in i + 1 .. n + 2
        BY <1>1, <2>3, <2>6
      <3>2. h[i + 1] = FormedFrom(t, i + 1) /\ h[i + 2] = FormedFrom(t, i + 2)
        BY <2>4, <3>1
      <3>3. FormedFrom(t, i) = ScanOf(t, h)[i]
        <4>1. /\ i \in 1 .. Len(t) /\ i <= Len(t) /\ i \in 1 .. Len(t) + 2
          BY <1>1, <2>3, <3>1
        <4>2. CASE t[i] \in HighSurrogate
          <5>1. h[i + 2] = FormedFrom(t, i + 2)
            BY <3>2
          <5>2. ScanOf(t, h)[i] =
                  (i < n /\ t[i + 1] \in LowSurrogate /\ h[i + 2])
            BY <4>1, <4>2, ScanAt
          <5>3. FormedFrom(t, i) =
                  (i < n /\ t[i + 1] \in LowSurrogate
                   /\ FormedFrom(t, i + 2))
            BY <4>1, <4>2, FormedFromUnit
          <5>. QED
            BY <5>1, <5>2, <5>3
        <4>3. CASE t[i] \notin HighSurrogate
          <5>1. h[i + 1] = FormedFrom(t, i + 1)
            BY <3>2
          <5>2. ScanOf(t, h)[i] =
                  (t[i] \notin LowSurrogate /\ h[i + 1])
            BY <4>1, <4>3, ScanAt
          <5>3. FormedFrom(t, i) =
                  (t[i] \notin LowSurrogate /\ FormedFrom(t, i + 1))
            BY <4>1, <4>3, FormedFromUnit
          <5>. QED
            BY <5>1, <5>2, <5>3
        <4>. QED
          BY <4>2, <4>3
      <3>. QED
        BY <1>3, <2>3, <3>3
    <2>. QED
      BY <1>1, <2>3, <2>5, <2>6
  <1>6. FormedFrom(t, 1) = IsWellFormedUtf16(t)
    BY DEF FormedFrom, IsWellFormedUtf16
  <1>. QED
    BY <1>1, <1>4, <1>5, <1>6

LEMMA ReplacementIsText ==
  ASSUME NEW r \in Replacements
  PROVE  r \in Text /\ IsNonEmptyPayload(r) /\ IsWellFormedUtf16(r)
  <1>1. ASSUME NEW u \in PlainUnit, r = <<u>>
        PROVE  r \in Text /\ IsNonEmptyPayload(r) /\ IsWellFormedUtf16(r)
    BY <1>1 DEF Text, CodeUnit, IsWellFormedUtf16, IsNonEmptyPayload
  <1>2. ASSUME NEW h \in HighSurrogate, NEW l \in LowSurrogate, r = <<h, l>>
        PROVE  r \in Text /\ IsNonEmptyPayload(r) /\ IsWellFormedUtf16(r)
    BY <1>2 DEF Text, CodeUnit, IsWellFormedUtf16, IsNonEmptyPayload
  <1>. QED
    BY <1>1, <1>2 DEF Replacements

(***************************************************************************)
(* For every text, however long: the loop of isWellFormedUtf16 accepts it  *)
(* exactly when every surrogate in it has its other half, and then its     *)
(* boundaries are the offsets at which PatchRange can cut it               *)
(* (state-store.ts:243, 251, 331-348).                                     *)
(***************************************************************************)
THEOREM SafeCuts == TextSpec => []BoundariesAreTheSafeCuts
  <1>1. TextInit => TextTypeOK
    BY DEF TextInit, TextTypeOK, Text
  <1>2. TextTypeOK /\ [TextNext]_text => TextTypeOK'
    <2>1. ASSUME TextTypeOK, NEW u \in CodeUnit, TypeUnit(u)
          PROVE  TextTypeOK'
      BY <2>1, AppendProperties DEF TypeUnit, TextTypeOK, Text
    <2>2. StartOver => TextTypeOK'
      BY DEF StartOver, TextTypeOK, Text
    <2>. QED
      BY <2>1, <2>2 DEF TextNext, TextTypeOK
  <1>3. TextTypeOK => BoundariesAreTheSafeCuts
    <2>. SUFFICES ASSUME text \in Text PROVE BoundariesAreTheSafeCuts
      BY DEF TextTypeOK
    <2>1. IsWellFormedUtf16(text) = ScanFrom(text)
      BY ScanIsDefinition
    <2>2. ASSUME IsWellFormedUtf16(text),
                 NEW s \in 0 .. Len(text), NEW e \in s .. Len(text),
                 NEW r \in Replacements
          PROVE  IsWellFormedUtf16(Splice(text, s, e, r)) <=>
                   IsUtf16OffsetBoundary(text, s)
                   /\ IsUtf16OffsetBoundary(text, e)
      BY <2>2, ReplacementIsText, BoundariesAreNeeded
    <2>. QED
      BY <2>1, <2>2 DEF BoundariesAreTheSafeCuts
  <1>. QED
    BY <1>1, <1>2, <1>3, PTL DEF TextSpec
=============================================================================
