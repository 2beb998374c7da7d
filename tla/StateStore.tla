----------------------------- MODULE StateStore -----------------------------
(***************************************************************************)
(* The session state of the runtime core (runtime/core/state-store.ts):    *)
(* blocks of streamed text, the messages that refer to them, and the       *)
(* session version.  applyOperationToState(state, op) either returns a new *)
(* state or rejects the operation and returns the state it was given.      *)
(*                                                                         *)
(* An operation is a record.  CanApply(op) holds when every check passes   *)
(* on the way through applyOperationToState, the ones validateOperation    *)
(* (op-validation.ts) makes first included, and Apply(op) is the step it   *)
(* then takes; otherwise the code rejects op and nothing changes, which is *)
(* a stuttering step here.                                                 *)
(*                                                                         *)
(* Left out: checksum, role and created_at_ms, which are copied and never  *)
(* read; the stored length, which is always recomputed from the text.      *)
(***************************************************************************)
EXTENDS Utf16Text, FiniteSets

CONSTANTS
  BlockId, ChunkId, MessageId,
  PayloadRef,       \* a payload passed by reference
  Payload,          \* the inline texts and references operations carry
  BlockIdList,      \* the block_ids arrays AddMessage operations carry
  InitialVersion,   \* the argument of createEmptySessionState
  MaxVersion,       \* bound: the highest session_version an operation carries
  MaxLength         \* bound: the longest text a block may grow to

ASSUME PayloadAssumption ==
  /\ Payload \subseteq Text \cup {PayloadRef}
  /\ PayloadRef \notin Text
ASSUME BlockIdListAssumption == BlockIdList \subseteq Seq(BlockId)
ASSUME VersionAssumption ==
  /\ InitialVersion \in Nat
  /\ MaxVersion \in Nat
  /\ InitialVersion <= MaxVersion
ASSUME LengthAssumption == MaxLength \in Nat

VARIABLES
  session_version,
  blocks,    \* block_id -> BlockState, for the blocks that exist
  messages   \* message_id -> block_ids, for the messages that exist

vars == <<session_version, blocks, messages>>

Version == 0 .. MaxVersion
Offset == 0 .. MaxLength

BlockState ==
  [text : Text, sealed : BOOLEAN, applied_chunk_ids : Seq(ChunkId)]

AppendChunkOp ==
  [op_type : {"AppendChunk"}, session_version : Version, block_id : BlockId,
   chunk_id : ChunkId, payload : Payload, append_offset : Offset]
SealBlockOp ==
  [op_type : {"SealBlock"}, session_version : Version, block_id : BlockId,
   final_length : Offset]
PatchRangeOp ==
  [op_type : {"PatchRange"}, session_version : Version, block_id : BlockId,
   start_offset : Offset, end_offset : Offset, payload : Payload]
AddMessageOp ==
  [op_type : {"AddMessage"}, session_version : Version,
   message_id : MessageId, block_ids : BlockIdList]
NoOpTypes ==
  {"SetViewport", "RequestProjection", "CancelTransaction",
   "CommitProjectionAck"}
NoOp == [op_type : NoOpTypes, session_version : Version]

Operation ==
  AppendChunkOp \cup SealBlockOp \cup PatchRangeOp \cup AddMessageOp \cup NoOp
-----------------------------------------------------------------------------
Put(f, k, v) ==
  [x \in DOMAIN f \cup {k} |-> IF x = k THEN v ELSE f[x]]

Exists(b) == b \in DOMAIN blocks

EmptyBlock == [text |-> <<>>, sealed |-> FALSE, applied_chunk_ids |-> <<>>]

BlockOrEmpty(b) == IF Exists(b) THEN blocks[b] ELSE EmptyBlock

IsNonEmptyPayload(p) == p # <<>>

\* Seeded fault: the check of isWellFormedUtf16 is missing.
IsInlineText_unchecked(p) == p \in Text

\* What AppendChunk and PatchRange accept as text: inline and well formed.
IsInlineText(p) == p \in Text /\ IsWellFormedUtf16(p)

Elements(s) == { s[i] : i \in 1 .. Len(s) }

\* Seeded fault: the empty payload passes.
IsValidOperation_anyPayload(op) ==
  CASE op.op_type = "PatchRange" -> op.start_offset <= op.end_offset
    [] op.op_type = "AddMessage" -> op.block_ids # <<>>
    [] OTHER -> TRUE

\* requirePayloadOrRef and the checks of validateAddMessage and
\* validatePatchRange that do not follow from the types of the fields.
IsValidOperation(op) ==
  CASE op.op_type = "AppendChunk" -> IsNonEmptyPayload(op.payload)
    [] op.op_type = "PatchRange" ->
         IsNonEmptyPayload(op.payload) /\ op.start_offset <= op.end_offset
    [] op.op_type = "AddMessage" ->
         /\ op.block_ids # <<>>
         /\ \A i, j \in 1 .. Len(op.block_ids) :
              op.block_ids[i] = op.block_ids[j] => i = j
    [] OTHER -> TRUE

IsCurrent(op) == op.session_version >= session_version

AdvanceSessionVersion(op) ==
  session_version' = IF op.session_version > session_version
                       THEN op.session_version ELSE session_version

\* Seeded fault: the chunk id is not looked up.
CanAppendChunk_again(op) ==
  LET block == BlockOrEmpty(op.block_id) IN
  /\ IsInlineText(op.payload)
  /\ ~block.sealed
  /\ op.append_offset = Len(block.text)
  /\ Len(block.text) + Len(op.payload) <= MaxLength

CanAppendChunk(op) ==
  LET block == BlockOrEmpty(op.block_id) IN
  /\ IsInlineText(op.payload)
  /\ ~block.sealed
  /\ op.chunk_id \notin Elements(block.applied_chunk_ids)
  /\ op.append_offset = Len(block.text)
  /\ Len(block.text) + Len(op.payload) <= MaxLength

\* A block that is already sealed passes the same checks again.
CanSealBlock(op) ==
  /\ Exists(op.block_id)
  /\ op.final_length = Len(blocks[op.block_id].text)

PatchedText(op) ==
  Splice(blocks[op.block_id].text, op.start_offset, op.end_offset, op.payload)

\* Seeded fault: the seal is not looked at.
CanPatchRange_sealed(op) ==
  /\ Exists(op.block_id)
  /\ IsInlineText(op.payload)
  /\ IsUtf16OffsetBoundary(blocks[op.block_id].text, op.start_offset)
  /\ IsUtf16OffsetBoundary(blocks[op.block_id].text, op.end_offset)
  /\ Len(PatchedText(op)) <= MaxLength

CanPatchRange(op) ==
  /\ Exists(op.block_id)
  /\ ~blocks[op.block_id].sealed
  /\ IsInlineText(op.payload)
  /\ IsUtf16OffsetBoundary(blocks[op.block_id].text, op.start_offset)
  /\ IsUtf16OffsetBoundary(blocks[op.block_id].text, op.end_offset)
  /\ Len(PatchedText(op)) <= MaxLength

CanAddMessage(op) ==
  /\ op.message_id \notin DOMAIN messages
  /\ \A b \in Elements(op.block_ids) : Exists(b)

\* applyOperationToState accepts op in the current state.
CanApply(op) ==
  /\ IsValidOperation(op)
  /\ IsCurrent(op)
  /\ op.op_type = "AppendChunk" => CanAppendChunk(op)
  /\ op.op_type = "SealBlock" => CanSealBlock(op)
  /\ op.op_type = "PatchRange" => CanPatchRange(op)
  /\ op.op_type = "AddMessage" => CanAddMessage(op)
-----------------------------------------------------------------------------
AppendChunk(op) ==
  LET block == BlockOrEmpty(op.block_id) IN
  /\ op.op_type = "AppendChunk"
  /\ CanApply(op)
  /\ blocks' = Put(blocks, op.block_id,
                   [text |-> block.text \o op.payload,
                    sealed |-> FALSE,
                    applied_chunk_ids |->
                      Append(block.applied_chunk_ids, op.chunk_id)])
  /\ AdvanceSessionVersion(op)
  /\ UNCHANGED messages

SealBlock(op) ==
  /\ op.op_type = "SealBlock"
  /\ CanApply(op)
  /\ blocks' = [blocks EXCEPT ![op.block_id].sealed = TRUE]
  /\ AdvanceSessionVersion(op)
  /\ UNCHANGED messages

PatchRange(op) ==
  /\ op.op_type = "PatchRange"
  /\ CanApply(op)
  /\ blocks' = [blocks EXCEPT ![op.block_id].text = PatchedText(op)]
  /\ AdvanceSessionVersion(op)
  /\ UNCHANGED messages

AddMessage(op) ==
  /\ op.op_type = "AddMessage"
  /\ CanApply(op)
  /\ messages' = Put(messages, op.message_id, op.block_ids)
  /\ AdvanceSessionVersion(op)
  /\ UNCHANGED blocks

StateNoOp(op) ==
  /\ op.op_type \in NoOpTypes
  /\ CanApply(op)
  /\ AdvanceSessionVersion(op)
  /\ UNCHANGED <<blocks, messages>>

Apply(op) ==
  \/ AppendChunk(op)
  \/ SealBlock(op)
  \/ PatchRange(op)
  \/ AddMessage(op)
  \/ StateNoOp(op)

Init ==
  /\ session_version = InitialVersion
  /\ blocks = <<>>
  /\ messages = <<>>

Next ==
  \/ \E op \in AppendChunkOp : AppendChunk(op)
  \/ \E op \in SealBlockOp : SealBlock(op)
  \/ \E op \in PatchRangeOp : PatchRange(op)
  \/ \E op \in AddMessageOp : AddMessage(op)
  \/ \E op \in NoOp : StateNoOp(op)

Spec == Init /\ [][Next]_vars
-----------------------------------------------------------------------------
(***************************************************************************)
(* The stored session has the shape of SessionState (state-store.ts:31).   *)
(***************************************************************************)
TypeOK ==
  /\ session_version \in Version
  /\ DOMAIN blocks \subseteq BlockId
  /\ \A b \in DOMAIN blocks : blocks[b] \in BlockState
  /\ DOMAIN messages \subseteq MessageId
  /\ \A m \in DOMAIN messages : messages[m] \in BlockIdList

(***************************************************************************)
(* No sequence of appends and patches ever leaves a lone surrogate in a    *)
(* block: appended chunks are well formed by themselves, and a patch may   *)
(* only cut where no pair is split (state-store.ts:162, 243, 251).         *)
(***************************************************************************)
TextsWellFormed ==
  \A b \in DOMAIN blocks : IsWellFormedUtf16(blocks[b].text)

(***************************************************************************)
(* A chunk is part of a block at most once, however often it is resent and *)
(* however the text was patched in between (state-store.ts:171).           *)
(***************************************************************************)
ChunksAppliedOnce ==
  \A b \in DOMAIN blocks :
    LET ids == blocks[b].applied_chunk_ids
    IN \A i, j \in 1 .. Len(ids) : ids[i] = ids[j] => i = j

(***************************************************************************)
(* Every block a message lists exists and shows at least one code unit:    *)
(* blocks come into being only by an append of a non-empty chunk, patches  *)
(* cannot empty them, and AddMessage looks its blocks up                   *)
(* (state-store.ts:280, op-validation.ts:250).                             *)
(***************************************************************************)
MessagesShowBlocks ==
  \A m \in DOMAIN messages : \A b \in Elements(messages[m]) :
    b \in DOMAIN blocks /\ blocks[b].text # <<>>

(***************************************************************************)
(* The inductive invariant.  MessagesShowBlocks is not inductive by itself:*)
(* AddMessage only checks that its blocks exist, so every existing block   *)
(* must be known to have text.                                             *)
(***************************************************************************)
BlocksNonEmpty == \A b \in DOMAIN blocks : blocks[b].text # <<>>

IInv ==
  /\ TypeOK
  /\ TextsWellFormed
  /\ ChunksAppliedOnce
  /\ BlocksNonEmpty
  /\ MessagesShowBlocks

(***************************************************************************)
(* A sealed block keeps its text, its chunks and its seal for ever, even   *)
(* when later operations of a higher version name it                       *)
(* (state-store.ts:167, 235, and the absence of a seal check at 201).      *)
(***************************************************************************)
SealedBlocksFrozen ==
  [][\A b \in DOMAIN blocks :
       blocks[b].sealed => b \in DOMAIN blocks' /\ blocks'[b] = blocks[b]]_vars

(***************************************************************************)
(* The session only grows: the version never goes back, no block or        *)
(* message is dropped, a message keeps its blocks, and the chunks of a     *)
(* block are only added to at the end.                                     *)
(***************************************************************************)
SessionOnlyGrows ==
  [][/\ session_version' >= session_version
     /\ \A b \in DOMAIN blocks :
          LET before == blocks[b].applied_chunk_ids
              after == blocks'[b].applied_chunk_ids
          IN /\ b \in DOMAIN blocks'
             /\ Len(before) <= Len(after)
             /\ SubSeq(after, 1, Len(before)) = before
     /\ \A m \in DOMAIN messages :
          m \in DOMAIN messages' /\ messages'[m] = messages[m]]_vars
=============================================================================
