---------------------------- MODULE MCStateStore ----------------------------
(***************************************************************************)
(* A small instance of the store, in three parts.  A caller applies        *)
(* operations one by one, every operation there is, or in batches, chosen  *)
(* ones: the two ways into state-store.ts (lines 74 and 108).  In the      *)
(* third part every short text is typed, one code unit at a time, to       *)
(* compare the definitions of Utf16Text with the code's scanning loop.     *)
(***************************************************************************)
EXTENDS OperationBatch, TypedText

CONSTANTS a, H, L, b1, b2, c1, c2, m1

VARIABLE part  \* "operations", "batches" or "texts"

partVars == <<part, text, batchVars>>

\* Texts over one plain unit and one surrogate pair, so that a patch can
\* meet every kind of offset.
MCHighSurrogate == {H}
MCLowSurrogate == {L}
MCPlainUnit == {a}

\* A plain unit, a pair, a lone half, the empty text and a reference.
MCPayload == {<<a>>, <<H, L>>, <<L>>, <<>>, PayloadRef}

\* One block, both, none, and the same block twice.
MCBlockIdList == {<<b1>>, <<b2, b1>>, <<>>, <<b1, b1>>}

Chunk(v, b, c, p, off) ==
  [op_type |-> "AppendChunk", session_version |-> v, block_id |-> b,
   chunk_id |-> c, payload |-> p, append_offset |-> off]
Patch(v, b, from, to, p) ==
  [op_type |-> "PatchRange", session_version |-> v, block_id |-> b,
   start_offset |-> from, end_offset |-> to, payload |-> p]
Seal(v, b, len) ==
  [op_type |-> "SealBlock", session_version |-> v, block_id |-> b,
   final_length |-> len]
Message(v, bs) ==
  [op_type |-> "AddMessage", session_version |-> v, message_id |-> m1,
   block_ids |-> bs]
Cancel(v) == [op_type |-> "CancelTransaction", session_version |-> v]

\* Batches that are refused at their first, their second or no operation,
\* depending on what came before.
MCBatch ==
  { <<>>,
    <<Chunk(0, b1, c1, <<a>>, 0)>>,
    <<Chunk(0, b1, c1, <<a>>, 0), Chunk(0, b1, c2, <<H, L>>, 1)>>,
    <<Chunk(1, b2, c1, <<a>>, 0), Message(0, <<b2, b1>>)>>,
    <<Chunk(0, b1, c1, <<H, L>>, 0), Chunk(0, b1, c1, <<H, L>>, 2)>>,
    <<Patch(0, b1, 1, 1, <<a>>), Chunk(0, b2, c2, <<L>>, 0),
      Seal(0, b1, 2)>>,
    <<Chunk(0, b1, c2, <<H, L>>, 1), Patch(0, b1, 0, 3, <<a>>),
      Seal(0, b1, 2)>>,
    <<Seal(0, b1, 3), Message(0, <<b1>>), Cancel(1)>>,
    <<Cancel(1), Chunk(1, b2, c1, <<a>>, 0), Seal(1, b2, 1),
      Chunk(1, b2, c2, <<a>>, 1)>> }

PartInit ==
  /\ part \in {"operations", "batches", "texts"}
  /\ TextInit
  /\ BatchInit

OneByOne ==
  part = "operations" /\ UNCHANGED <<part, text, ops, index, answer, given>>
InBatches == part = "batches" /\ UNCHANGED <<part, text>>
InTexts == part = "texts" /\ UNCHANGED <<part, batchVars>>

PartNext ==
  \/ \E op \in AppendChunkOp : OneByOne /\ AppendChunk(op)
  \/ \E op \in SealBlockOp : OneByOne /\ SealBlock(op)
  \/ \E op \in PatchRangeOp : OneByOne /\ PatchRange(op)
  \/ \E op \in AddMessageOp : OneByOne /\ AddMessage(op)
  \/ \E op \in NoOp : OneByOne /\ StateNoOp(op)
  \/ \E batch \in Batch : InBatches /\ Call(batch)
  \/ InBatches /\ ApplyNext
  \/ InBatches /\ RejectNext
  \/ InBatches /\ Finish
  \/ \E u \in CodeUnit : InTexts /\ TypeUnit(u)
  \/ InTexts /\ StartOver

PartSpec == PartInit /\ [][PartNext]_partVars
=============================================================================
