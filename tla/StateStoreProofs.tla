-------------------------- MODULE StateStoreProofs --------------------------
(***************************************************************************)
(* Proofs about StateStore, for every set of blocks, chunks, messages and  *)
(* payloads and for every bound.                                           *)
(***************************************************************************)
EXTENDS StateStore, SequenceTheorems, TLAPS
-----------------------------------------------------------------------------
(* Texts of every length: they may be appended to one another, and they    *)
(* may be cut at boundaries.                                               *)

LEMMA SubTextProperties ==
  ASSUME NEW t \in Text, NEW m \in 1 .. Len(t) + 1, NEW n \in 0 .. Len(t),
         m <= n + 1
  PROVE  /\ SubSeq(t, m, n) \in Text
         /\ Len(SubSeq(t, m, n)) = n - m + 1
         /\ \A i \in 1 .. n - m + 1 : SubSeq(t, m, n)[i] = t[m + i - 1]
  <1>1. Len(t) \in Nat /\ \A i \in m .. n : t[i] \in CodeUnit
    BY LenProperties DEF Text
  <1>2. m \in Int /\ n \in Int
    BY <1>1
  <1>. QED
    BY <1>1, <1>2, SubSeqProperties DEF Text

(***************************************************************************)
(* Appending a well-formed chunk keeps a block's text well formed.         *)
(***************************************************************************)
THEOREM ConcatWellFormed ==
  ASSUME NEW s \in Text, NEW t \in Text,
         IsWellFormedUtf16(s), IsWellFormedUtf16(t)
  PROVE  IsWellFormedUtf16(s \o t)
  <1>. DEFINE st == s \o t
  <1>1. /\ st \in Text
        /\ Len(st) = Len(s) + Len(t)
        /\ \A i \in 1 .. Len(s) + Len(t) :
             st[i] = IF i <= Len(s) THEN s[i] ELSE t[i - Len(s)]
    BY ConcatProperties DEF Text
  <1>2. Len(s) \in Nat /\ Len(t) \in Nat
    BY LenProperties DEF Text
  <1>. SUFFICES ASSUME NEW i \in 1 .. Len(st)
                PROVE  /\ st[i] \in HighSurrogate =>
                            i < Len(st) /\ st[i + 1] \in LowSurrogate
                       /\ st[i] \in LowSurrogate =>
                            i > 1 /\ st[i - 1] \in HighSurrogate
    BY DEF IsWellFormedUtf16
  <1>3. CASE i <= Len(s)
    <2>1. st[i] = s[i]
      BY <1>1, <1>2, <1>3
    <2>2. ASSUME s[i] \in HighSurrogate
          PROVE  i < Len(st) /\ st[i + 1] \in LowSurrogate
      <3>1. i < Len(s) /\ s[i + 1] \in LowSurrogate
        BY <1>2, <1>3, <2>2 DEF IsWellFormedUtf16
      <3>. QED
        BY <1>1, <1>2, <3>1
    <2>3. ASSUME s[i] \in LowSurrogate
          PROVE  i > 1 /\ st[i - 1] \in HighSurrogate
      <3>1. i > 1 /\ s[i - 1] \in HighSurrogate
        BY <1>2, <1>3, <2>3 DEF IsWellFormedUtf16
      <3>. QED
        BY <1>1, <1>2, <1>3, <3>1
    <2>. QED
      BY <2>1, <2>2, <2>3
  <1>4. CASE i > Len(s)
    <2>. DEFINE j == i - Len(s)
    <2>1. j \in 1 .. Len(t) /\ st[i] = t[j]
      BY <1>1, <1>2, <1>4
    <2>2. ASSUME t[j] \in HighSurrogate
          PROVE  i < Len(st) /\ st[i + 1] \in LowSurrogate
      <3>1. j < Len(t) /\ t[j + 1] \in LowSurrogate
        BY <2>1, <2>2 DEF IsWellFormedUtf16
      <3>. QED
        BY <1>1, <1>2, <1>4, <3>1
    <2>3. ASSUME t[j] \in LowSurrogate
          PROVE  i > 1 /\ st[i - 1] \in HighSurrogate
      <3>1. j > 1 /\ t[j - 1] \in HighSurrogate
        BY <2>1, <2>3 DEF IsWellFormedUtf16
      <3>. QED
        BY <1>1, <1>2, <1>4, <3>1
    <2>. QED
      BY <2>1, <2>2, <2>3
  <1>5. i <= Len(s) \/ i > Len(s)
    BY <1>1, <1>2
  <1>. QED
    BY <1>3, <1>4, <1>5

(***************************************************************************)
(* Both sides of a cut at a boundary are well formed.                      *)
(***************************************************************************)
LEMMA CutWellFormed ==
  ASSUME NEW t \in Text, IsWellFormedUtf16(t),
         NEW k \in 0 .. Len(t), IsUtf16OffsetBoundary(t, k)
  PROVE  /\ IsWellFormedUtf16(SubSeq(t, 1, k))
         /\ IsWellFormedUtf16(SubSeq(t, k + 1, Len(t)))
  <1>1. Len(t) \in Nat
    BY LenProperties DEF Text
  <1>. DEFINE left == SubSeq(t, 1, k)
              right == SubSeq(t, k + 1, Len(t))
  <1>2. /\ Len(left) = k
        /\ \A i \in 1 .. k : left[i] = t[i]
    BY <1>1, SubTextProperties
  <1>3. /\ Len(right) = Len(t) - k
        /\ \A i \in 1 .. Len(t) - k : right[i] = t[k + i]
    BY <1>1, SubTextProperties
  <1>4. ASSUME NEW i \in 1 .. Len(left)
        PROVE  /\ left[i] \in HighSurrogate =>
                    i < Len(left) /\ left[i + 1] \in LowSurrogate
               /\ left[i] \in LowSurrogate =>
                    i > 1 /\ left[i - 1] \in HighSurrogate
    <2>1. left[i] = t[i] /\ i \in 1 .. Len(t) /\ i <= k
      BY <1>1, <1>2
    <2>2. ASSUME t[i] \in HighSurrogate
          PROVE  i < k /\ left[i + 1] \in LowSurrogate
      <3>1. i < Len(t) /\ t[i + 1] \in LowSurrogate
        BY <2>1, <2>2 DEF IsWellFormedUtf16
      <3>2. i # k
        BY <1>1, <2>1, <2>2, <3>1 DEF IsUtf16OffsetBoundary
      <3>. QED
        BY <1>1, <1>2, <2>1, <3>1, <3>2
    <2>3. ASSUME t[i] \in LowSurrogate
          PROVE  i > 1 /\ left[i - 1] \in HighSurrogate
      <3>1. i > 1 /\ t[i - 1] \in HighSurrogate
        BY <2>1, <2>3 DEF IsWellFormedUtf16
      <3>. QED
        BY <1>1, <1>2, <2>1, <3>1
    <2>. QED
      BY <1>2, <2>1, <2>2, <2>3
  <1>5. ASSUME NEW i \in 1 .. Len(right)
        PROVE  /\ right[i] \in HighSurrogate =>
                    i < Len(right) /\ right[i + 1] \in LowSurrogate
               /\ right[i] \in LowSurrogate =>
                    i > 1 /\ right[i - 1] \in HighSurrogate
    <2>1. right[i] = t[k + i] /\ k + i \in 1 .. Len(t)
      BY <1>1, <1>3
    <2>2. ASSUME t[k + i] \in HighSurrogate
          PROVE  i < Len(right) /\ right[i + 1] \in LowSurrogate
      <3>1. k + i < Len(t) /\ t[k + i + 1] \in LowSurrogate
        BY <2>1, <2>2 DEF IsWellFormedUtf16
      <3>. QED
        BY <1>1, <1>3, <3>1
    <2>3. ASSUME t[k + i] \in LowSurrogate
          PROVE  i > 1 /\ right[i - 1] \in HighSurrogate
      <3>1. k + i > 1 /\ t[k + i - 1] \in HighSurrogate
        BY <2>1, <2>3 DEF IsWellFormedUtf16
      <3>2. i # 1
        BY SMTT(30), <1>1, <2>1, <2>3, <3>1 DEF IsUtf16OffsetBoundary
      <3>. QED
        BY <1>1, <1>3, <2>1, <3>1, <3>2
    <2>. QED
      BY <2>1, <2>2, <2>3
  <1>. QED
    BY <1>4, <1>5 DEF IsWellFormedUtf16

(***************************************************************************)
(* Why the boundary checks of PatchRange are enough: replacing the range   *)
(* between two boundaries by a well-formed text keeps the text well        *)
(* formed.                                                                 *)
(***************************************************************************)
THEOREM SpliceWellFormed ==
  ASSUME NEW t \in Text, NEW r \in Text,
         NEW start \in 0 .. Len(t), NEW end \in start .. Len(t),
         IsWellFormedUtf16(t), IsWellFormedUtf16(r),
         IsUtf16OffsetBoundary(t, start), IsUtf16OffsetBoundary(t, end)
  PROVE  /\ Splice(t, start, end, r) \in Text
         /\ IsWellFormedUtf16(Splice(t, start, end, r))
         /\ Len(Splice(t, start, end, r)) = Len(t) - (end - start) + Len(r)
  <1>1. Len(t) \in Nat /\ Len(r) \in Nat
    BY LenProperties DEF Text
  <1>. DEFINE left == SubSeq(t, 1, start)
              right == SubSeq(t, end + 1, Len(t))
  <1>2. left \in Text /\ Len(left) = start /\ IsWellFormedUtf16(left)
    BY <1>1, SubTextProperties, CutWellFormed
  <1>3. right \in Text /\ Len(right) = Len(t) - end /\ IsWellFormedUtf16(right)
    BY <1>1, SubTextProperties, CutWellFormed
  <1>4. /\ left \o r \in Text
        /\ Len(left \o r) = start + Len(r)
        /\ IsWellFormedUtf16(left \o r)
    BY <1>2, ConcatProperties, ConcatWellFormed DEF Text
  <1>5. /\ (left \o r) \o right \in Text
        /\ Len((left \o r) \o right) = Len(left \o r) + Len(right)
        /\ IsWellFormedUtf16((left \o r) \o right)
    BY <1>3, <1>4, ConcatProperties, ConcatWellFormed DEF Text
  <1>6. Splice(t, start, end, r) = (left \o r) \o right
    BY DEF Splice
  <1>. HIDE DEF left, right
  <1>7. Len(left \o r) + Len(right) = Len(t) - (end - start) + Len(r)
    BY <1>1, <1>3, <1>4
  <1>. QED
    BY <1>5, <1>6, <1>7

(***************************************************************************)
(* Why PatchRange needs both of them (state-store.ts:243, 251): what is    *)
(* put in, being well formed and not empty, begins with no low surrogate   *)
(* and ends with no high one, so that a half cut off on either side has    *)
(* lost its other half for good.                                           *)
(***************************************************************************)
THEOREM BoundariesAreNeeded ==
  ASSUME NEW t \in Text, NEW r \in Text,
         NEW start \in 0 .. Len(t), NEW end \in start .. Len(t),
         IsWellFormedUtf16(t), IsWellFormedUtf16(r), IsNonEmptyPayload(r)
  PROVE  IsWellFormedUtf16(Splice(t, start, end, r)) <=>
           IsUtf16OffsetBoundary(t, start) /\ IsUtf16OffsetBoundary(t, end)
  <1>1. Len(t) \in Nat /\ Len(r) \in Nat /\ Len(r) > 0
    BY LenProperties, EmptySeq DEF Text, IsNonEmptyPayload
  <1>. DEFINE left == SubSeq(t, 1, start)
              right == SubSeq(t, end + 1, Len(t))
              both == left \o r
              whole == both \o right
  <1>2. /\ left \in Text /\ Len(left) = start
        /\ \A i \in 1 .. start : left[i] = t[i]
    BY <1>1, SubTextProperties
  <1>3. /\ right \in Text /\ Len(right) = Len(t) - end
        /\ \A i \in 1 .. Len(t) - end : right[i] = t[end + i]
    BY <1>1, SubTextProperties
  <1>. HIDE DEF left, right
  <1>4. /\ both \in Text
        /\ Len(both) = start + Len(r)
        /\ \A i \in 1 .. start + Len(r) :
             both[i] = IF i <= start THEN left[i] ELSE r[i - start]
    BY <1>2, ConcatProperties DEF Text
  <1>. HIDE DEF both
  <1>5. /\ Len(whole) = start + Len(r) + (Len(t) - end)
        /\ \A i \in 1 .. start + Len(r) + (Len(t) - end) :
             whole[i] = IF i <= start + Len(r) THEN both[i]
                        ELSE right[i - (start + Len(r))]
    <2>1. both \in Seq(CodeUnit) /\ right \in Seq(CodeUnit)
      BY <1>3, <1>4 DEF Text
    <2>2. /\ Len(whole) = Len(both) + Len(right)
          /\ \A i \in 1 .. Len(both) + Len(right) :
               whole[i] = IF i <= Len(both) THEN both[i]
                          ELSE right[i - Len(both)]
      BY <2>1, ConcatProperties
    <2>. HIDE DEF whole
    <2>. QED
      BY <1>3, <1>4, <2>2
  <1>6. Splice(t, start, end, r) = whole
    BY DEF Splice, whole, both, left, right
  <1>. HIDE DEF whole
  <1>7. r[1] \notin LowSurrogate /\ r[Len(r)] \notin HighSurrogate
    BY <1>1 DEF IsWellFormedUtf16
  <1>8. ASSUME IsWellFormedUtf16(whole)
        PROVE  IsUtf16OffsetBoundary(t, start)
    <2>. SUFFICES ASSUME 0 < start, t[start] \in HighSurrogate
                  PROVE  FALSE
      BY DEF IsUtf16OffsetBoundary
    <2>1. start \in 1 .. Len(whole) /\ start + 1 \in 1 .. start + Len(r)
      BY <1>1, <1>5
    <2>2. whole[start] = t[start]
      BY <1>1, <1>2, <1>4, <1>5, <2>1
    <2>3. whole[start + 1] = r[1]
      <3>1. start + 1 \in 1 .. start + Len(r) + (Len(t) - end)
        BY <1>1
      <3>2. whole[start + 1] = both[start + 1]
        BY <1>5, <2>1, <3>1
      <3>3. both[start + 1] = r[(start + 1) - start]
        BY <1>4, <2>1
      <3>. QED
        BY <3>2, <3>3
    <2>4. whole[start + 1] \in LowSurrogate
      BY <1>8, <2>1, <2>2 DEF IsWellFormedUtf16
    <2>. QED
      BY <1>7, <2>3, <2>4
  <1>9. ASSUME IsWellFormedUtf16(whole)
        PROVE  IsUtf16OffsetBoundary(t, end)
    <2>. SUFFICES ASSUME end < Len(t), t[end + 1] \in LowSurrogate
                  PROVE  FALSE
      BY DEF IsUtf16OffsetBoundary
    <2>. DEFINE last == start + Len(r)
    <2>1. last \in 1 .. Len(both) /\ last + 1 \in 1 .. Len(whole)
      BY <1>1, <1>4, <1>5
    <2>2. whole[last + 1] = t[end + 1]
      BY <1>1, <1>3, <1>5, <2>1
    <2>3. whole[last] = r[Len(r)]
      BY <1>1, <1>4, <1>5, <2>1
    <2>4. whole[last] \in HighSurrogate
      BY <1>9, <2>1, <2>2 DEF IsWellFormedUtf16
    <2>. QED
      BY <1>7, <2>3, <2>4
  <1>. QED
    BY <1>6, <1>8, <1>9, SpliceWellFormed
-----------------------------------------------------------------------------
(* The store.                                                              *)

USE PayloadAssumption, BlockIdListAssumption, VersionAssumption,
    LengthAssumption

(***************************************************************************)
(* What IInv says of one block.                                            *)
(***************************************************************************)
Distinct(ids) == \A i, j \in 1 .. Len(ids) : ids[i] = ids[j] => i = j

GoodBlock(block) ==
  /\ block \in BlockState
  /\ IsWellFormedUtf16(block.text)
  /\ block.text # <<>>
  /\ Distinct(block.applied_chunk_ids)

\* An accepted operation has the fields of its type.
LEMMA OperationFields ==
  ASSUME NEW op \in Operation
  PROVE  /\ op.session_version \in Version
         /\ op.op_type = "AppendChunk" => op \in AppendChunkOp
         /\ op.op_type = "SealBlock" => op \in SealBlockOp
         /\ op.op_type = "PatchRange" => op \in PatchRangeOp
         /\ op.op_type = "AddMessage" => op \in AddMessageOp
  BY DEF Operation, AppendChunkOp, SealBlockOp, PatchRangeOp, AddMessageOp,
         NoOp, NoOpTypes

LEMMA VersionAdvances ==
  ASSUME NEW op \in Operation, session_version \in Version,
         AdvanceSessionVersion(op)
  PROVE  session_version' \in Version /\ session_version' >= session_version
  BY OperationFields DEF AdvanceSessionVersion, Version

(***************************************************************************)
(* The block AppendChunk builds, from an existing good block or from the   *)
(* empty one.                                                              *)
(***************************************************************************)
LEMMA AppendedBlock ==
  ASSUME NEW text \in Text, IsWellFormedUtf16(text),
         NEW ids \in Seq(ChunkId), Distinct(ids),
         NEW c \in ChunkId, c \notin Elements(ids),
         NEW payload \in Text, IsWellFormedUtf16(payload), payload # <<>>
  PROVE  GoodBlock([text |-> text \o payload, sealed |-> FALSE,
                    applied_chunk_ids |-> Append(ids, c)])
  <1>1. text \o payload \in Text /\ IsWellFormedUtf16(text \o payload)
    BY ConcatProperties, ConcatWellFormed DEF Text
  <1>2. text \o payload # <<>>
    BY ConcatEqualIffEmpty DEF Text
  <1>3. /\ Append(ids, c) \in Seq(ChunkId)
        /\ Len(Append(ids, c)) = Len(ids) + 1
        /\ \A i \in 1 .. Len(ids) : Append(ids, c)[i] = ids[i]
        /\ Append(ids, c)[Len(ids) + 1] = c
        /\ Len(ids) \in Nat
    OBVIOUS
  <1>4. Distinct(Append(ids, c))
    BY <1>3 DEF Distinct, Elements
  <1>. QED
    BY <1>1, <1>2, <1>3, <1>4 DEF GoodBlock, BlockState

LEMMA SplicedText ==
  ASSUME NEW text \in Text, IsWellFormedUtf16(text),
         NEW payload \in Text, IsWellFormedUtf16(payload), payload # <<>>,
         NEW start, NEW end, start <= end,
         IsUtf16OffsetBoundary(text, start), IsUtf16OffsetBoundary(text, end)
  PROVE  /\ Splice(text, start, end, payload) \in Text
         /\ IsWellFormedUtf16(Splice(text, start, end, payload))
         /\ Splice(text, start, end, payload) # <<>>
  <1>. DEFINE patched == Splice(text, start, end, payload)
  <1>1. Len(text) \in Nat /\ Len(payload) \in Nat /\ Len(payload) # 0
    BY LenProperties, EmptySeq DEF Text
  <1>2. start \in 0 .. Len(text) /\ end \in start .. Len(text)
    BY <1>1 DEF IsUtf16OffsetBoundary
  <1>3. /\ patched \in Text
        /\ IsWellFormedUtf16(patched)
        /\ Len(patched) = Len(text) - (end - start) + Len(payload)
    BY <1>2, SpliceWellFormed
  <1>. HIDE DEF patched
  <1>4. Len(patched) > 0
    BY <1>1, <1>2, <1>3
  <1>5. patched # <<>>
    BY <1>4
  <1>. QED
    BY <1>3, <1>5 DEF patched
-----------------------------------------------------------------------------
LEMMA InitIInv == Init => IInv
  BY DEF Init, IInv, TypeOK, TextsWellFormed, ChunksAppliedOnce,
         BlocksNonEmpty, MessagesShowBlocks, Version

\* The parts of IInv, block by block.
LEMMA BlockwiseIInv ==
  IInv <=> /\ session_version \in Version
           /\ DOMAIN blocks \subseteq BlockId
           /\ \A b \in DOMAIN blocks : GoodBlock(blocks[b])
           /\ DOMAIN messages \subseteq MessageId
           /\ \A m \in DOMAIN messages :
                /\ messages[m] \in BlockIdList
                /\ Elements(messages[m]) \subseteq DOMAIN blocks
  BY DEF IInv, TypeOK, TextsWellFormed, ChunksAppliedOnce, BlocksNonEmpty,
         MessagesShowBlocks, GoodBlock, Distinct

\* A step that changes or creates one block, and leaves a good one.
LEMMA OneBlockStep ==
  ASSUME IInv, NEW op \in Operation, AdvanceSessionVersion(op),
         UNCHANGED messages, NEW b \in BlockId,
         DOMAIN blocks' = DOMAIN blocks \cup {b},
         GoodBlock(blocks'[b]),
         \A x \in DOMAIN blocks \ {b} : blocks'[x] = blocks[x]
  PROVE  IInv'
  <1>1. session_version' \in Version
    BY VersionAdvances, BlockwiseIInv
  <1>2. \A x \in DOMAIN blocks' : GoodBlock(blocks'[x])
    BY BlockwiseIInv
  <1>3. /\ DOMAIN blocks' \subseteq BlockId
        /\ DOMAIN messages' \subseteq MessageId
        /\ \A m \in DOMAIN messages' :
             /\ messages'[m] \in BlockIdList
             /\ Elements(messages'[m]) \subseteq DOMAIN blocks'
    BY BlockwiseIInv
  <1>. QED
    BY <1>1, <1>2, <1>3
    DEF IInv, TypeOK, TextsWellFormed, ChunksAppliedOnce, BlocksNonEmpty,
        MessagesShowBlocks, GoodBlock, Distinct

LEMMA AppendChunkIInv ==
  ASSUME IInv, NEW op \in Operation, AppendChunk(op)
  PROVE  IInv'
  <1>. DEFINE b == op.block_id
              block == BlockOrEmpty(b)
              appended == [text |-> block.text \o op.payload, sealed |-> FALSE,
                           applied_chunk_ids |->
                             Append(block.applied_chunk_ids, op.chunk_id)]
  <1>1. /\ b \in BlockId /\ op.chunk_id \in ChunkId
        /\ op.payload \in Text /\ IsWellFormedUtf16(op.payload)
        /\ op.payload # <<>>
    BY OperationFields
    DEF AppendChunk, CanApply, CanAppendChunk, AppendChunkOp, IsInlineText,
        IsValidOperation, IsNonEmptyPayload
  <1>2. /\ block.text \in Text /\ IsWellFormedUtf16(block.text)
        /\ block.applied_chunk_ids \in Seq(ChunkId)
        /\ Distinct(block.applied_chunk_ids)
    <2>1. CASE Exists(b)
      BY <2>1, BlockwiseIInv
      DEF Exists, BlockOrEmpty, GoodBlock, BlockState
    <2>2. CASE ~Exists(b)
      BY <2>2, EmptySeq
      DEF BlockOrEmpty, EmptyBlock, IsWellFormedUtf16, Distinct, Text
    <2>. QED
      BY <2>1, <2>2
  <1>3. op.chunk_id \notin Elements(block.applied_chunk_ids)
    BY DEF AppendChunk, CanApply, CanAppendChunk
  <1>4. GoodBlock(appended)
    BY <1>1, <1>2, <1>3, AppendedBlock
  <1>5. /\ blocks' = Put(blocks, b, appended)
        /\ AdvanceSessionVersion(op) /\ UNCHANGED messages
    BY DEF AppendChunk
  <1>. HIDE DEF appended
  <1>6. /\ DOMAIN blocks' = DOMAIN blocks \cup {b}
        /\ blocks'[b] = appended
        /\ \A x \in DOMAIN blocks \ {b} : blocks'[x] = blocks[x]
    BY <1>5 DEF Put
  <1>. QED
    BY <1>1, <1>4, <1>5, <1>6, OneBlockStep

LEMMA SealBlockIInv ==
  ASSUME IInv, NEW op \in Operation, SealBlock(op)
  PROVE  IInv'
  <1>. DEFINE b == op.block_id
  <1>1. b \in DOMAIN blocks /\ b \in BlockId /\ GoodBlock(blocks[b])
    BY BlockwiseIInv DEF SealBlock, CanApply, CanSealBlock, Exists
  <1>2. /\ blocks' = [blocks EXCEPT ![b].sealed = TRUE]
        /\ AdvanceSessionVersion(op) /\ UNCHANGED messages
    BY DEF SealBlock
  <1>3. /\ DOMAIN blocks' = DOMAIN blocks \cup {b}
        /\ blocks'[b] = [blocks[b] EXCEPT !.sealed = TRUE]
        /\ \A x \in DOMAIN blocks \ {b} : blocks'[x] = blocks[x]
    BY <1>1, <1>2
  <1>4. GoodBlock(blocks'[b])
    BY <1>1, <1>3 DEF GoodBlock, BlockState
  <1>. QED
    BY <1>1, <1>2, <1>3, <1>4, OneBlockStep

LEMMA PatchRangeIInv ==
  ASSUME IInv, NEW op \in Operation, PatchRange(op)
  PROVE  IInv'
  <1>. DEFINE b == op.block_id
              text == blocks[b].text
              patched ==
                Splice(text, op.start_offset, op.end_offset, op.payload)
  <1>1. b \in DOMAIN blocks /\ b \in BlockId /\ GoodBlock(blocks[b])
    BY BlockwiseIInv DEF PatchRange, CanApply, CanPatchRange, Exists
  <1>2. /\ op.payload \in Text /\ IsWellFormedUtf16(op.payload)
        /\ op.payload # <<>>
        /\ op.start_offset <= op.end_offset
        /\ IsUtf16OffsetBoundary(text, op.start_offset)
        /\ IsUtf16OffsetBoundary(text, op.end_offset)
    BY DEF PatchRange, CanApply, CanPatchRange, IsInlineText,
           IsValidOperation, IsNonEmptyPayload
  <1>3. text \in Text /\ IsWellFormedUtf16(text)
    BY <1>1 DEF GoodBlock, BlockState
  <1>4. patched \in Text /\ IsWellFormedUtf16(patched) /\ patched # <<>>
    BY <1>2, <1>3, SplicedText
  <1>5. /\ blocks' = [blocks EXCEPT ![b].text = patched]
        /\ AdvanceSessionVersion(op) /\ UNCHANGED messages
    BY DEF PatchRange, PatchedText
  <1>. HIDE DEF patched
  <1>6. /\ DOMAIN blocks' = DOMAIN blocks \cup {b}
        /\ blocks'[b] = [blocks[b] EXCEPT !.text = patched]
        /\ \A x \in DOMAIN blocks \ {b} : blocks'[x] = blocks[x]
    BY <1>1, <1>5
  <1>7. GoodBlock(blocks'[b])
    BY <1>1, <1>4, <1>6 DEF GoodBlock, BlockState
  <1>. QED
    BY <1>1, <1>5, <1>6, <1>7, OneBlockStep

LEMMA AddMessageIInv ==
  ASSUME IInv, NEW op \in Operation, AddMessage(op)
  PROVE  IInv'
  <1>1. op.message_id \in MessageId /\ op.block_ids \in BlockIdList
    BY OperationFields DEF AddMessage, AddMessageOp
  <1>2. /\ messages' = Put(messages, op.message_id, op.block_ids)
        /\ AdvanceSessionVersion(op) /\ UNCHANGED blocks
        /\ Elements(op.block_ids) \subseteq DOMAIN blocks
    BY DEF AddMessage, CanApply, CanAddMessage, Exists
  <1>3. session_version' \in Version
    BY <1>2, VersionAdvances, BlockwiseIInv
  <1>4. /\ DOMAIN messages' = DOMAIN messages \cup {op.message_id}
        /\ messages'[op.message_id] = op.block_ids
        /\ \A m \in DOMAIN messages \ {op.message_id} :
             messages'[m] = messages[m]
    BY <1>2 DEF Put
  <1>5. /\ DOMAIN messages' \subseteq MessageId
        /\ \A m \in DOMAIN messages' :
             /\ messages'[m] \in BlockIdList
             /\ Elements(messages'[m]) \subseteq DOMAIN blocks
    BY <1>1, <1>2, <1>4, BlockwiseIInv
  <1>. QED
    BY <1>2, <1>3, <1>5
    DEF IInv, TypeOK, TextsWellFormed, ChunksAppliedOnce, BlocksNonEmpty,
        MessagesShowBlocks

LEMMA StateNoOpIInv ==
  ASSUME IInv, NEW op \in Operation, StateNoOp(op)
  PROVE  IInv'
  <1>1. session_version' \in Version /\ UNCHANGED <<blocks, messages>>
    BY VersionAdvances, BlockwiseIInv DEF StateNoOp
  <1>. QED
    BY <1>1
    DEF IInv, TypeOK, TextsWellFormed, ChunksAppliedOnce, BlocksNonEmpty,
        MessagesShowBlocks

LEMMA ApplyIInv ==
  ASSUME IInv, NEW op \in Operation, Apply(op)
  PROVE  IInv'
  BY AppendChunkIInv, SealBlockIInv, PatchRangeIInv, AddMessageIInv,
     StateNoOpIInv DEF Apply

LEMMA NextApplies == Next => \E op \in Operation : Apply(op)
  BY DEF Next, Apply, Operation

LEMMA StepIInv == IInv /\ [Next]_vars => IInv'
  <1>. SUFFICES ASSUME IInv, [Next]_vars PROVE IInv'
    OBVIOUS
  <1>1. CASE UNCHANGED vars
    BY <1>1
    DEF vars, IInv, TypeOK, TextsWellFormed, ChunksAppliedOnce,
        BlocksNonEmpty, MessagesShowBlocks
  <1>2. ASSUME NEW op \in Operation, Apply(op)
        PROVE  IInv'
    BY <1>2, ApplyIInv
  <1>. QED
    BY <1>1, <1>2, NextApplies

(***************************************************************************)
(* The strengthened invariant of the store holds in every reachable state: *)
(* no accepted operation breaks any part of it.                            *)
(***************************************************************************)
THEOREM InductiveInvariant == Spec => []IInv
  BY InitIInv, StepIInv, PTL DEF Spec

(***************************************************************************)
(* Type correctness: in particular a stored text is made of code units and *)
(* the session version never leaves the naturals.                          *)
(***************************************************************************)
THEOREM TypeCorrect == Spec => []TypeOK
  BY InductiveInvariant, PTL DEF IInv

(***************************************************************************)
(* No accepted sequence of chunks and patches leaves half a surrogate pair *)
(* in a block.                                                             *)
(***************************************************************************)
THEOREM WellFormedForever == Spec => []TextsWellFormed
  BY InductiveInvariant, PTL DEF IInv

(***************************************************************************)
(* No chunk id occurs twice in a block, whatever is resent.                *)
(***************************************************************************)
THEOREM ChunksOnce == Spec => []ChunksAppliedOnce
  BY InductiveInvariant, PTL DEF IInv

(***************************************************************************)
(* The blocks a message lists exist and have text, for ever.               *)
(***************************************************************************)
THEOREM MessagesAlwaysShowBlocks == Spec => []MessagesShowBlocks
  BY InductiveInvariant, PTL DEF IInv
-----------------------------------------------------------------------------
\* What a step does to a block that exists, by kind of operation.
LEMMA BlockStep ==
  ASSUME IInv, NEW op \in Operation, Apply(op), NEW b \in DOMAIN blocks
  PROVE  /\ b \in DOMAIN blocks'
         /\ blocks[b].sealed => blocks'[b] = blocks[b]
         /\ \/ blocks'[b].applied_chunk_ids = blocks[b].applied_chunk_ids
            \/ \E c \in ChunkId : blocks'[b].applied_chunk_ids =
                                    Append(blocks[b].applied_chunk_ids, c)
  <1>1. blocks[b] \in BlockState
    BY BlockwiseIInv DEF GoodBlock
  <1>2. CASE AppendChunk(op)
    <2>1. CASE op.block_id = b
      <3>1. /\ ~blocks[b].sealed
            /\ b \in DOMAIN blocks'
            /\ blocks'[b].applied_chunk_ids =
                 Append(blocks[b].applied_chunk_ids, op.chunk_id)
        BY <1>2, <2>1
        DEF AppendChunk, CanApply, CanAppendChunk, BlockOrEmpty, Exists, Put
      <3>2. op.chunk_id \in ChunkId
        BY <1>2, OperationFields DEF AppendChunk, AppendChunkOp
      <3>. QED
        BY <3>1, <3>2
    <2>2. CASE op.block_id # b
      BY <1>2, <2>2 DEF AppendChunk, Put
    <2>. QED
      BY <2>1, <2>2
  <1>3. CASE SealBlock(op)
    <2>1. /\ b \in DOMAIN blocks'
          /\ blocks'[b] = [blocks[b] EXCEPT !.sealed = TRUE]
             \/ blocks'[b] = blocks[b]
      BY <1>3 DEF SealBlock
    <2>. QED
      BY <1>1, <2>1 DEF BlockState
  <1>4. CASE PatchRange(op)
    <2>1. /\ b \in DOMAIN blocks'
          /\ \/ blocks'[b] = blocks[b]
             \/ /\ ~blocks[b].sealed
                /\ \E t : blocks'[b] = [blocks[b] EXCEPT !.text = t]
      BY <1>4 DEF PatchRange, CanApply, CanPatchRange
    <2>. QED
      BY <1>1, <2>1 DEF BlockState
  <1>5. CASE AddMessage(op)
    BY <1>5 DEF AddMessage
  <1>6. CASE StateNoOp(op)
    BY <1>6 DEF StateNoOp
  <1>. QED
    BY <1>2, <1>3, <1>4, <1>5, <1>6 DEF Apply

LEMMA MessageStep ==
  ASSUME NEW op, Apply(op), NEW m \in DOMAIN messages
  PROVE  m \in DOMAIN messages' /\ messages'[m] = messages[m]
  BY DEF Apply, AppendChunk, SealBlock, PatchRange, AddMessage, StateNoOp,
         CanApply, CanAddMessage, Put

(***************************************************************************)
(* A sealed block never changes again: every operation that could change   *)
(* its text checks the seal, and sealing it again changes nothing.         *)
(***************************************************************************)
THEOREM SealedForever == Spec => SealedBlocksFrozen
  <1>1. IInv /\ [Next]_vars =>
          [\A b \in DOMAIN blocks :
             blocks[b].sealed =>
               b \in DOMAIN blocks' /\ blocks'[b] = blocks[b]]_vars
    BY BlockStep, NextApplies
  <1>. QED
    BY <1>1, InductiveInvariant, PTL DEF Spec, SealedBlocksFrozen

(***************************************************************************)
(* Versions never go back, and blocks, messages and applied chunks are     *)
(* never taken away.                                                       *)
(***************************************************************************)
THEOREM SessionGrows == Spec => SessionOnlyGrows
  <1>1. ASSUME IInv, NEW op \in Operation, Apply(op), NEW b \in DOMAIN blocks
        PROVE  LET before == blocks[b].applied_chunk_ids
                   after == blocks'[b].applied_chunk_ids
               IN /\ b \in DOMAIN blocks'
                  /\ Len(before) <= Len(after)
                  /\ SubSeq(after, 1, Len(before)) = before
    <2>. DEFINE before == blocks[b].applied_chunk_ids
    <2>1. before \in Seq(ChunkId) /\ Len(before) \in Nat
      BY <1>1, BlockwiseIInv DEF GoodBlock, BlockState
    <2>2. SubSeq(before, 1, Len(before)) = before
      BY <2>1, SubSeqFull
    <2>3. ASSUME NEW c \in ChunkId
          PROVE  /\ Len(before) <= Len(Append(before, c))
                 /\ SubSeq(Append(before, c), 1, Len(before)) = before
      BY <2>1
    <2>. QED
      BY <1>1, <2>1, <2>2, <2>3, BlockStep
  <1>2. ASSUME IInv, NEW op \in Operation, Apply(op)
        PROVE  session_version' >= session_version
    BY <1>2, VersionAdvances, BlockwiseIInv
    DEF Apply, AppendChunk, SealBlock, PatchRange, AddMessage, StateNoOp
  <1>3. IInv /\ [Next]_vars =>
          [/\ session_version' >= session_version
           /\ \A b \in DOMAIN blocks :
                LET before == blocks[b].applied_chunk_ids
                    after == blocks'[b].applied_chunk_ids
                IN /\ b \in DOMAIN blocks'
                   /\ Len(before) <= Len(after)
                   /\ SubSeq(after, 1, Len(before)) = before
           /\ \A m \in DOMAIN messages :
                m \in DOMAIN messages' /\ messages'[m] = messages[m]]_vars
    BY <1>1, <1>2, MessageStep, NextApplies
  <1>. QED
    BY <1>3, InductiveInvariant, PTL DEF Spec, SessionOnlyGrows
=============================================================================
