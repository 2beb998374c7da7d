SPECIFICATION PartSpec
CONSTANTS
  a = a
  H = H
  L = L
  b1 = b1
  b2 = b2
  c1 = c1
  c2 = c2
  m1 = m1
  HighSurrogate <- MCHighSurrogate
  LowSurrogate <- MCLowSurrogate
  PlainUnit <- MCPlainUnit
  BlockId = {b1, b2}
  ChunkId = {c1, c2}
  MessageId = {m1}
  PayloadRef = PayloadRef
  Payload <- MCPayload
  BlockIdList <- MCBlockIdList
  InitialVersion = 0
  MaxVersion = 1
  MaxLength = 3
  MaxTyped = 5
  Batch <- MCBatch
INVARIANTS
  BoundariesAreTheSafeCuts
  TextsWellFormed
  ChunksAppliedOnce
  MessagesShowBlocks
  ResendIsRefused
PROPERTIES
  SealedBlocksFrozen
  BatchImplementsStore
