SPECIFICATION EngineSpec
CONSTANTS
  b1 = b1
  c1 = c1
  c2 = c2
  m1 = m1
  pa1 = pa1
  pa2 = pa2
  e1 = e1
  e2 = e2
  e3 = e3
  e4 = e4
  e5 = e5
  e6 = e6
  e7 = e7
  e8 = e8
  o1 = o1
  o2 = o2
  o3 = o3
  o4 = o4
  o5 = o5
  o6 = o6
  x = x
  H = H
  L = L
  HighSurrogate <- MCHighSurrogate
  LowSurrogate <- MCLowSurrogate
  PlainUnit <- MCPlainUnit
  BlockId = {b1}
  ChunkId = {c1, c2}
  MessageId = {m1}
  PayloadRef = PayloadRef
  Payload <- MCPayload
  BlockIdList <- MCBlockIdList
  InitialVersion = 0
  MaxVersion = 1
  MaxLength = 6
  NoLane = NoLane
  NoType = NoType
  NoSize = NoSize
  NoBounds = NoBounds
  EnvelopeId = {e1, e2, e3, e4, e5, e6, e7, e8}
  OpId = {o1, o2, o3, o4, o5, o6}
  ActionId = {pa1, pa2}
  Input <- MCInput
  Snapshot <- MCSnapshot
  Limits <- MCLimits
  Projection <- MCProjection
  NoProjection = NoProjection
  Bounds <- MCBounds
  NoDecision = NoDecision
INVARIANT UrgentInputNotDropped
