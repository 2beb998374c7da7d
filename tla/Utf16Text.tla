------------------------------ MODULE Utf16Text ------------------------------
(***************************************************************************)
(* The text of a block, as the state store sees it: a string of UTF-16     *)
(* code units, of which it tells apart only the surrogates                 *)
(* (state-store.ts, isUtf16OffsetBoundary .. isLowSurrogate).              *)
(* A code unit is an element of one of three disjoint sets; what the       *)
(* character is does not matter.  Offsets are zero based, as in the code;  *)
(* t[i] is the code unit at offset i - 1.                                  *)
(***************************************************************************)
EXTENDS Integers, Sequences

CONSTANTS HighSurrogate, LowSurrogate, PlainUnit

ASSUME CodeUnitAssumption ==
  /\ HighSurrogate \cap LowSurrogate = {}
  /\ HighSurrogate \cap PlainUnit = {}
  /\ LowSurrogate \cap PlainUnit = {}

CodeUnit == HighSurrogate \cup LowSurrogate \cup PlainUnit

Text == Seq(CodeUnit)

\* Every high surrogate is followed by a low one, and every low surrogate
\* is preceded by a high one.
IsWellFormedUtf16(t) ==
  \A i \in 1 .. Len(t) :
    /\ t[i] \in HighSurrogate => i < Len(t) /\ t[i + 1] \in LowSurrogate
    /\ t[i] \in LowSurrogate => i > 1 /\ t[i - 1] \in HighSurrogate

\* Seeded fault: the two units around the offset are read one too far right.
IsUtf16OffsetBoundary_shifted(t, offset) ==
  /\ offset \in 0 .. Len(t)
  /\ (0 < offset /\ offset + 1 < Len(t)) =>
       ~(t[offset + 1] \in HighSurrogate /\ t[offset + 2] \in LowSurrogate)

\* An offset inside the text that does not fall between the two halves of a
\* surrogate pair.
IsUtf16OffsetBoundary(t, offset) ==
  /\ offset \in 0 .. Len(t)
  /\ (0 < offset /\ offset < Len(t)) =>
       ~(t[offset] \in HighSurrogate /\ t[offset + 1] \in LowSurrogate)

\* The text with the units from start to end (exclusive) replaced by r.
Splice(t, start, end, r) ==
  SubSeq(t, 1, start) \o r \o SubSeq(t, end + 1, Len(t))
=============================================================================
