------------------------------ MODULE TypedText ------------------------------
(***************************************************************************)
(* Every text there is, typed one code unit at a time, to compare what     *)
(* Utf16Text says of a text with the loop of the code                      *)
(* (isWellFormedUtf16, state-store.ts:331-348) and with what the checks on *)
(* its offsets are for.                                                    *)
(***************************************************************************)
EXTENDS Utf16Text

CONSTANT MaxTyped  \* bound: the length of a typed text

VARIABLE text      \* what was typed

TextInit == text = <<>>
TypeUnit(u) == Len(text) < MaxTyped /\ text' = Append(text, u)
StartOver == text # <<>> /\ text' = <<>>
TextNext == (\E u \in CodeUnit : TypeUnit(u)) \/ StartOver

TextSpec == TextInit /\ [][TextNext]_text

TextTypeOK == text \in Text
-----------------------------------------------------------------------------
\* isWellFormedUtf16 as the code scans it: from index i on, a high surrogate
\* consumes the low surrogate that must follow it, and a low surrogate that
\* was not consumed that way is an error.
ScanFrom(t) ==
  LET scan[i \in 1 .. Len(t) + 2] ==
        IF i > Len(t) THEN TRUE
        ELSE IF t[i] \in HighSurrogate
        THEN i < Len(t) /\ t[i + 1] \in LowSurrogate /\ scan[i + 2]
        ELSE t[i] \notin LowSurrogate /\ scan[i + 1]
  IN scan[1]

\* What a range is replaced by: a plain unit or a pair.
Replacements == { <<u>> : u \in PlainUnit }
                \cup { <<h, l>> : h \in HighSurrogate, l \in LowSurrogate }

(***************************************************************************)
(* Why PatchRange checks the two offsets (state-store.ts:243, 251):        *)
(* replacing the range between two boundaries of a well-formed text by a   *)
(* well-formed text gives a well-formed text, and cutting at any other     *)
(* offset does not.  Well-formed is what the loop of isWellFormedUtf16     *)
(* accepts (:331-351): a pair may start at an odd offset, and two highs in *)
(* a row or a low at the very end are refused.                             *)
(***************************************************************************)
BoundariesAreTheSafeCuts ==
  /\ IsWellFormedUtf16(text) = ScanFrom(text)
  /\ IsWellFormedUtf16(text) =>
       \A s \in 0 .. Len(text) : \A e \in s .. Len(text) :
         \A r \in Replacements :
           IsWellFormedUtf16(Splice(text, s, e, r)) <=>
             IsUtf16OffsetBoundary(text, s) /\ IsUtf16OffsetBoundary(text, e)
=============================================================================
