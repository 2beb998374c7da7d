------------------------- MODULE MarkdownStability -------------------------
(***************************************************************************)
(* The streaming Markdown demo                                             *)
(* (bench/p1/lib/streaming_markdown_stability_core.mjs and its page): a    *)
(* text arrives in chunks cut anywhere, each chunk parses the whole text   *)
(* again, and two renderers show the blocks: the naive one all of them,    *)
(* the stable one only those it has not committed, plus the open ones.     *)
(*                                                                         *)
(* A line is its class under the parser's regular expressions and how much *)
(* of it has come; 32-bit hashes of different texts are taken as different.*)
(* Both runs parse the same text, so one parse stands for both.  It goes   *)
(* step by step, because it need not end.                                  *)
(***************************************************************************)
EXTENDS Naturals, Sequences, FiniteSets

CONSTANTS
  LineKinds,   \* the classes of line a text may have
  MaxPieces,   \* bound: pieces of text
  HeapBlocks   \* bound: blocks the heap holds

\* The heap holds a block for every line that may come.
ASSUME MarkdownAssumption ==
  MaxPieces \in Nat /\ HeapBlocks \in Nat /\ HeapBlocks > MaxPieces

VARIABLES
  lines,       \* run.source: the lines, each [kind, size]
  pieces,      \* how much text has come
  phase,       \* "waiting", "parsing", "complete" or "dead"
  final,       \* options.isFinal
  index,       \* parser: the line it is at
  blocks,      \* parser: the blocks so far; then run.latest_blocks
  latest,      \* the blocks, lines and pieces of the last render
  seen,        \* naive: completed_seen_keys
  keys,        \* stable: stable_committed_keys
  naive,       \* naive: metrics
  stable,      \* stable: metrics
  mount        \* page: the blocks in stableCommittedMount, in order

runVars == <<latest, seen, keys, naive, stable, mount>>
mdVars == <<lines, pieces, phase, final, index, blocks, runVars>>
-----------------------------------------------------------------------------
(* Lines                                                                   *)

\* What more characters make of a line.  "mark" is the start of a marker
\* ("#", "`", "|", "$", "-"), "bar" a row whose last bar is missing, "half"
\* a separator whose last bar is, "opener" what looks like a structured
\* block and is none ("``", "# ", "```ts x", a heading before its line feed).
Grows(kind) ==
  CASE kind = "blank" -> LineKinds \ {"blank"}
    [] kind = "mark" -> LineKinds \ {"blank", "mark"}
    [] kind \in {"word", "math"} -> {"word"}
    [] kind \in {"fence", "lang"} -> {"lang", "opener"}
    [] kind = "heading" -> {"heading", "opener"}
    [] kind = "item" -> {"item"}
    [] kind \in {"bar", "row", "sep", "half"} ->
         {"bar", "row", "sep", "half"} \ {kind}
    [] OTHER -> {}

IsTableRow(line) == line.kind \in {"row", "sep"}
IsSeparator(line) == line.kind \in {"sep", "half"}

StartsStructuredBlock(line) ==
  line.kind \in {"heading", "fence", "lang", "opener", "math", "item", "sep"}

\* The first place from i on, up to the one after the last line of ls, that
\* is not one of the given places.
EndOfRun(ls, i, places) ==
  CHOOSE j \in i..(Len(ls) + 1) :
    j \notin places /\ i..(j - 1) \subseteq places
-----------------------------------------------------------------------------
(* Blocks                                                                  *)

\* normalizedBlockIdentity: code and mathematics tell an open block from a
\* closed one, the others do not.
Identity(b) ==
  <<b.type, b.text,
    IF b.type \in {"code", "math_block"} THEN b.complete ELSE TRUE>>

Key(b) == <<b.start, Identity(b)>>

EstimateBlockNodeCount(b) ==
  CASE b.type \in {"heading", "paragraph"} -> 2
    [] b.type = "list" -> 1 + 2 * Len(b.text)
    [] b.type = "table" -> 2 + 3 * Len(b.text)
    [] OTHER -> IF Len(b.text) = 1 THEN 3 ELSE 1 + Len(b.text)

\* Some of the blocks are given by their places among them.
Completed(bs) == {i \in DOMAIN bs : bs[i].complete}
Open(bs) == {i \in DOMAIN bs : ~bs[i].complete}

NodeCount(bs, places) ==
  LET sum[n \in 0..Len(bs)] ==
        IF n = 0 THEN 0
        ELSE sum[n - 1] +
               IF n \in places THEN EstimateBlockNodeCount(bs[n]) ELSE 0
  IN sum[Len(bs)]

\* The blocks at the given places, in their order.
InOrder(bs, places) ==
  LET upto[n \in 0..Len(bs)] ==
        IF n = 0 THEN <<>>
        ELSE IF n \in places THEN Append(upto[n - 1], bs[n])
        ELSE upto[n - 1]
  IN upto[Len(bs)]
-----------------------------------------------------------------------------
(* The parser                                                              *)

NoMetrics ==
  [renders |-> 0, completed |-> 0, again |-> 0, churn |-> 0, tails |-> 0,
   committed |-> 0]

MarkdownInit ==
  /\ lines = <<[kind |-> "blank", size |-> 0]>>
  /\ pieces = 0
  /\ phase = "waiting" /\ final = FALSE
  /\ index = 1 /\ blocks = <<>>
  /\ latest = [blocks |-> <<>>, lines |-> 0, pieces |-> 0]
  /\ seen = {} /\ keys = {} /\ mount = <<>>
  /\ naive = NoMetrics /\ stable = NoMetrics

\* A piece of the next chunk: more of the last line, or a new line.
Arrive ==
  /\ phase = "waiting" /\ pieces < MaxPieces
  /\ pieces' = pieces + 1
  /\ LET last == lines[Len(lines)] IN
     \/ \E kind \in Grows(last.kind) \intersect LineKinds :
          lines' = [lines EXCEPT ![Len(lines)] =
                      [kind |-> kind, size |-> last.size + 1]]
     \/ lines' = Append(lines, [kind |-> "blank", size |-> 0])
  /\ UNCHANGED <<phase, final, index, blocks, runVars>>

\* applyChunkToRun is called with the pieces that have come.
ApplyChunk ==
  /\ phase = "waiting" /\ pieces > latest.pieces
  /\ phase' = "parsing"
  /\ final' \in BOOLEAN
  /\ index' = 1 /\ blocks' = <<>>
  /\ UNCHANGED <<lines, pieces, runVars>>

AtLine ==
  /\ phase = "parsing"
  /\ index <= Len(lines)
  /\ Len(blocks) < HeapBlocks

\* One block is pushed, and the parser goes on at line next.
Push(type, text, complete, next) ==
  /\ blocks' = Append(blocks,
                 [type |-> type, start |-> index, end |-> next - 1,
                  text |-> text, complete |-> complete])
  /\ index' = next
  /\ UNCHANGED <<lines, pieces, phase, final, runVars>>

SkipBlank ==
  /\ AtLine /\ lines[index].kind = "blank"
  /\ index' = index + 1
  /\ UNCHANGED <<lines, pieces, phase, final, blocks, runVars>>

\* A block between two fences, whose text is the line that opened it and
\* the lines between.
TakeDelimited(type, openers, closer) ==
  /\ AtLine /\ lines[index].kind \in openers
  /\ LET inside == {i \in DOMAIN lines : lines[i].kind # closer}
         close == EndOfRun(lines, index + 1, inside)
         closed == close <= Len(lines)
     IN Push(type,
             <<lines[index]>> \o SubSeq(lines, index + 1, close - 1),
             closed \/ final, IF closed THEN close + 1 ELSE close)

TakeCode == TakeDelimited("code", {"fence", "lang"}, "fence")
TakeMath == TakeDelimited("math_block", {"math"}, "math")

\* A heading is complete at once, however much of its line has come.
TakeHeading ==
  /\ AtLine /\ lines[index].kind = "heading"
  /\ Push("heading", <<lines[index]>>, TRUE, index + 1)

\* Seeded fault: blank lines may stand between a header and its separator.
TableAt_NextNonBlank(ls, i) ==
  /\ IsTableRow(ls[i])
  /\ \E j \in (i + 1)..Len(ls) :
       /\ IsSeparator(ls[j])
       /\ \A k \in (i + 1)..(j - 1) : ls[k].kind = "blank"

\* parseTable returns a table: a row with a separator under it.
TableAt(ls, i) == i < Len(ls) /\ IsTableRow(ls[i]) /\ IsSeparator(ls[i + 1])

\* A table is complete at a blank line that is not the last line, or at any
\* other line that is no row.
TakeTable ==
  /\ AtLine /\ TableAt(lines, index)
  /\ LET next == EndOfRun(lines, index,
                         {i \in DOMAIN lines : IsTableRow(lines[i])})
         rows == SubSeq(lines, index, next - 1)
     IN Push("table", <<lines[index]>> \o SubSeq(rows, 3, Len(rows)),
             \/ final
             \/ /\ next <= Len(lines)
                /\ lines[next].kind # "blank" \/ next < Len(lines),
             next)

TakeList ==
  /\ AtLine /\ lines[index].kind = "item"
  /\ LET next == EndOfRun(lines, index,
                         {i \in DOMAIN lines : lines[i].kind = "item"})
     IN Push("list", SubSeq(lines, index, next - 1),
             final \/ next <= Len(lines), next)

\* A paragraph is the rest: the lines up to a blank line or to one that
\* starts a structured block.  When the line itself starts one and no branch
\* above took it, the paragraph is empty and the parser stays where it is.
TakeParagraph ==
  /\ AtLine
  /\ lines[index].kind \notin {"blank", "fence", "lang", "math", "heading",
                               "item"}
  /\ ~TableAt(lines, index)
  /\ LET next == EndOfRun(lines, index,
                         {i \in DOMAIN lines :
                            /\ lines[i].kind # "blank"
                            /\ ~StartsStructuredBlock(lines[i])})
     IN Push("paragraph", SubSeq(lines, index, next - 1),
             final \/ next <= Len(lines), next)

\* The array of blocks has filled the heap.
ExhaustHeap ==
  /\ phase = "parsing" /\ index <= Len(lines)
  /\ Len(blocks) = HeapBlocks
  /\ phase' = "dead"
  /\ UNCHANGED <<lines, pieces, final, index, blocks, runVars>>
-----------------------------------------------------------------------------
(* The two runs, and the stable pane of the page                           *)

KeysOf(bs) == {Key(bs[i]) : i \in Completed(bs)}

\* Seeded fault: the commit looks at where a block starts only.
Fresh_ByStart(bs) ==
  {i \in Completed(bs) : \A k \in keys : k[1] # bs[i].start}

\* The completed blocks the stable run has not committed yet.
Fresh(bs) == {i \in Completed(bs) : Key(bs[i]) \notin keys}

\* estimateUpdate and the sums of applyChunkToRun, naive mode.
NaiveUpdate ==
  [renders |-> naive.renders + 1,
   completed |-> naive.completed + Cardinality(Completed(blocks)),
   again |-> naive.again + Cardinality(KeysOf(blocks) \intersect seen),
   churn |-> naive.churn + NodeCount(blocks, DOMAIN blocks),
   tails |-> naive.tails + Cardinality(Open(blocks)),
   committed |-> Cardinality(Completed(blocks))]

\* The same, stable mode.
StableUpdate ==
  [renders |-> stable.renders + 1,
   completed |-> stable.completed + Cardinality(Fresh(blocks)),
   again |-> 0,
   churn |-> stable.churn + NodeCount(blocks, Fresh(blocks))
                          + NodeCount(blocks, Open(blocks)),
   tails |-> stable.tails + Cardinality(Open(blocks)),
   committed |-> Cardinality(keys')]

\* The pane only ever appends the blocks whose keys are new.
PaintStable == mount \o InOrder(blocks, Fresh(blocks))

\* The parse has ended: both runs update and both panes are painted.
Render ==
  /\ phase = "parsing" /\ index > Len(lines)
  /\ seen' = seen \union KeysOf(blocks)
  /\ keys' = keys \union {Key(blocks[i]) : i \in Fresh(blocks)}
  /\ mount' = PaintStable
  /\ naive' = NaiveUpdate
  /\ stable' = StableUpdate
  /\ latest' = [blocks |-> blocks, lines |-> Len(lines), pieces |-> pieces]
  /\ phase' = IF final THEN "complete" ELSE "waiting"
  /\ UNCHANGED <<lines, pieces, final, index, blocks>>
-----------------------------------------------------------------------------
ParseStep ==
  \/ SkipBlank
  \/ TakeCode
  \/ TakeMath
  \/ TakeHeading
  \/ TakeTable
  \/ TakeList
  \/ TakeParagraph
  \/ ExhaustHeap
  \/ Render

MarkdownNext ==
  \/ Arrive
  \/ ApplyChunk
  \/ ParseStep

MarkdownSpec == MarkdownInit /\ [][MarkdownNext]_mdVars
-----------------------------------------------------------------------------
\* At most one block is open after a chunk, and it is the last one.
OnlyTheTailIsOpen ==
  phase # "parsing" =>
    \A i \in 1..(Len(latest.blocks) - 1) : latest.blocks[i].complete

\* Both runs have rendered every completed block once, and the naive one
\* counted the rest as re-renders; it churns more as soon as there are any.
SavedIsRerendered ==
  /\ naive.completed = stable.completed + naive.again
  /\ stable.completed = Cardinality(seen)
  /\ naive.tails = stable.tails
  /\ stable.churn <= naive.churn
  /\ naive.again > 0 => stable.churn < naive.churn

\* The pane has every block of the text in its order, whatever else it has.
PaneHasTheDocument ==
  phase = "complete" =>
    LET Place(b) == CHOOSE i \in 1..Len(mount) : Key(mount[i]) = Key(b)
    IN \A i \in 1..Len(blocks) :
         /\ Key(blocks[i]) \in {Key(mount[j]) : j \in 1..Len(mount)}
         /\ i > 1 => Place(blocks[i - 1]) < Place(blocks[i])

\* The parser fills the heap only at a line that looks like the start of a
\* structured block and is none.
OnlyOrphansHang ==
  phase = "dead" =>
    \/ lines[index].kind = "opener"
    \/ lines[index].kind = "sep" /\ ~TableAt(lines, index)

(***************************************************************************)
(* The stable pane can be trusted as far as it goes, however the text was  *)
(* cut: open blocks are shown below the committed ones, which is their     *)
(* order as only the last is ever open; what the naive run renders again   *)
(* is exactly what the stable run saves, in blocks and in churned nodes;   *)
(* and the complete text is all in the pane, in its order.  Only a line    *)
(* cut where it looks like the start of a block and is none, or a          *)
(* separator without a header, keeps the parser from ending                *)
(* (parseMarkdownBlocks lines 214-330, estimateUpdate lines 169-186,       *)
(* paintStable of the page, line 143).                                     *)
(***************************************************************************)
StablePaneIsSound ==
  /\ OnlyTheTailIsOpen /\ SavedIsRerendered /\ PaneHasTheDocument
  /\ OnlyOrphansHang

(***************************************************************************)
(* A completed block that the text has gone past, by a line that ended     *)
(* too, is never taken back: every later parse has it again, with its key  *)
(* (lines 214-330, 380).                                                   *)
(***************************************************************************)
PassedBlocksStay ==
  [][Render =>
       \A i \in 1..Len(latest.blocks) :
         LET b == latest.blocks[i] IN
           (b.complete /\ b.end + 1 < latest.lines)
             => Key(b) \in KeysOf(blocks)]_mdVars

(***************************************************************************)
(* The test "stable tail-block mode preserves final semantics" (line 98 of *)
(* streaming-markdown-stability-demo-contract.test.mjs): in the end the    *)
(* stable pane shows what the naive pane shows.                            *)
(***************************************************************************)
FinalPanesAgree == phase = "complete" => mount = blocks
=============================================================================
