----------------------------- MODULE PageProofs -----------------------------
(***************************************************************************)
(* Proofs about the two pages.                                             *)
(*                                                                         *)
(* First MarkdownStability, for every text and every way to cut it: the    *)
(* blocks the parser makes of a text are said of the text alone (IsParse), *)
(* and of texts that agree up to a line it makes the same blocks before    *)
(* that line, so what the stable run committed is never taken back.        *)
(*                                                                         *)
(* Then WorkerScheduler, for every amount of work and size of chunks, in   *)
(* both modes, and however many runs overlap, and of the runs that follow  *)
(* one another that each of their steps is one MeasuredRun allows.         *)
(***************************************************************************)
EXTENDS WorkerScheduler, MarkdownStability, SequenceTheorems,
        FiniteSetTheorems, WellFoundedInduction, TLAPS
-----------------------------------------------------------------------------
(* The Markdown demo: what the parser makes of a text.                     *)

Line == [kind : LineKinds \cup {"blank"}, size : Nat]

\* A block of the parser
Block == [type : {"code", "math_block", "heading", "table", "list",
                  "paragraph"},
          start : Nat, end : Nat, text : Seq(Line), complete : BOOLEAN]

\* b is what the parser pushes at its first line of ls; it is complete if
\* its end was seen, and may be complete because the text was final.
IsDelimited(ls, b, type, openers, closer) ==
  /\ b.type = type /\ ls[b.start].kind \in openers
  /\ \E close \in b.start + 1 .. Len(ls) + 1 :
       /\ \A k \in b.start + 1 .. close - 1 : ls[k].kind # closer
       /\ b.text = <<ls[b.start]>> \o SubSeq(ls, b.start + 1, close - 1)
       /\ \/ /\ close <= Len(ls) /\ ls[close].kind = closer
             /\ b.end = close /\ b.complete
          \/ close = Len(ls) + 1 /\ b.end = Len(ls)

\* A heading, which is complete at once
IsHeading(ls, b) ==
  /\ b.type = "heading" /\ ls[b.start].kind = "heading"
  /\ b.end = b.start /\ b.text = <<ls[b.start]>> /\ b.complete

\* The lines of b are places, and the line after them is none.
SpansRun(ls, b, places) ==
  /\ b.end + 1 \in b.start .. Len(ls) + 1
  /\ b.start .. b.end \subseteq places
  /\ b.end + 1 \notin places

\* A run of rows, without its separator
IsTable(ls, b) ==
  /\ b.type = "table" /\ TableAt(ls, b.start)
  /\ SpansRun(ls, b, {i \in DOMAIN ls : IsTableRow(ls[i])})
  /\ LET taken == SubSeq(ls, b.start, b.end)
     IN b.text = <<ls[b.start]>> \o SubSeq(taken, 3, Len(taken))
  /\ /\ b.end < Len(ls)
     /\ ls[b.end + 1].kind # "blank" \/ b.end + 1 < Len(ls)
     => b.complete

\* A run of items
IsList(ls, b) ==
  /\ b.type = "list" /\ ls[b.start].kind = "item"
  /\ SpansRun(ls, b, {i \in DOMAIN ls : ls[i].kind = "item"})
  /\ b.text = SubSeq(ls, b.start, b.end)
  /\ b.end < Len(ls) => b.complete

\* A run of other lines, which is empty at an orphan
IsParagraph(ls, b) ==
  /\ b.type = "paragraph"
  /\ ls[b.start].kind \notin {"blank", "fence", "lang", "math", "heading",
                              "item"}
  /\ ~TableAt(ls, b.start)
  /\ SpansRun(ls, b, {i \in DOMAIN ls : /\ ls[i].kind # "blank"
                                        /\ ~StartsStructuredBlock(ls[i])})
  /\ b.text = SubSeq(ls, b.start, b.end)
  /\ b.end < Len(ls) => b.complete

\* A block of ls
IsBlock(ls, b) ==
  /\ b.start \in 1 .. Len(ls)
  /\ \/ IsDelimited(ls, b, "code", {"fence", "lang"}, "fence")
     \/ IsDelimited(ls, b, "math_block", {"math"}, "math")
     \/ IsHeading(ls, b)
     \/ IsTable(ls, b)
     \/ IsList(ls, b)
     \/ IsParagraph(ls, b)

\* B is what the parser makes of the lines of ls before p.
IsParse(ls, B, p) ==
  /\ \A b \in B : IsBlock(ls, b) /\ b.start <= b.end /\ b.end < p
  /\ \A b, c \in B : b = c \/ b.end < c.start \/ c.end < b.start
  /\ \A k \in 1 .. p - 1 :
       ls[k].kind = "blank" \/ \E b \in B : b.start <= k /\ k <= b.end

\* The first m lines of both
Agree(ls, ms, m) ==
  m <= Len(ls) /\ m <= Len(ms) /\ \A k \in 1 .. m : ls[k] = ms[k]

\* The blocks without their order
BlocksOf(bs) == {bs[i] : i \in DOMAIN bs}

\* The sums of a run
MetricsOK(m) == /\ m.completed \in Nat /\ m.again \in Nat /\ m.churn \in Nat
                /\ m.tails \in Nat

\* The types of the variables
MdTypeOK ==
  /\ lines \in Seq(Line) /\ Len(lines) \in 1 .. pieces + 1
  /\ pieces \in 0 .. MaxPieces
  /\ phase \in {"waiting", "parsing", "complete", "dead"}
  /\ final \in BOOLEAN
  /\ index \in Nat
  /\ blocks \in Seq(Block)
  /\ latest.blocks \in Seq(Block) /\ latest.lines \in 0 .. Len(lines)
  /\ mount \in Seq(Block)
  /\ MetricsOK(naive) /\ MetricsOK(stable)
  /\ IsFiniteSet(keys)

\* The parse under way, or that of the text that came last.
Parsed ==
  phase # "waiting" =>
    /\ index \in 1 .. Len(lines) + 1
    /\ \A i \in DOMAIN blocks :
         /\ IsBlock(lines, blocks[i]) /\ blocks[i].end < index
         /\ final => blocks[i].complete
         /\ blocks[i].end < blocks[i].start => blocks[i].start = index
    /\ \A i, j \in DOMAIN blocks : i < j => blocks[i].end < blocks[j].start
    /\ \A k \in 1 .. index - 1 :
         \/ lines[k].kind = "blank"
         \/ \E b \in BlocksOf(blocks) : b.start <= k /\ k <= b.end
    /\ Len(blocks) < index \/ \E b \in BlocksOf(blocks) : b.end < b.start

\* How the parser ends
PhaseOK ==
  /\ phase = "complete" => final /\ index > Len(lines)
  /\ phase = "dead" => index <= Len(lines) /\ Len(blocks) = HeapBlocks

\* An old text of which the last render showed the blocks
LatestIsParse ==
  \E old \in Seq(Line) :
    /\ Len(old) = latest.lines
    /\ \A k \in 1 .. latest.lines - 1 : old[k] = lines[k]
    /\ IsParse(old, BlocksOf(latest.blocks), latest.lines + 1)

\* Only the last block may be open.
LatestTail == \A i \in 1 .. Len(latest.blocks) - 1 : latest.blocks[i].complete

\* Blocks of the pane
MountOK ==
  /\ keys = seen
  /\ keys = {Key(b) : b \in BlocksOf(mount)}
  /\ \A i, j \in DOMAIN mount : Key(mount[i]) = Key(mount[j]) => i = j
  /\ \A j \in DOMAIN mount :
       /\ mount[j].complete
       /\ mount[j].start \in 1 .. Len(lines)
       /\ mount[j].text # <<>>
       /\ mount[j].text[1].size <= lines[mount[j].start].size

\* What comes before place j of the pane, among which is every block the
\* parser makes of the text before that of place j, if its first line is
\* still what it was.
KeysBefore(j) == {Key(mount[i]) : i \in 1 .. j - 1}

Preceded(j, B) == IsParse(lines, B, mount[j].start)
                  /\ \A b \in B : b.complete /\ Key(b) \in KeysBefore(j)

PrecededAll ==
  \A j \in DOMAIN mount :
    lines[mount[j].start] = mount[j].text[1] =>
      \E B \in SUBSET Block : Preceded(j, B)

\* What one run saves and the other renders again
Saved ==
  /\ naive.completed = stable.completed + naive.again
  /\ stable.completed = Cardinality(keys)
  /\ naive.tails = stable.tails
  /\ stable.churn + naive.again <= naive.churn

\* The pane has every block of the complete text.
PaneDone ==
  phase = "complete" =>
    \A i \in DOMAIN blocks :
      \E j \in DOMAIN mount : Key(mount[j]) = Key(blocks[i])

-----------------------------------------------------------------------------
(* Runs of lines, and blocks that are in the lines they span.              *)

\* Every set of naturals that is not empty has a least one.
LEMMA LeastNumber ==
  ASSUME NEW T \in SUBSET Nat, T # {}
  PROVE  \E n \in T : \A m \in T : n <= m
  <1>1. PICK k \in T : TRUE
    OBVIOUS
  <1>. DEFINE segments == { 0 .. i : i \in {j \in T : j <= k} }
              S == FiniteSubsetsOf(0 .. k)
              R == StrictSubsetOrdering(0 .. k)
  <1>2. IsWellFoundedOn(R, S)
    BY FS_StrictSubsetOrderingWellFounded
  <1>3. segments \subseteq S /\ segments # {}
    <2>1. ASSUME NEW i \in T, i <= k PROVE 0 .. i \in S
      <3>1. 0 .. i \subseteq 0 .. k /\ i \in Int /\ 0 \in Int
        BY <2>1
      <3>2. IsFiniteSet(0 .. i)
        BY <3>1, FS_Interval
      <3>. QED
        BY <3>1, <3>2 DEF FiniteSubsetsOf
    <2>2. 0 .. k \in segments
      OBVIOUS
    <2>. QED
      BY <2>1, <2>2
  <1>4. \E x \in segments : \A y \in segments : ~ (<<y, x>> \in R)
    <2>. HIDE DEF segments, S, R
    <2>. QED
      BY <1>2, <1>3, WFMin
  <1>5. PICK i \in T : /\ i <= k
                       /\ \A j \in T : j <= k => ~ (<<0 .. j, 0 .. i>> \in R)
    BY <1>4
  <1>6. ASSUME NEW j \in T, j < i
        PROVE  FALSE
    <2>1. j <= k /\ 0 .. j \subseteq 0 .. k /\ 0 .. i \subseteq 0 .. k
      BY <1>5, <1>6
    <2>2. 0 .. j \subseteq 0 .. i /\ i \in 0 .. i /\ i \notin 0 .. j
      BY <1>6
    <2>. QED
      BY <1>5, <2>1, <2>2 DEF StrictSubsetOrdering
  <1>. QED
    BY <1>5, <1>6

\* EndOfRun is where the run ends.
LEMMA RunEnds ==
  ASSUME NEW ls \in Seq(Line), NEW i \in 1 .. Len(ls) + 1,
         NEW places \in SUBSET (1 .. Len(ls))
  PROVE  /\ EndOfRun(ls, i, places) \in i .. Len(ls) + 1
         /\ EndOfRun(ls, i, places) \notin places
         /\ i .. EndOfRun(ls, i, places) - 1 \subseteq places
  <1>1. Len(ls) \in Nat
    BY LenProperties
  <1>. DEFINE T == {j \in i .. Len(ls) + 1 : j \notin places}
  <1>2. T \in SUBSET Nat /\ Len(ls) + 1 \in T
    BY <1>1
  <1>3. PICK j \in T : \A k \in T : j <= k
    <2>. HIDE DEF T
    <2>. QED
      BY <1>2, LeastNumber
  <1>4. i .. j - 1 \subseteq places
    BY <1>1, <1>3
  <1>. QED
    BY <1>3, <1>4 DEF EndOfRun

\* A run has one end.
LEMMA OneEnd ==
  ASSUME NEW i \in Nat, NEW j \in Nat, NEW k \in Nat, NEW places,
         i <= j, i <= k, j \notin places, k \notin places,
         i .. j - 1 \subseteq places, i .. k - 1 \subseteq places
  PROVE  j = k
  <1>1. ~(j < k)
    OBVIOUS
  <1>2. ~(k < j)
    OBVIOUS
  <1>. QED
    BY <1>1, <1>2

\* Texts that agree have the same lines where they do.
LEMMA SameLines ==
  ASSUME NEW ls \in Seq(Line), NEW ms \in Seq(Line), NEW m \in Nat,
         Agree(ls, ms, m), NEW i \in 1 .. m, NEW j \in 0 .. m
  PROVE  SubSeq(ls, i, j) = SubSeq(ms, i, j)
  <1>1. Len(ls) \in Nat /\ Len(ms) \in Nat
    BY LenProperties
  <1>2. \A k \in i .. j : ls[k] = ms[k]
    BY DEF Agree
  <1>3. /\ SubSeq(ls, i, j) = [k \in 1 .. j - i + 1 |-> ls[i + k - 1]]
        /\ SubSeq(ms, i, j) = [k \in 1 .. j - i + 1 |-> ms[i + k - 1]]
    BY <1>1 DEF Agree
  <1>. QED
    BY <1>2, <1>3

\* Whether a table begins at a line is in that line and the next.
LEMMA SameTable ==
  ASSUME NEW ls \in Seq(Line), NEW ms \in Seq(Line), NEW m \in Nat,
         Agree(ls, ms, m), NEW i \in 1 .. m, i + 1 \in 1 .. m
  PROVE  TableAt(ls, i) <=> TableAt(ms, i)
  <1>1. i < Len(ls) /\ i < Len(ms)
    BY LenProperties DEF Agree
  <1>2. ls[i] = ms[i] /\ ls[i + 1] = ms[i + 1]
    BY DEF Agree
  <1>. QED
    BY <1>1, <1>2 DEF TableAt

(***************************************************************************)
(* A block is in the lines it spans and the line after them.               *)
(***************************************************************************)
LEMMA BlockIsLocal ==
  ASSUME NEW ls \in Seq(Line), NEW ms \in Seq(Line), NEW m \in Nat,
         Agree(ls, ms, m),
         NEW b \in Block, IsBlock(ls, b), b.start <= b.end, b.end + 1 <= m,
         b.complete
  PROVE  IsBlock(ms, b)
  <1>1. /\ Len(ls) \in Nat /\ Len(ms) \in Nat /\ m <= Len(ls) /\ m <= Len(ms)
        /\ \A k \in 1 .. m : ls[k] = ms[k]
        /\ b.start \in 1 .. m /\ b.end \in 1 .. m /\ b.end + 1 \in 1 .. m
        /\ DOMAIN ls = 1 .. Len(ls) /\ DOMAIN ms = 1 .. Len(ms)
    BY LenProperties DEF Agree, IsBlock, Block
  <1>2. /\ b.start \in 1 .. Len(ms)
        /\ ls[b.start] = ms[b.start] /\ ls[b.end] = ms[b.end]
        /\ ls[b.end + 1] = ms[b.end + 1]
    BY <1>1
  <1>3. TableAt(ls, b.start) <=> TableAt(ms, b.start)
    <2>1. b.start \in 1 .. m /\ b.start + 1 \in 1 .. m
      BY <1>1
    <2>. QED
      BY <2>1, SameTable
  <1>4. ASSUME NEW places, NEW others,
               SpansRun(ls, b, places),
               \A k \in 1 .. m : k \in places <=> k \in others
        PROVE  SpansRun(ms, b, others)
    BY <1>1, <1>4 DEF SpansRun
  <1>5. SubSeq(ls, b.start, b.end) = SubSeq(ms, b.start, b.end)
    <2>1. b.start \in 1 .. m /\ b.end \in 0 .. m
      BY <1>1
    <2>. QED
      BY <2>1, SameLines
  <1>6. ASSUME NEW type, NEW openers, NEW closer,
               IsDelimited(ls, b, type, openers, closer)
        PROVE  IsDelimited(ms, b, type, openers, closer)
    <2>1. PICK close \in b.start + 1 .. Len(ls) + 1 :
            /\ \A k \in b.start + 1 .. close - 1 : ls[k].kind # closer
            /\ b.text = <<ls[b.start]>> \o SubSeq(ls, b.start + 1, close - 1)
            /\ \/ /\ close <= Len(ls) /\ ls[close].kind = closer
                  /\ b.end = close /\ b.complete
               \/ close = Len(ls) + 1 /\ b.end = Len(ls)
      BY <1>6 DEF IsDelimited
    <2>2. /\ close <= Len(ls) /\ ls[close].kind = closer
          /\ b.end = close /\ b.complete
      BY <1>1, <2>1
    <2>3. b.start + 1 \in 1 .. m /\ close - 1 \in 0 .. m
      <3>1. b.start \in Nat /\ b.start <= b.end - 1 /\ b.end \in 1 .. m
        BY <1>1, <2>2
      <3>. QED
        BY <2>2, <3>1
    <2>4. SubSeq(ls, b.start + 1, close - 1) =
            SubSeq(ms, b.start + 1, close - 1)
      BY <2>3, SameLines
    <2>5. /\ close \in b.start + 1 .. Len(ms) + 1 /\ close <= Len(ms)
          /\ ms[close].kind = closer
          /\ \A k \in b.start + 1 .. close - 1 : ms[k].kind # closer
      <3>1. close \in 1 .. m /\ ls[close] = ms[close]
        BY <1>1, <2>2
      <3>2. \A k \in b.start + 1 .. close - 1 : ms[k] = ls[k]
        BY <1>1, <3>1
      <3>3. close \in b.start + 1 .. Len(ms) + 1 /\ close <= Len(ms)
        BY <1>1, <2>1, <3>1
      <3>. QED
        BY <2>1, <2>2, <3>1, <3>2, <3>3
    <2>6. b.text = <<ms[b.start]>> \o SubSeq(ms, b.start + 1, close - 1)
      BY <1>2, <2>1, <2>4
    <2>7. b.type = type /\ ms[b.start].kind \in openers
      BY <1>2, <1>6 DEF IsDelimited
    <2>. QED
      BY <2>2, <2>5, <2>6, <2>7 DEF IsDelimited
  <1>7. IsHeading(ls, b) => IsHeading(ms, b)
    BY <1>2 DEF IsHeading
  <1>8. ASSUME IsTable(ls, b) PROVE IsTable(ms, b)
    <2>1. TableAt(ms, b.start)
      BY <1>3, <1>8 DEF IsTable
    <2>2. SpansRun(ms, b, {i \in DOMAIN ms : IsTableRow(ms[i])})
      <3>. DEFINE P == {i \in DOMAIN ls : IsTableRow(ls[i])}
                  Q == {i \in DOMAIN ms : IsTableRow(ms[i])}
      <3>1. \A k \in 1 .. m : k \in P <=> k \in Q
        BY <1>1
      <3>2. SpansRun(ls, b, P)
        BY <1>8 DEF IsTable
      <3>3. SpansRun(ms, b, Q)
        <4>. HIDE DEF P, Q
        <4>. QED
          BY <1>4, <3>1, <3>2
      <3>. QED
        BY <3>3
    <2>. QED
      BY <1>2, <1>5, <1>8, <2>1, <2>2 DEF IsTable
  <1>9. ASSUME IsList(ls, b) PROVE IsList(ms, b)
    <2>1. SpansRun(ms, b, {i \in DOMAIN ms : ms[i].kind = "item"})
      <3>. DEFINE P == {i \in DOMAIN ls : ls[i].kind = "item"}
                  Q == {i \in DOMAIN ms : ms[i].kind = "item"}
      <3>1. \A k \in 1 .. m : k \in P <=> k \in Q
        BY <1>1
      <3>2. SpansRun(ls, b, P)
        BY <1>9 DEF IsList
      <3>3. SpansRun(ms, b, Q)
        <4>. HIDE DEF P, Q
        <4>. QED
          BY <1>4, <3>1, <3>2
      <3>. QED
        BY <3>3
    <2>. QED
      BY <1>2, <1>5, <1>9, <2>1 DEF IsList
  <1>10. ASSUME IsParagraph(ls, b) PROVE IsParagraph(ms, b)
    <2>1. SpansRun(ms, b, {i \in DOMAIN ms : /\ ms[i].kind # "blank"
                                        /\ ~StartsStructuredBlock(ms[i])})
      <3>. DEFINE P == {i \in DOMAIN ls : /\ ls[i].kind # "blank"
                                          /\ ~StartsStructuredBlock(ls[i])}
                  Q == {i \in DOMAIN ms : /\ ms[i].kind # "blank"
                                          /\ ~StartsStructuredBlock(ms[i])}
      <3>1. \A k \in 1 .. m : k \in P <=> k \in Q
        BY <1>1
      <3>2. SpansRun(ls, b, P)
        BY <1>10 DEF IsParagraph
      <3>3. SpansRun(ms, b, Q)
        <4>. HIDE DEF P, Q
        <4>. QED
          BY <1>4, <3>1, <3>2
      <3>. QED
        BY <3>3
    <2>2. ~TableAt(ms, b.start)
      BY <1>3, <1>10 DEF IsParagraph
    <2>. QED
      BY <1>2, <1>5, <1>10, <2>1, <2>2 DEF IsParagraph
  <1>. QED
    BY <1>2, <1>6, <1>7, <1>8, <1>9, <1>10 DEF IsBlock

\* Where a block is, and that it begins with its first line
LEMMA BlockFacts ==
  ASSUME NEW ls \in Seq(Line), NEW b \in Block, IsBlock(ls, b)
  PROVE  /\ b.start \in 1 .. Len(ls) /\ b.end \in b.start - 1 .. Len(ls)
         /\ ls[b.start].kind # "blank"
         /\ b.start <= b.end => b.text # <<>> /\ b.text[1] = ls[b.start]
  <1>1. /\ Len(ls) \in Nat /\ b.start \in 1 .. Len(ls) /\ b.end \in Nat
        /\ DOMAIN ls = 1 .. Len(ls)
        /\ \A k \in 1 .. Len(ls) : ls[k] \in Line
    BY LenProperties, ElementOfSeq DEF IsBlock, Block
  <1>2. ASSUME NEW r \in Seq(Line)
        PROVE  <<ls[b.start]>> \o r # <<>>
               /\ (<<ls[b.start]>> \o r)[1] = ls[b.start]
    <2>1. ls[b.start] \in Line
      BY <1>1
    <2>. DEFINE x == ls[b.start]
    <2>. HIDE DEF x
    <2>2. x \in Line
      BY <2>1 DEF x
    <2>3. <<x>> \o r # <<>> /\ (<<x>> \o r)[1] = x
      BY <2>2
    <2>. QED
      BY <2>3 DEF x
  <1>3. \A i \in 1 .. Len(ls) + 1, j \in 0 .. Len(ls) :
          SubSeq(ls, i, j) \in Seq(Line)
    BY <1>1, SubSeqProperties
  <1>4. ASSUME b.start <= b.end
        PROVE  /\ SubSeq(ls, b.start, b.end) # <<>>
               /\ SubSeq(ls, b.start, b.end)[1] = ls[b.start]
    <2>. DEFINE t == SubSeq(ls, b.start, b.end)
                T == {ls[i] : i \in b.start .. b.end}
    <2>1. b.start \in Int /\ b.end \in Int /\ b.start <= b.end
      BY <1>1, <1>4
    <2>2. /\ t \in Seq(T) /\ Len(t) = b.end - b.start + 1
          /\ \A i \in 1 .. b.end - b.start + 1 : t[i] = ls[b.start + i - 1]
      BY <2>1, SubSeqProperties
    <2>3. /\ 1 \in 1 .. b.end - b.start + 1 /\ b.start + 1 - 1 = b.start
          /\ b.end - b.start + 1 # 0
      BY <2>1
    <2>. HIDE DEF t, T
    <2>4. t # <<>> /\ t[1] = ls[b.start]
      BY <2>2, <2>3
    <2>. QED
      BY <2>4 DEF t
  <1>5. ASSUME NEW type, NEW openers, NEW closer,
               IsDelimited(ls, b, type, openers, closer),
               "blank" \notin openers
        PROVE  /\ b.end \in b.start .. Len(ls)
               /\ ls[b.start].kind # "blank"
               /\ b.text # <<>> /\ b.text[1] = ls[b.start]
    <2>1. PICK close \in b.start + 1 .. Len(ls) + 1 :
            /\ b.text = <<ls[b.start]>> \o SubSeq(ls, b.start + 1, close - 1)
            /\ \/ /\ close <= Len(ls) /\ ls[close].kind = closer
                  /\ b.end = close /\ b.complete
               \/ close = Len(ls) + 1 /\ b.end = Len(ls)
      BY <1>5 DEF IsDelimited
    <2>2. b.end \in b.start .. Len(ls)
      BY <1>1, <2>1
    <2>3. SubSeq(ls, b.start + 1, close - 1) \in Seq(Line)
      <3>1. b.start + 1 \in 1 .. Len(ls) + 1 /\ close - 1 \in 0 .. Len(ls)
        BY <1>1, <2>1
      <3>. QED
        BY <1>3, <3>1
    <2>4. ls[b.start].kind # "blank"
      BY <1>5 DEF IsDelimited
    <2>. QED
      BY <1>2, <2>1, <2>2, <2>3, <2>4
  <1>6. IsHeading(ls, b) => /\ b.end \in b.start .. Len(ls)
                            /\ ls[b.start].kind # "blank"
                            /\ b.text # <<>> /\ b.text[1] = ls[b.start]
    BY <1>1 DEF IsHeading
  <1>7. \A places : SpansRun(ls, b, places) => b.end \in b.start - 1 .. Len(ls)
    BY <1>1 DEF SpansRun
  <1>8. ASSUME IsTable(ls, b)
        PROVE  /\ b.end \in b.start - 1 .. Len(ls)
               /\ ls[b.start].kind # "blank"
               /\ b.text # <<>> /\ b.text[1] = ls[b.start]
    <2>1. ls[b.start].kind # "blank" /\ b.end \in b.start - 1 .. Len(ls)
      BY <1>7, <1>8 DEF IsTable, TableAt, IsTableRow
    <2>. DEFINE taken == SubSeq(ls, b.start, b.end)
    <2>2. taken \in Seq(Line)
      <3>1. b.start \in 1 .. Len(ls) + 1 /\ b.end \in 0 .. Len(ls)
        BY <1>1, <2>1
      <3>. QED
        BY <1>3, <3>1
    <2>3. SubSeq(taken, 3, Len(taken)) \in Seq(Line)
      <3>. HIDE DEF taken
      <3>1. Len(taken) \in Nat
        BY <2>2, LenProperties
      <3>2. CASE Len(taken) < 3
        BY <2>2, <3>1, <3>2, SubSeqProperties
      <3>3. CASE Len(taken) >= 3
        BY <2>2, <3>1, <3>3, SubSeqProperties
      <3>. QED
        BY <3>1, <3>2, <3>3
    <2>. QED
      BY <1>2, <1>8, <2>1, <2>3 DEF IsTable
  <1>9. ASSUME IsList(ls, b)
        PROVE  /\ b.end \in b.start - 1 .. Len(ls)
               /\ ls[b.start].kind # "blank"
               /\ b.start <= b.end => b.text # <<>> /\ b.text[1] = ls[b.start]
    BY <1>4, <1>7, <1>9 DEF IsList
  <1>10. ASSUME IsParagraph(ls, b)
         PROVE  /\ b.end \in b.start - 1 .. Len(ls)
                /\ ls[b.start].kind # "blank"
                /\ b.start <= b.end => b.text # <<>> /\ b.text[1] = ls[b.start]
    BY <1>4, <1>7, <1>10 DEF IsParagraph
  <1>. QED
    BY <1>1, <1>5, <1>6, <1>8, <1>9, <1>10 DEF IsBlock

\* A block whose end is seen is complete.
LEMMA SeenEndIsComplete ==
  ASSUME NEW ls \in Seq(Line), NEW b \in Block, IsBlock(ls, b),
         b.end < Len(ls),
         ls[b.end + 1].kind # "blank" \/ b.end + 1 < Len(ls)
  PROVE  b.complete
  <1>1. Len(ls) \in Nat /\ b.end \in Nat
    BY LenProperties DEF Block
  <1>2. ASSUME NEW type, NEW openers, NEW closer,
               IsDelimited(ls, b, type, openers, closer)
        PROVE  b.complete
    BY <1>1, <1>2 DEF IsDelimited
  <1>. QED
    BY <1>1, <1>2 DEF IsBlock, IsHeading, IsTable, IsList, IsParagraph

\* One block but for being complete
Alike(b, c) ==
  b.start = c.start /\ b.end = c.end /\ b.type = c.type /\ b.text = c.text

\* At one line the parser takes one block.
LEMMA OneBlock ==
  ASSUME NEW ls \in Seq(Line), NEW b \in Block, NEW c \in Block,
         IsBlock(ls, b), IsBlock(ls, c), b.start = c.start
  PROVE  Alike(b, c)
  <1>. DEFINE i == b.start
  <1>1. Len(ls) \in Nat /\ i \in 1 .. Len(ls) /\ b.end \in Nat /\ c.end \in Nat
    BY LenProperties DEF IsBlock, Block
  <1>2. ASSUME NEW type, NEW openers, NEW closer,
               IsDelimited(ls, b, type, openers, closer),
               IsDelimited(ls, c, type, openers, closer)
        PROVE  b.end = c.end /\ b.text = c.text /\ b.type = c.type
    <2>1. PICK j \in i + 1 .. Len(ls) + 1 :
            /\ \A k \in i + 1 .. j - 1 : ls[k].kind # closer
            /\ b.text = <<ls[i]>> \o SubSeq(ls, i + 1, j - 1)
            /\ \/ /\ j <= Len(ls) /\ ls[j].kind = closer
                  /\ b.end = j
               \/ j = Len(ls) + 1 /\ b.end = Len(ls)
      BY <1>2 DEF IsDelimited
    <2>2. PICK j2 \in i + 1 .. Len(ls) + 1 :
            /\ \A k \in i + 1 .. j2 - 1 : ls[k].kind # closer
            /\ c.text = <<ls[i]>> \o SubSeq(ls, i + 1, j2 - 1)
            /\ \/ /\ j2 <= Len(ls) /\ ls[j2].kind = closer
                  /\ c.end = j2
               \/ j2 = Len(ls) + 1 /\ c.end = Len(ls)
      BY <1>2 DEF IsDelimited
    <2>3. ~(j < j2)
      <3>. SUFFICES ASSUME j < j2 PROVE FALSE
        OBVIOUS
      <3>1. j \in i + 1 .. j2 - 1 /\ j <= Len(ls)
        BY <1>1, <2>1, <2>2
      <3>2. ls[j].kind = closer
        BY <1>1, <2>1, <3>1
      <3>. QED
        BY <2>2, <3>1, <3>2
    <2>4. ~(j2 < j)
      <3>. SUFFICES ASSUME j2 < j PROVE FALSE
        OBVIOUS
      <3>1. j2 \in i + 1 .. j - 1 /\ j2 <= Len(ls)
        BY <1>1, <2>1, <2>2
      <3>2. ls[j2].kind = closer
        BY <1>1, <2>2, <3>1
      <3>. QED
        BY <2>1, <3>1, <3>2
    <2>5. j = j2
      BY <1>1, <2>1, <2>2, <2>3, <2>4
    <2>6. b.type = type /\ c.type = type
      BY <1>2 DEF IsDelimited
    <2>7. b.end = c.end
      <3>1. CASE j <= Len(ls)
        BY <1>1, <2>1, <2>2, <2>5, <3>1
      <3>2. CASE ~(j <= Len(ls))
        BY <1>1, <2>1, <2>2, <2>5, <3>2
      <3>. QED
        BY <3>1, <3>2
    <2>8. b.text = c.text
      BY <2>1, <2>2, <2>5
    <2>. QED
      BY <2>6, <2>7, <2>8
  <1>3. ASSUME NEW places, SpansRun(ls, b, places), SpansRun(ls, c, places)
        PROVE  b.end = c.end
    <2>1. b.end + 1 = c.end + 1
      BY <1>1, <1>3, OneEnd DEF SpansRun
    <2>. QED
      BY <1>1, <2>1
  <1>4. IsHeading(ls, b) /\ IsHeading(ls, c) => Alike(b, c)
    BY DEF IsHeading, Alike
  <1>5. IsTable(ls, b) /\ IsTable(ls, c) => Alike(b, c)
    BY <1>3 DEF IsTable, Alike
  <1>6. IsList(ls, b) /\ IsList(ls, c) => Alike(b, c)
    BY <1>3 DEF IsList, Alike
  <1>7. IsParagraph(ls, b) /\ IsParagraph(ls, c) => Alike(b, c)
    BY <1>3 DEF IsParagraph, Alike
  <1>8. /\ IsDelimited(ls, b, "code", {"fence", "lang"}, "fence")
             => ls[i].kind \in {"fence", "lang"}
        /\ IsDelimited(ls, b, "math_block", {"math"}, "math")
             => ls[i].kind = "math"
        /\ IsHeading(ls, b) => ls[i].kind = "heading"
        /\ IsTable(ls, b) => TableAt(ls, i) /\ ls[i].kind \in {"row", "sep"}
        /\ IsList(ls, b) => ls[i].kind = "item"
        /\ IsParagraph(ls, b) =>
             /\ ls[i].kind \notin {"fence", "lang", "math", "heading", "item"}
             /\ ~TableAt(ls, i)
    BY DEF IsDelimited, IsHeading, IsTable, IsList, IsParagraph, TableAt,
           IsTableRow
  <1>9. /\ IsDelimited(ls, c, "code", {"fence", "lang"}, "fence")
             => ls[i].kind \in {"fence", "lang"}
        /\ IsDelimited(ls, c, "math_block", {"math"}, "math")
             => ls[i].kind = "math"
        /\ IsHeading(ls, c) => ls[i].kind = "heading"
        /\ IsTable(ls, c) => TableAt(ls, i) /\ ls[i].kind \in {"row", "sep"}
        /\ IsList(ls, c) => ls[i].kind = "item"
        /\ IsParagraph(ls, c) =>
             /\ ls[i].kind \notin {"fence", "lang", "math", "heading", "item"}
             /\ ~TableAt(ls, i)
    BY DEF IsDelimited, IsHeading, IsTable, IsList, IsParagraph, TableAt,
           IsTableRow
  <1>. QED
    BY <1>2, <1>4, <1>5, <1>6, <1>7, <1>8, <1>9 DEF IsBlock, Alike

(***************************************************************************)
(* Two texts that agree up to line m: what the parser makes of one before  *)
(* m, it makes of the other.  Of the blocks that it would not there is no  *)
(* first one: at its first line the other parse is in a block that begins  *)
(* earlier, and which the one parse has as well.                           *)
(***************************************************************************)
LEMMA ParsesAgree ==
  ASSUME NEW ls \in Seq(Line), NEW ms \in Seq(Line), NEW m \in Nat,
         Agree(ls, ms, m),
         NEW B \in SUBSET Block, NEW p \in 1 .. Len(ls) + 1, IsParse(ls, B, p),
         NEW C \in SUBSET Block, NEW q \in 1 .. Len(ms) + 1, IsParse(ms, C, q),
         NEW b \in B, b.end + 1 <= m, b.start < q, b.complete
  PROVE  \E c \in C : Alike(b, c) /\ IsBlock(ms, b)
  <1>. DEFINE Old == {x \in B : /\ x.end + 1 <= m /\ x.start < q
                                /\ x.complete /\ x.end <= b.end
                                /\ ~ \E c \in C : Alike(x, c)}
              T == {x.start : x \in Old}
  <1>0. /\ Len(ls) \in Nat /\ Len(ms) \in Nat /\ m <= Len(ls) /\ m <= Len(ms)
        /\ \A k \in 1 .. m : ls[k] = ms[k]
        /\ \A x \in B \cup C : x.start \in Nat /\ x.end \in Nat
    BY LenProperties DEF Agree, Block
  <1>1. \A x \in B : x.start <= x.end /\ x.end < p /\ IsBlock(ls, x)
    BY DEF IsParse
  <1>2. \A x \in C : x.start <= x.end /\ x.end < q /\ IsBlock(ms, x)
    BY DEF IsParse
  <1>3. ASSUME NEW x \in B, x.end + 1 <= m, x.complete
        PROVE  IsBlock(ms, x)
    BY <1>1, <1>3, BlockIsLocal
  <1>4. IsBlock(ms, b)
    BY <1>3
  <1>5. Old = {}
    <2>. SUFFICES ASSUME Old # {} PROVE FALSE
      OBVIOUS
    <2>1. T \in SUBSET Nat /\ T # {}
      BY <1>0
    <2>2. PICK s \in T : \A k \in T : s <= k
      <3>. HIDE DEF T
      <3>. QED
        BY <2>1, LeastNumber
    <2>3. PICK x \in Old : x.start = s
      BY <2>2
    <2>4. /\ x \in B /\ x.end + 1 <= m /\ s < q /\ x.complete
          /\ ~ \E c \in C : Alike(x, c)
          /\ x.end <= b.end
      BY <2>3
    <2>5. IsBlock(ms, x) /\ s \in 1 .. m /\ s <= x.end
      <3>1. IsBlock(ms, x) /\ s <= x.end
        BY <1>1, <1>3, <2>3, <2>4
      <3>2. s \in 1 .. Len(ms) /\ x.end \in Nat /\ x.end + 1 <= m
        BY <1>0, <2>3, <2>4, <3>1 DEF IsBlock
      <3>. QED
        BY <1>0, <3>1, <3>2
    <2>6. ms[s].kind # "blank"
      BY <2>3, <2>4, <2>5, BlockFacts
    <2>7. PICK d \in C : d.start <= s /\ s <= d.end
      BY <2>4, <2>5, <2>6 DEF IsParse
    <2>8. CASE d.start = s
      BY <1>2, <2>3, <2>4, <2>5, <2>7, <2>8, OneBlock
    <2>9. CASE d.start < s
      <3>. DEFINE t == d.start
      <3>1. IsBlock(ms, d) /\ t \in 1 .. m
        BY <1>0, <1>2, <2>5, <2>7, <2>9 DEF IsBlock
      <3>2. ms[t].kind # "blank"
        BY <3>1, BlockFacts
      <3>3. /\ t \in Nat /\ s \in Nat /\ x.end \in Nat /\ b.end \in Nat
            /\ p \in Nat /\ q \in Nat /\ x.end < p
        BY <1>0, <1>1, <2>4, <2>5, <3>1
      <3>4. ls[t] = ms[t] /\ t \in 1 .. p - 1
        <4>1. t \in 1 .. p - 1
          BY <2>5, <2>9, <3>3, <3>1
        <4>. QED
          BY <1>0, <3>1, <4>1
      <3>5. PICK e \in B : e.start <= t /\ t <= e.end
        BY <3>2, <3>4 DEF IsParse
      <3>6. e.start \in Nat /\ e.end \in Nat
        BY <1>0
      <3>7. e.end < s
        <4>1. e = x \/ e.end < x.start \/ x.end < e.start
          BY <2>4 DEF IsParse
        <4>. QED
          <5>1. e.start <= t /\ t <= e.end /\ t < s /\ x.start = s
            BY <2>3, <2>9, <3>5
          <5>2. e # x
            BY <3>3, <3>6, <5>1
          <5>3. ~(x.end < e.start)
            BY <2>5, <3>3, <3>6, <5>1
          <5>. QED
            BY <4>1, <5>1, <5>2, <5>3
      <3>8. e.start < s /\ e.end + 1 <= m /\ e.end <= b.end
            /\ e.end + 1 <= b.end /\ e.start < q
        <4>1. e.start <= t /\ t < s /\ s < q /\ e.end < s /\ s <= x.end
              /\ x.end + 1 <= m /\ x.end <= b.end
          BY <2>4, <2>5, <2>9, <3>5, <3>7
        <4>. HIDE DEF t, T, Old
        <4>2. e.start < s
          BY <3>3, <3>6, <4>1
        <4>3. e.start < q
          BY <3>3, <3>6, <4>1
        <4>. DEFINE u == e.end
                    v == x.end
                    w == b.end
        <4>4. /\ u \in Nat /\ v \in Nat /\ w \in Nat
              /\ u < s /\ s <= v /\ v + 1 <= m /\ v <= w
          BY <3>3, <3>6, <4>1
        <4>. HIDE DEF u, v, w
        <4>5. u + 1 <= v
          BY <3>3, <4>4
        <4>6. u + 1 <= m /\ u + 1 <= w /\ u <= w
          BY <4>4, <4>5
        <4>. QED
          BY <4>2, <4>3, <4>6 DEF u, v, w
      <3>9. e.complete
        <4>. HIDE DEF t, T, Old
        <4>1. m <= Len(ls) /\ Len(ls) \in Nat
          BY <1>0
        <4>2. e.end + 1 < Len(ls)
          BY <3>3, <3>8, <3>6, <4>1
        <4>3. e.end < Len(ls) /\ IsBlock(ls, e)
          BY <1>1, <3>6, <4>1, <4>2
        <4>. QED
          BY <4>2, <4>3, SeenEndIsComplete
      <3>10. e \notin Old
        <4>1. e.start \notin T
          <5>. HIDE DEF T
          <5>1. e.start \in Nat
            BY <1>0
          <5>. QED
            BY <2>2, <3>3, <3>8, <5>1
        <4>. QED
          BY <4>1
      <3>11. PICK c \in C : Alike(e, c)
        BY <3>8, <3>10, <3>9
      <3>12. c = d
        <4>1. c.start <= t /\ t <= c.end
          BY <3>5, <3>11 DEF Alike
        <4>2. c = d \/ c.end < t \/ d.end < c.start
          BY DEF IsParse
        <4>3. c.start \in Nat /\ c.end \in Nat /\ d.end \in Nat /\ t < d.end
          BY <1>0, <2>5, <2>7, <2>9
        <4>. HIDE DEF t
        <4>. QED
          BY <3>3, <4>1, <4>2, <4>3
      <3>. QED
        BY <1>0, <2>5, <2>7, <3>7, <3>11, <3>12 DEF Alike
    <2>. QED
      BY <1>0, <2>5, <2>7, <2>8, <2>9
  <1>. QED
    BY <1>0, <1>4, <1>5

-----------------------------------------------------------------------------
(* The steps of the parser.                                                *)

\* Block b is taken at the line the parser is at.
Takes(b) ==
  /\ b \in Block /\ IsBlock(lines, b) /\ b.start = index
  /\ final => b.complete
  /\ blocks' = Append(blocks, b) /\ index' = b.end + 1
  /\ UNCHANGED <<lines, pieces, phase, final, runVars>>

\* The types of the lines and of what is cut from them
LEMMA LinesOK ==
  ASSUME MdTypeOK
  PROVE  /\ lines \in Seq(Line) /\ Len(lines) \in Nat
         /\ DOMAIN lines = 1 .. Len(lines)
         /\ \A i \in 1 .. Len(lines) : lines[i] \in Line
         /\ \A i \in 1 .. Len(lines) + 1, j \in 0 .. Len(lines) :
              SubSeq(lines, i, j) \in Seq(Line)
  BY LenProperties, ElementOfSeq, SubSeqProperties DEF MdTypeOK

\* A line in front of lines
LEMMA OneMore ==
  ASSUME NEW x \in Line, NEW r \in Seq(Line)
  PROVE  <<x>> \o r \in Seq(Line)
  BY ConcatProperties

\* The parser takes code or a formula.
LEMMA TakesDelimited ==
  ASSUME MdTypeOK, index \in 1 .. Len(lines) + 1,
         NEW type \in {"code", "math_block"}, NEW openers, NEW closer,
         TakeDelimited(type, openers, closer),
         \/ type = "code" /\ openers = {"fence", "lang"} /\ closer = "fence"
         \/ type = "math_block" /\ openers = {"math"} /\ closer = "math"
  PROVE  \E b \in Block : Takes(b)
  <1>. DEFINE inside == {i \in DOMAIN lines : lines[i].kind # closer}
              close == EndOfRun(lines, index + 1, inside)
              closed == close <= Len(lines)
              text == <<lines[index]>> \o SubSeq(lines, index + 1, close - 1)
              next == IF closed THEN close + 1 ELSE close
              b == [type |-> type, start |-> index, end |-> next - 1,
                    text |-> text, complete |-> closed \/ final]
  <1>1. index \in 1 .. Len(lines) /\ lines[index].kind \in openers
    BY LinesOK DEF TakeDelimited, AtLine
  <1>2. /\ close \in index + 1 .. Len(lines) + 1
        /\ close \notin inside
        /\ index + 1 .. close - 1 \subseteq inside
    <2>1. index + 1 \in 1 .. Len(lines) + 1
          /\ inside \in SUBSET (1 .. Len(lines))
      BY <1>1, LinesOK
    <2>. HIDE DEF inside
    <2>. QED
      BY <2>1, RunEnds, LinesOK
  <1>3. /\ blocks' = Append(blocks, b) /\ index' = next
        /\ UNCHANGED <<lines, pieces, phase, final, runVars>>
    BY DEF TakeDelimited, Push
  <1>. HIDE DEF close
  <1>4. text \in Seq(Line)
    <2>1. index + 1 \in 1 .. Len(lines) + 1 /\ close - 1 \in 0 .. Len(lines)
      BY <1>1, <1>2, LinesOK
    <2>. QED
      BY <1>1, <2>1, OneMore, LinesOK
  <1>5. next \in Nat /\ next - 1 \in Nat /\ index \in Nat /\ final \in BOOLEAN
    BY <1>1, <1>2, LinesOK DEF MdTypeOK
  <1>. HIDE DEF text
  <1>6. b \in Block
    <2>. HIDE DEF next, closed
    <2>1. (closed \/ final) \in BOOLEAN
      OBVIOUS
    <2>. QED
      BY <1>4, <1>5, <2>1 DEF Block
  <1>7. /\ b.start = index /\ b.end = next - 1 /\ b.text = text
        /\ b.type = type /\ b.complete = (closed \/ final)
    OBVIOUS
  <1>. HIDE DEF b
  <1>8. IsDelimited(lines, b, type, openers, closer)
    <2>1. /\ \A k \in b.start + 1 .. close - 1 : lines[k].kind # closer
          /\ closed => lines[close].kind = closer
      BY <1>1, <1>2, <1>7, LinesOK
    <2>2. closed => b.end = close /\ b.complete
      <3>1. close \in Nat
        BY <1>1, <1>2, LinesOK
      <3>2. closed => b.end = close
        BY <1>7, <3>1
      <3>. QED
        BY <1>7, <3>2, Zenon
    <2>3. ~closed => close = Len(lines) + 1 /\ b.end = Len(lines)
      BY <1>2, <1>7, LinesOK
    <2>4. b.text = <<lines[b.start]>> \o SubSeq(lines, b.start + 1, close - 1)
      BY <1>7 DEF text
    <2>. QED
      BY <1>1, <1>2, <1>7, <2>1, <2>2, <2>3, <2>4 DEF IsDelimited
  <1>9. IsBlock(lines, b)
    BY <1>1, <1>7, <1>8 DEF IsBlock
  <1>10. index' = b.end + 1 /\ (final => b.complete)
    BY <1>3, <1>5, <1>7
  <1>. QED
    BY <1>3, <1>6, <1>7, <1>9, <1>10 DEF Takes

\* The parser takes a heading.
LEMMA TakesHeading ==
  ASSUME MdTypeOK, index \in 1 .. Len(lines) + 1, TakeHeading
  PROVE  \E b \in Block : Takes(b)
  <1>. DEFINE b == [type |-> "heading", start |-> index, end |-> index + 1 - 1,
                    text |-> <<lines[index]>>, complete |-> TRUE]
  <1>1. index \in 1 .. Len(lines) /\ lines[index].kind = "heading"
    BY LinesOK DEF TakeHeading, AtLine
  <1>2. index \in Nat /\ lines[index] \in Line
    BY <1>1, LinesOK
  <1>3. b \in Block
    <2>1. <<lines[index]>> \in Seq(Line)
      BY <1>2
    <2>. QED
      BY <1>2, <2>1 DEF Block
  <1>4. IsBlock(lines, b) /\ b.start = index /\ b.complete /\ b.end = index
    BY <1>1, <1>2 DEF IsBlock, IsHeading
  <1>5. /\ blocks' = Append(blocks, b) /\ index' = b.end + 1
        /\ UNCHANGED <<lines, pieces, phase, final, runVars>>
    BY <1>2 DEF TakeHeading, Push
  <1>. HIDE DEF b
  <1>. QED
    BY <1>3, <1>4, <1>5 DEF Takes

\* What the run of places from the line the parser is at makes of a block.
\* What ends where the run does spans the run.
LEMMA RunIsSpanned ==
  ASSUME MdTypeOK, index \in 1 .. Len(lines),
         NEW places \in SUBSET (1 .. Len(lines)),
         NEW b, b.start = index,
         b.end = EndOfRun(lines, index, places) - 1
  PROVE  /\ SpansRun(lines, b, places)
         /\ b.end + 1 = EndOfRun(lines, index, places)
         /\ b.end \in Nat /\ b.end \in index - 1 .. Len(lines)
  <1>. DEFINE next == EndOfRun(lines, index, places)
  <1>1. /\ next \in index .. Len(lines) + 1 /\ next \notin places
        /\ index .. next - 1 \subseteq places
    BY RunEnds, LinesOK
  <1>. HIDE DEF next
  <1>2. b.end = next - 1
    BY DEF next
  <1>3. next \in Nat /\ next >= 1
    BY <1>1, LinesOK
  <1>4. b.end + 1 = next
    BY <1>2, <1>3
  <1>5. b.end \in Nat /\ b.end \in index - 1 .. Len(lines)
    BY <1>1, <1>2, <1>3, LinesOK
  <1>6. SpansRun(lines, b, places)
    BY <1>1, <1>2, <1>4 DEF SpansRun
  <1>. QED
    BY <1>4, <1>5, <1>6 DEF next

\* The parser takes a table.
LEMMA TakesTable ==
  ASSUME MdTypeOK, index \in 1 .. Len(lines) + 1, TakeTable
  PROVE  \E b \in Block : Takes(b)
  <1>. DEFINE places == {i \in DOMAIN lines : IsTableRow(lines[i])}
              next == EndOfRun(lines, index, places)
              taken == SubSeq(lines, index, next - 1)
              text == <<lines[index]>> \o SubSeq(taken, 3, Len(taken))
              seen_end == /\ next <= Len(lines)
                          /\ lines[next].kind # "blank" \/ next < Len(lines)
              b == [type |-> "table", start |-> index, end |-> next - 1,
                    text |-> text, complete |-> final \/ seen_end]
  <1>1. index \in 1 .. Len(lines) /\ TableAt(lines, index) /\ final \in BOOLEAN
    BY LinesOK DEF TakeTable, AtLine, MdTypeOK
  <1>2. /\ blocks' = Append(blocks, b) /\ index' = next
        /\ UNCHANGED <<lines, pieces, phase, final, runVars>>
    BY DEF TakeTable, Push
  <1>3. /\ b.start = index /\ b.end = next - 1 /\ b.text = text
        /\ b.type = "table" /\ b.complete = (final \/ seen_end)
    OBVIOUS
  <1>4. /\ SpansRun(lines, b, places) /\ b.end + 1 = next
        /\ b.end \in Nat /\ b.end \in index - 1 .. Len(lines)
    <2>1. places \in SUBSET (1 .. Len(lines))
      BY LinesOK
    <2>2. b.start = index /\ b.end = EndOfRun(lines, index, places) - 1
      BY <1>3
    <2>. HIDE DEF places, b
    <2>. QED
      BY <1>1, <2>1, <2>2, RunIsSpanned
  <1>. HIDE DEF next
  <1>5. text \in Seq(Line)
    <2>1. next - 1 \in 0 .. Len(lines)
      BY <1>1, <1>3, <1>4, LinesOK
    <2>2. taken \in Seq(Line)
      BY <1>1, <2>1, LinesOK
    <2>3. SubSeq(taken, 3, Len(taken)) \in Seq(Line)
      <3>. HIDE DEF taken
      <3>1. Len(taken) \in Nat
        BY <2>2, LenProperties
      <3>2. CASE Len(taken) < 3
        BY <2>2, <3>1, <3>2, SubSeqProperties
      <3>3. CASE Len(taken) >= 3
        BY <2>2, <3>1, <3>3, SubSeqProperties
      <3>. QED
        BY <3>1, <3>2, <3>3
    <2>. HIDE DEF taken
    <2>. QED
      BY <1>1, <2>3, OneMore, LinesOK
  <1>6. b \in Block
    <2>1. (final \/ seen_end) \in BOOLEAN /\ next - 1 \in Nat /\ index \in Nat
      BY <1>1, <1>3, <1>4, LinesOK
    <2>. HIDE DEF seen_end, text
    <2>. QED
      BY <1>5, <2>1 DEF Block
  <1>. HIDE DEF b
  <1>7. IsTable(lines, b)
    <2>1. b.text = LET r == SubSeq(lines, b.start, b.end)
                   IN <<lines[b.start]>> \o SubSeq(r, 3, Len(r))
      BY <1>3
    <2>2. b.end < Len(lines)
          /\ (lines[b.end + 1].kind # "blank" \/ b.end + 1 < Len(lines))
          => b.complete
      <3>1. b.end < Len(lines) => next <= Len(lines)
        BY <1>4, LinesOK
      <3>. QED
        BY <1>3, <1>4, <3>1
    <2>. QED
      BY <1>1, <1>3, <1>4, <2>1, <2>2 DEF IsTable
  <1>8. IsBlock(lines, b) /\ index' = b.end + 1 /\ (final => b.complete)
    BY <1>1, <1>2, <1>3, <1>4, <1>7 DEF IsBlock
  <1>. QED
    BY <1>2, <1>3, <1>6, <1>8 DEF Takes

\* A block whose text is a run of lines
LEMMA TakesRun ==
  ASSUME MdTypeOK, index \in 1 .. Len(lines) + 1,
         NEW type \in {"list", "paragraph"},
         NEW places \in SUBSET (1 .. Len(lines)),
         AtLine,
         LET next == EndOfRun(lines, index, places)
         IN Push(type, SubSeq(lines, index, next - 1),
                 final \/ next <= Len(lines), next)
  PROVE  \E b \in Block :
           /\ b.start = index /\ b.type = type
           /\ SpansRun(lines, b, places)
           /\ b.text = SubSeq(lines, b.start, b.end)
           /\ (b.end < Len(lines) => b.complete) /\ (final => b.complete)
           /\ blocks' = Append(blocks, b) /\ index' = b.end + 1
           /\ UNCHANGED <<lines, pieces, phase, final, runVars>>
  <1>. DEFINE next == EndOfRun(lines, index, places)
              text == SubSeq(lines, index, next - 1)
              b == [type |-> type, start |-> index, end |-> next - 1,
                    text |-> text, complete |-> final \/ next <= Len(lines)]
  <1>1. index \in 1 .. Len(lines) /\ final \in BOOLEAN
    BY LinesOK DEF AtLine, MdTypeOK
  <1>2. /\ blocks' = Append(blocks, b) /\ index' = next
        /\ UNCHANGED <<lines, pieces, phase, final, runVars>>
    BY DEF Push
  <1>3. /\ b.start = index /\ b.end = next - 1 /\ b.text = text
        /\ b.type = type /\ b.complete = (final \/ next <= Len(lines))
    OBVIOUS
  <1>4. /\ SpansRun(lines, b, places) /\ b.end + 1 = next
        /\ b.end \in Nat /\ b.end \in index - 1 .. Len(lines)
    <2>1. b.start = index /\ b.end = EndOfRun(lines, index, places) - 1
      BY <1>3
    <2>. HIDE DEF b
    <2>. QED
      BY <1>1, <2>1, RunIsSpanned
  <1>. HIDE DEF next
  <1>5. text \in Seq(Line)
    <2>1. next - 1 \in 0 .. Len(lines)
      BY <1>1, <1>3, <1>4, LinesOK
    <2>. QED
      BY <1>1, <2>1, LinesOK
  <1>6. b \in Block
    <2>1. /\ (final \/ next <= Len(lines)) \in BOOLEAN
          /\ next - 1 \in Nat /\ index \in Nat
      BY <1>1, <1>3, <1>4, LinesOK
    <2>. HIDE DEF text
    <2>. QED
      BY <1>5, <2>1 DEF Block
  <1>. HIDE DEF b
  <1>7. /\ b.text = SubSeq(lines, b.start, b.end)
        /\ (b.end < Len(lines) => b.complete) /\ (final => b.complete)
    <2>1. b.end < Len(lines) => next <= Len(lines)
      BY <1>4, LinesOK
    <2>. HIDE DEF text
    <2>2. b.text = SubSeq(lines, b.start, b.end)
      BY <1>3 DEF text
    <2>. QED
      BY <1>3, <2>1, <2>2, Zenon
  <1>. QED
    BY <1>2, <1>3, <1>4, <1>6, <1>7

\* The parser takes a list.
LEMMA TakesList ==
  ASSUME MdTypeOK, index \in 1 .. Len(lines) + 1, TakeList
  PROVE  \E b \in Block : Takes(b)
  <1>. DEFINE places == {i \in DOMAIN lines : lines[i].kind = "item"}
  <1>1. places \in SUBSET (1 .. Len(lines))
    BY LinesOK
  <1>2. PICK b \in Block :
          /\ b.start = index /\ b.type = "list"
          /\ SpansRun(lines, b, places)
          /\ b.text = SubSeq(lines, b.start, b.end)
          /\ (b.end < Len(lines) => b.complete) /\ (final => b.complete)
          /\ blocks' = Append(blocks, b) /\ index' = b.end + 1
          /\ UNCHANGED <<lines, pieces, phase, final, runVars>>
    <2>1. AtLine /\ LET next == EndOfRun(lines, index, places)
                    IN Push("list", SubSeq(lines, index, next - 1),
                            final \/ next <= Len(lines), next)
      BY DEF TakeList
    <2>. HIDE DEF places
    <2>. QED
      BY <1>1, <2>1, TakesRun
  <1>3. index \in 1 .. Len(lines) /\ lines[index].kind = "item"
    BY LinesOK DEF TakeList, AtLine
  <1>4. IsBlock(lines, b)
    BY <1>2, <1>3 DEF IsBlock, IsList
  <1>. QED
    BY <1>2, <1>4 DEF Takes

\* The parser takes a paragraph.
LEMMA TakesParagraph ==
  ASSUME MdTypeOK, index \in 1 .. Len(lines) + 1, TakeParagraph
  PROVE  \E b \in Block : Takes(b)
  <1>. DEFINE places == {i \in DOMAIN lines :
                           /\ lines[i].kind # "blank"
                           /\ ~StartsStructuredBlock(lines[i])}
  <1>1. places \in SUBSET (1 .. Len(lines))
    BY LinesOK
  <1>2. PICK b \in Block :
          /\ b.start = index /\ b.type = "paragraph"
          /\ SpansRun(lines, b, places)
          /\ b.text = SubSeq(lines, b.start, b.end)
          /\ (b.end < Len(lines) => b.complete) /\ (final => b.complete)
          /\ blocks' = Append(blocks, b) /\ index' = b.end + 1
          /\ UNCHANGED <<lines, pieces, phase, final, runVars>>
    <2>1. AtLine /\ LET next == EndOfRun(lines, index, places)
                    IN Push("paragraph", SubSeq(lines, index, next - 1),
                            final \/ next <= Len(lines), next)
      BY DEF TakeParagraph
    <2>. HIDE DEF places
    <2>. QED
      BY <1>1, <2>1, TakesRun
  <1>3. /\ index \in 1 .. Len(lines) /\ ~TableAt(lines, index)
        /\ lines[index].kind \notin {"blank", "fence", "lang", "math",
                                     "heading", "item"}
    BY LinesOK DEF TakeParagraph, AtLine
  <1>4. IsBlock(lines, b)
    BY <1>2, <1>3 DEF IsBlock, IsParagraph
  <1>. QED
    BY <1>2, <1>4 DEF Takes

-----------------------------------------------------------------------------
(* Sums and subsequences.                                                  *)

\* Induction up to a number, for the numbers of a set.
LEMMA UpTo ==
  ASSUME NEW N \in Nat, NEW P \in SUBSET (0 .. N), 0 \in P,
         \A k \in 0 .. N - 1 : k \in P => k + 1 \in P
  PROVE  P = 0 .. N
  <1>. DEFINE T == (0 .. N) \ P
  <1>. SUFFICES ASSUME T # {} PROVE FALSE
    OBVIOUS
  <1>1. PICK n \in T : \A m \in T : n <= m
    <2>1. T \in SUBSET Nat
      OBVIOUS
    <2>. HIDE DEF T
    <2>. QED
      BY <2>1, LeastNumber
  <1>2. n - 1 \in 0 .. N - 1 /\ n - 1 \notin T /\ n - 1 + 1 = n
    <2>1. n # 0 /\ n \in 0 .. N
      OBVIOUS
    <2>2. n - 1 \in 0 .. N - 1 /\ n - 1 + 1 = n /\ ~(n <= n - 1)
      BY <2>1
    <2>. QED
      BY <1>1, <2>2
  <1>3. n - 1 \in P
    BY <1>2
  <1>. QED
    BY <1>2, <1>3

\* The function that starts with a and goes on as F says.
GoesOn(N, V, a, F, g) ==
  /\ g \in [0 .. N -> V] /\ g[0] = a
  /\ \A n \in 1 .. N : g[n] = F[<<g[n - 1], n>>]

\* There is one.
LEMMA StepByStep ==
  ASSUME NEW N \in Nat, NEW V, NEW a \in V, NEW F \in [V \X (1 .. N) -> V]
  PROVE  \E g : GoesOn(N, V, a, F, g)
  <1>. DEFINE Up(k, g) == /\ g \in [0 .. k -> V]
                          /\ g[0] = a
                          /\ \A n \in 1 .. k : g[n] = F[<<g[n - 1], n>>]
              P == {k \in 0 .. N : \E g : Up(k, g)}
  <1>1. 0 \in P
    <2>1. Up(0, [n \in 0 .. 0 |-> a])
      OBVIOUS
    <2>. HIDE DEF Up
    <2>. QED
      BY <2>1
  <1>2. ASSUME NEW k \in 0 .. N - 1, k \in P
        PROVE  k + 1 \in P
    <2>1. PICK g : Up(k, g)
      BY <1>2
    <2>. DEFINE h == [n \in 0 .. k + 1 |->
                        IF n <= k THEN g[n] ELSE F[<<g[k], k + 1>>]]
    <2>2. F[<<g[k], k + 1>>] \in V
      <3>1. g[k] \in V /\ k + 1 \in 1 .. N
        BY <2>1
      <3>. QED
        BY <3>1
    <2>3. h \in [0 .. k + 1 -> V]
      BY <2>1, <2>2
    <2>4. \A n \in 0 .. k : h[n] = g[n]
      BY <2>1
    <2>5. h[k + 1] = F[<<g[k], k + 1>>]
      OBVIOUS
    <2>. HIDE DEF h
    <2>6. h[0] = a
      BY <2>1, <2>4
    <2>7. ASSUME NEW n \in 1 .. k + 1
          PROVE  h[n] = F[<<h[n - 1], n>>]
      <3>1. CASE n = k + 1
        <4>1. n - 1 = k
          BY <3>1
        <4>. QED
          BY <2>4, <2>5, <3>1, <4>1
      <3>2. CASE n # k + 1
        <4>1. n \in 1 .. k /\ n - 1 \in 0 .. k /\ n \in 0 .. k
          BY <3>2
        <4>. QED
          BY <2>1, <2>4, <4>1
      <3>. QED
        BY <3>1, <3>2
    <2>8. Up(k + 1, h)
      BY <2>3, <2>6, <2>7
    <2>. HIDE DEF Up
    <2>9. k + 1 \in 0 .. N
      OBVIOUS
    <2>. QED
      BY <2>8, <2>9
  <1>3. P = 0 .. N
    <2>1. P \in SUBSET (0 .. N)
      OBVIOUS
    <2>2. 0 \in P /\ \A k \in 0 .. N - 1 : k \in P => k + 1 \in P
      BY <1>1, <1>2
    <2>. HIDE DEF P
    <2>. QED
      BY <2>1, <2>2, UpTo
  <1>4. N \in P
    <2>1. N \in 0 .. N
      OBVIOUS
    <2>. HIDE DEF P
    <2>. QED
      BY <1>3, <2>1
  <1>. QED
    BY <1>4 DEF GoesOn

\* Every block has a node.
LEMMA EstimateIsPositive ==
  ASSUME NEW b \in Block
  PROVE  EstimateBlockNodeCount(b) \in Nat /\ EstimateBlockNodeCount(b) >= 1
  <1>1. Len(b.text) \in Nat
    BY LenProperties DEF Block
  <1>. QED
    BY <1>1 DEF EstimateBlockNodeCount

\* The nodes of the blocks at the places up to each of them
Sums(bs, places, s) ==
  /\ s \in [0 .. Len(bs) -> Nat] /\ s[0] = 0
  /\ \A n \in 1 .. Len(bs) :
       s[n] = s[n - 1] + IF n \in places
                         THEN EstimateBlockNodeCount(bs[n]) ELSE 0
  /\ NodeCount(bs, places) = s[Len(bs)]

\* NodeCount is the last of a row of sums.
LEMMA NodeCountUnfolds ==
  ASSUME NEW bs \in Seq(Block), NEW places
  PROVE  \E s : Sums(bs, places, s)
  <1>. DEFINE N == Len(bs)
              W(n) == IF n \in places THEN EstimateBlockNodeCount(bs[n]) ELSE 0
              F == [p \in Nat \X (1 .. N) |-> p[1] + W(p[2])]
              h == CHOOSE s : s = [n \in 0 .. Len(bs) |->
                     IF n = 0 THEN 0
                     ELSE s[n - 1] + IF n \in places
                                     THEN EstimateBlockNodeCount(bs[n]) ELSE 0]
  <1>1. N \in Nat /\ \A n \in 1 .. N : W(n) \in Nat
    <2>1. N \in Nat /\ \A n \in 1 .. N : bs[n] \in Block
      BY LenProperties, ElementOfSeq
    <2>. QED
      BY <2>1, EstimateIsPositive
  <1>2. NodeCount(bs, places) = h[N]
    BY DEF NodeCount
  <1>. HIDE DEF W
  <1>3. F \in [Nat \X (1 .. N) -> Nat]
    BY <1>1
  <1>4. PICK g \in [0 .. N -> Nat] :
          g[0] = 0 /\ \A n \in 1 .. N : g[n] = F[<<g[n - 1], n>>]
    <2>1. \E g : GoesOn(N, Nat, 0, F, g)
      <3>. HIDE DEF F, N
      <3>. QED
        BY <1>1, <1>3, StepByStep
    <2>. QED
      BY <2>1 DEF GoesOn
  <1>5. g = [n \in 0 .. N |-> IF n = 0 THEN 0 ELSE g[n - 1] + W(n)]
    <2>1. ASSUME NEW n \in 1 .. N
          PROVE  g[n] = g[n - 1] + W(n)
      <3>1. g[n - 1] \in Nat
        BY <1>1
      <3>. QED
        BY <1>4, <3>1
    <2>. QED
      BY <1>1, <1>4, <2>1
  <1>6. h = [n \in 0 .. N |-> IF n = 0 THEN 0 ELSE h[n - 1] + W(n)]
    <2>1. h = CHOOSE s :
                s = [n \in 0 .. N |-> IF n = 0 THEN 0 ELSE s[n - 1] + W(n)]
      BY DEF W
    <2>. HIDE DEF h, N
    <2>. QED
      BY <1>5, <2>1
  <1>. HIDE DEF h, N
  <1>7. h[0] = 0 /\ \A n \in 1 .. N : h[n] = h[n - 1] + W(n)
    BY <1>1, <1>6
  <1>8. h \in [0 .. N -> Nat]
    <2>. DEFINE P == {n \in 0 .. N : h[n] \in Nat}
    <2>1. 0 \in P
      BY <1>1, <1>7
    <2>2. ASSUME NEW k \in 0 .. N - 1, k \in P PROVE k + 1 \in P
      <3>1. k + 1 \in 1 .. N /\ k + 1 - 1 = k
        BY <1>1
      <3>2. h[k + 1] = h[k] + W(k + 1)
        BY <1>7, <3>1
      <3>. QED
        BY <1>1, <2>2, <3>1, <3>2
    <2>3. P = 0 .. N
      <3>1. P \in SUBSET (0 .. N)
        OBVIOUS
      <3>. HIDE DEF P
      <3>. QED
        BY <1>1, <2>1, <2>2, <3>1, UpTo
    <2>4. \A n \in 0 .. N : h[n] \in Nat
      BY <2>3
    <2>. QED
      BY <1>6, <2>4
  <1>. QED
    <2>1. Sums(bs, places, h)
      BY <1>2, <1>7, <1>8 DEF Sums, W, N
    <2>. QED
      BY <2>1

\* Places in three disjoint parts: the nodes at two of them, and a node for
\* each place of the third, are among all the nodes.
LEMMA NodesAdd ==
  ASSUME NEW bs \in Seq(Block),
         NEW X \in SUBSET DOMAIN bs, NEW Y \in SUBSET DOMAIN bs,
         NEW Z \in SUBSET DOMAIN bs,
         X \cap Y = {}, X \cap Z = {}, Y \cap Z = {}
  PROVE  /\ NodeCount(bs, X) \in Nat /\ NodeCount(bs, Y) \in Nat
         /\ NodeCount(bs, DOMAIN bs) \in Nat
         /\ NodeCount(bs, X) + NodeCount(bs, Y) + Cardinality(Z)
              <= NodeCount(bs, DOMAIN bs)
  <1>. DEFINE N == Len(bs)
              E(n) == EstimateBlockNodeCount(bs[n])
  <1>1. N \in Nat /\ DOMAIN bs = 1 .. N
    BY LenProperties
  <1>2. \A n \in 1 .. N : E(n) \in Nat /\ E(n) >= 1
    BY <1>1, EstimateIsPositive, ElementOfSeq
  <1>3. PICK x : /\ x \in [0 .. N -> Nat] /\ x[0] = 0
                 /\ \A n \in 1 .. N :
                      x[n] = x[n - 1] + IF n \in X THEN E(n) ELSE 0
                 /\ NodeCount(bs, X) = x[N]
    <2>1. PICK s : Sums(bs, X, s)
      BY NodeCountUnfolds
    <2>. QED
      BY <2>1 DEF Sums
  <1>4. PICK y : /\ y \in [0 .. N -> Nat] /\ y[0] = 0
                 /\ \A n \in 1 .. N :
                      y[n] = y[n - 1] + IF n \in Y THEN E(n) ELSE 0
                 /\ NodeCount(bs, Y) = y[N]
    <2>1. PICK s : Sums(bs, Y, s)
      BY NodeCountUnfolds
    <2>. QED
      BY <2>1 DEF Sums
  <1>5. PICK d : /\ d \in [0 .. N -> Nat] /\ d[0] = 0
                 /\ \A n \in 1 .. N :
                      d[n] = d[n - 1] + IF n \in DOMAIN bs THEN E(n) ELSE 0
                 /\ NodeCount(bs, DOMAIN bs) = d[N]
    <2>1. PICK s : Sums(bs, DOMAIN bs, s)
      BY NodeCountUnfolds
    <2>. QED
      BY <2>1 DEF Sums
  <1>. HIDE DEF E, N
  <1>. DEFINE FirstOf(n) == Z \cap 1 .. n
  <1>6. ASSUME NEW n \in 0 .. N
        PROVE  IsFiniteSet(FirstOf(n)) /\ Cardinality(FirstOf(n)) \in Nat
    <2>1. IsFiniteSet(1 .. n)
      BY <1>1, FS_Interval
    <2>. QED
      BY <2>1, FS_Subset, FS_CardinalityType
  <1>7. ASSUME NEW n \in 1 .. N
        PROVE  Cardinality(FirstOf(n)) =
                 Cardinality(FirstOf(n - 1)) + IF n \in Z THEN 1 ELSE 0
    <2>1. n - 1 \in 0 .. N /\ n \notin FirstOf(n - 1)
      BY <1>1
    <2>2. CASE n \in Z
      <3>1. FirstOf(n) = FirstOf(n - 1) \cup {n}
        BY <1>1, <2>2
      <3>. HIDE DEF FirstOf
      <3>. QED
        BY <1>6, <2>1, <2>2, <3>1, FS_AddElement
    <2>3. CASE n \notin Z
      <3>1. FirstOf(n) = FirstOf(n - 1)
        BY <1>1, <2>3
      <3>2. Cardinality(FirstOf(n - 1)) \in Nat
        BY <1>6, <2>1
      <3>. HIDE DEF FirstOf
      <3>. QED
        BY <2>3, <3>1, <3>2
    <2>. QED
      BY <2>2, <2>3
  <1>. DEFINE c(n) == Cardinality(FirstOf(n))
              P == {n \in 0 .. N : x[n] + y[n] + c(n) <= d[n]}
  <1>8. 0 \in P
    <2>1. FirstOf(0) = {}
      BY <1>1
    <2>2. c(0) = 0
      BY <2>1, FS_EmptySet
    <2>. HIDE DEF c
    <2>. QED
      BY <1>1, <1>3, <1>4, <1>5, <2>2
  <1>9. ASSUME NEW k \in 0 .. N - 1, k \in P PROVE k + 1 \in P
    <2>. DEFINE n == k + 1
    <2>1. n \in 1 .. N /\ n - 1 = k /\ k \in 0 .. N /\ n \in 0 .. N
      BY <1>1
    <2>2. c(n) = c(k) + IF n \in Z THEN 1 ELSE 0
      BY <1>7, <2>1
    <2>3. c(k) \in Nat /\ c(n) \in Nat
      BY <1>6, <2>1
    <2>. HIDE DEF c, n
    <2>4. /\ x[n] = x[k] + IF n \in X THEN E(n) ELSE 0
          /\ y[n] = y[k] + IF n \in Y THEN E(n) ELSE 0
          /\ d[n] = d[k] + E(n)
      <3>1. n \in DOMAIN bs
        BY <1>1, <2>1
      <3>. QED
        BY <1>3, <1>4, <1>5, <2>1, <3>1
    <2>5. /\ x[k] \in Nat /\ y[k] \in Nat /\ d[k] \in Nat
          /\ E(n) \in Nat /\ E(n) >= 1
      BY <1>2, <1>3, <1>4, <1>5, <2>1
    <2>6. x[k] + y[k] + c(k) <= d[k]
      BY <1>9
    <2>7. x[n] + y[n] + c(n) <= d[n]
      <3>1. CASE n \in X
        BY <2>2, <2>3, <2>4, <2>5, <2>6, <3>1
      <3>2. CASE n \in Y
        BY <2>2, <2>3, <2>4, <2>5, <2>6, <3>2
      <3>3. CASE n \notin X /\ n \notin Y
        <4>1. x[n] = x[k] /\ y[n] = y[k] /\ d[n] = d[k] + E(n)
          BY <2>4, <2>5, <3>3
        <4>2. c(n) <= c(k) + 1
          BY <2>2, <2>3
        <4>. QED
          BY <2>3, <2>5, <2>6, <4>1, <4>2
      <3>. QED
        BY <3>1, <3>2, <3>3
    <2>. QED
      BY <2>1, <2>7 DEF n
  <1>10. N \in P
    <2>1. P \in SUBSET (0 .. N)
      OBVIOUS
    <2>. HIDE DEF P
    <2>2. P = 0 .. N
      BY <1>1, <1>8, <1>9, <2>1, UpTo
    <2>. QED
      BY <1>1, <2>2
  <1>11. FirstOf(N) = Z
    BY <1>1
  <1>12. x[N] \in Nat /\ y[N] \in Nat /\ d[N] \in Nat
    BY <1>1, <1>3, <1>4, <1>5
  <1>13. x[N] + y[N] + Cardinality(Z) <= d[N]
    BY <1>10, <1>11
  <1>. QED
    BY <1>3, <1>4, <1>5, <1>12, <1>13

\* r has the blocks of bs at the given places up to n, in their order.
Has(bs, places, n, r, at) ==
  /\ r \in Seq(Block) /\ at \in [1 .. Len(r) -> places \cap 1 .. n]
  /\ \A k \in 1 .. Len(r) : r[k] = bs[at[k]]
  /\ \A j, k \in 1 .. Len(r) : j < k => at[j] < at[k]
  /\ \A i \in places \cap 1 .. n : \E k \in 1 .. Len(r) : at[k] = i

LEMMA InOrderHas ==
  ASSUME NEW bs \in Seq(Block), NEW places \in SUBSET DOMAIN bs
  PROVE  \E at : Has(bs, places, Len(bs), InOrder(bs, places), at)
  <1>. DEFINE N == Len(bs)
              Step(r, n) == IF n \in places THEN Append(r, bs[n]) ELSE r
              F == [p \in Seq(Block) \X (1 .. N) |-> Step(p[1], p[2])]
              h == CHOOSE s : s = [n \in 0 .. Len(bs) |->
                     IF n = 0 THEN <<>>
                     ELSE IF n \in places THEN Append(s[n - 1], bs[n])
                     ELSE s[n - 1]]
  <1>1. N \in Nat /\ DOMAIN bs = 1 .. N /\ \A n \in 1 .. N : bs[n] \in Block
    BY LenProperties, ElementOfSeq
  <1>2. InOrder(bs, places) = h[N]
    BY DEF InOrder
  <1>3. \A r \in Seq(Block), n \in 1 .. N : Step(r, n) \in Seq(Block)
    BY <1>1, AppendProperties
  <1>4. \E g : GoesOn(N, Seq(Block), <<>>, F, g)
    <2>1. F \in [Seq(Block) \X (1 .. N) -> Seq(Block)]
      <3>. HIDE DEF Step
      <3>. QED
        BY <1>3
    <2>2. <<>> \in Seq(Block)
      OBVIOUS
    <2>. HIDE DEF F, N
    <2>. QED
      BY <1>1, <2>1, <2>2, StepByStep
  <1>5. PICK g \in [0 .. N -> Seq(Block)] :
          g[0] = <<>> /\ \A n \in 1 .. N : g[n] = F[<<g[n - 1], n>>]
    <2>. HIDE DEF F, N
    <2>. QED
      BY <1>4 DEF GoesOn
  <1>6. g = [n \in 0 .. N |-> IF n = 0 THEN <<>> ELSE Step(g[n - 1], n)]
    <2>1. ASSUME NEW n \in 1 .. N
          PROVE  g[n] = Step(g[n - 1], n)
      <3>1. g[n - 1] \in Seq(Block)
        BY <1>1
      <3>. HIDE DEF Step
      <3>. QED
        BY <1>5, <3>1
    <2>. HIDE DEF Step
    <2>. QED
      BY <1>1, <1>5, <2>1
  <1>7. h = [n \in 0 .. N |-> IF n = 0 THEN <<>> ELSE Step(h[n - 1], n)]
    <2>1. h = CHOOSE s :
                s = [n \in 0 .. N |->
                       IF n = 0 THEN <<>> ELSE Step(s[n - 1], n)]
      OBVIOUS
    <2>. HIDE DEF h, N, Step
    <2>. QED
      BY <1>6, <2>1
  <1>. HIDE DEF h, N
  <1>8. h[0] = <<>> /\ \A n \in 1 .. N : h[n] = Step(h[n - 1], n)
    <2>. HIDE DEF Step
    <2>. QED
      BY <1>1, <1>7
  <1>. DEFINE P == {n \in 0 .. N : \E at : Has(bs, places, n, h[n], at)}
  <1>9. 0 \in P
    <2>1. Has(bs, places, 0, <<>>, <<>>)
      BY DEF Has
    <2>. QED
      BY <1>1, <1>8, <2>1
  <1>10. ASSUME NEW k \in 0 .. N - 1, k \in P PROVE k + 1 \in P
    <2>. DEFINE n == k + 1
                r == h[k]
                new == Append(r, bs[n])
    <2>1. n \in 1 .. N /\ n - 1 = k /\ n \in 0 .. N
      BY <1>1
    <2>2. PICK at : Has(bs, places, k, r, at)
      BY <1>10
    <2>3. h[n] = Step(r, n)
      BY <1>8, <2>1
    <2>. HIDE DEF n, r
    <2>4. CASE n \notin places
      <3>1. places \cap 1 .. n = places \cap 1 .. k
        BY <1>1, <2>1, <2>4
      <3>2. Has(bs, places, n, r, at)
        BY <2>2, <3>1 DEF Has
      <3>3. h[n] = r
        BY <2>3, <2>4
      <3>4. \E a : Has(bs, places, n, h[n], a)
        BY <3>2, <3>3
      <3>. QED
        BY <2>1, <3>4 DEF n
    <2>5. CASE n \in places
      <3>. DEFINE L == Len(r)
                  a2 == [j \in 1 .. L + 1 |-> IF j <= L THEN at[j] ELSE n]
      <3>1. /\ r \in Seq(Block) /\ L \in Nat /\ bs[n] \in Block
            /\ at \in [1 .. L -> places \cap 1 .. k]
            /\ \A j \in 1 .. L : r[j] = bs[at[j]]
            /\ \A i, j \in 1 .. L : i < j => at[i] < at[j]
            /\ \A i \in places \cap 1 .. k : \E j \in 1 .. L : at[j] = i
        BY <1>1, <2>1, <2>2, LenProperties DEF Has
      <3>2. /\ new \in Seq(Block) /\ Len(new) = L + 1
            /\ \A j \in 1 .. L : new[j] = r[j]
            /\ new[L + 1] = bs[n]
        BY <3>1, AppendProperties
      <3>. HIDE DEF L, new
      <3>3. places \cap 1 .. n = (places \cap 1 .. k) \cup {n}
        BY <1>1, <2>1, <2>5
      <3>4. (\A j \in 1 .. L : a2[j] = at[j]) /\ a2[L + 1] = n
        BY <3>1
      <3>5. a2 \in [1 .. L + 1 -> places \cap 1 .. n]
        BY <3>1, <3>3
      <3>. HIDE DEF a2
      <3>6. \A j \in 1 .. L + 1 : j \in 1 .. L \/ j = L + 1
        BY <3>1
      <3>7. \A j \in 1 .. L + 1 : new[j] = bs[a2[j]]
        BY <3>1, <3>2, <3>4, <3>6
      <3>8. ASSUME NEW i \in 1 .. L + 1, NEW j \in 1 .. L + 1, i < j
            PROVE  a2[i] < a2[j]
        <4>1. i \in 1 .. L
          BY <3>1, <3>8
        <4>2. CASE j \in 1 .. L
          BY <3>1, <3>4, <3>8, <4>1, <4>2
        <4>3. CASE j = L + 1
          <5>1. at[i] \in 1 .. k /\ k < n
            BY <1>1, <2>1, <3>1, <4>1
          <5>. QED
            BY <1>1, <2>1, <3>4, <4>1, <4>3, <5>1
        <4>. QED
          BY <3>6, <4>2, <4>3
      <3>9. ASSUME NEW i \in places \cap 1 .. n
            PROVE  \E j \in 1 .. L + 1 : a2[j] = i
        <4>1. CASE i = n
          BY <3>1, <3>4, <4>1
        <4>2. CASE i \in places \cap 1 .. k
          <5>1. PICK j \in 1 .. L : at[j] = i
            BY <3>1, <4>2
          <5>2. j \in 1 .. L + 1 /\ a2[j] = i
            BY <3>1, <3>4, <5>1
          <5>. QED
            BY <5>2
        <4>. QED
          BY <3>3, <4>1, <4>2
      <3>10. Has(bs, places, n, new, a2)
        BY <3>2, <3>5, <3>7, <3>8, <3>9 DEF Has
      <3>11. h[n] = new
        BY <2>3, <2>5 DEF new
      <3>12. \E a : Has(bs, places, n, h[n], a)
        BY <3>10, <3>11
      <3>. QED
        BY <2>1, <3>12 DEF n
    <2>. QED
      BY <2>4, <2>5
  <1>11. N \in P
    <2>1. P \in SUBSET (0 .. N)
      OBVIOUS
    <2>. HIDE DEF P
    <2>2. P = 0 .. N
      BY <1>1, <1>9, <1>10, <2>1, UpTo
    <2>. QED
      BY <1>1, <2>2
  <1>. QED
    BY <1>2, <1>11 DEF N

-----------------------------------------------------------------------------
(* The inductive invariant of the Markdown demo.                           *)

\* The inductive invariant
MdIInv ==
  /\ MdTypeOK /\ Parsed /\ PhaseOK
  /\ LatestIsParse /\ LatestTail
  /\ MountOK /\ PrecededAll /\ Saved /\ PaneDone

\* The fields of a block
LEMMA BlockTypes ==
  ASSUME NEW b \in Block
  PROVE  b.start \in Nat /\ b.end \in Nat /\ b.complete \in BOOLEAN
  BY DEF Block

\* The types of the blocks of the three sequences
LEMMA BlocksOK ==
  ASSUME MdTypeOK
  PROVE  /\ Len(blocks) \in Nat /\ DOMAIN blocks = 1 .. Len(blocks)
         /\ \A i \in 1 .. Len(blocks) : blocks[i] \in Block
         /\ BlocksOf(blocks) \in SUBSET Block
         /\ Len(mount) \in Nat /\ DOMAIN mount = 1 .. Len(mount)
         /\ \A i \in 1 .. Len(mount) : mount[i] \in Block
         /\ BlocksOf(mount) \in SUBSET Block
         /\ BlocksOf(latest.blocks) \in SUBSET Block
         /\ Len(latest.blocks) \in Nat
         /\ DOMAIN latest.blocks = 1 .. Len(latest.blocks)
  BY LenProperties, ElementOfSeq DEF MdTypeOK, BlocksOf

\* Of two blocks of the parse the first is complete.
LEMMA OnlyTheLastIsOpen ==
  ASSUME MdTypeOK, Parsed, phase # "waiting",
         NEW i \in DOMAIN blocks, NEW j \in DOMAIN blocks, i < j
  PROVE  blocks[i].complete
  <1>. DEFINE b == blocks[i]
              c == blocks[j]
  <1>1. b \in Block /\ c \in Block /\ IsBlock(lines, b) /\ IsBlock(lines, c)
        /\ b.end < c.start
    BY BlocksOK DEF Parsed
  <1>. HIDE DEF b, c
  <1>2. c.start \in 1 .. Len(lines) /\ lines[c.start].kind # "blank"
    BY <1>1, BlockFacts DEF MdTypeOK
  <1>3. Len(lines) \in Nat /\ b.end \in Nat
    BY <1>1, LinesOK DEF Block
  <1>4. b.end < Len(lines)
        /\ (lines[b.end + 1].kind # "blank" \/ b.end + 1 < Len(lines))
    <2>1. CASE c.start = b.end + 1
      BY <1>2, <1>3, <2>1
    <2>2. CASE c.start # b.end + 1
      BY <1>1, <1>2, <1>3, <2>2
    <2>. QED
      BY <2>1, <2>2
  <1>5. b.complete
    BY <1>1, <1>4, SeenEndIsComplete DEF MdTypeOK
  <1>. QED
    BY <1>5 DEF b

\* At the end of the text the blocks are its parse.
LEMMA ParseOfTheText ==
  ASSUME MdTypeOK, Parsed, phase # "waiting", index > Len(lines)
  PROVE  /\ IsParse(lines, BlocksOf(blocks), Len(lines) + 1)
         /\ \A i \in DOMAIN blocks :
              IsParse(lines, {blocks[k] : k \in 1 .. i - 1}, blocks[i].start)
  <1>1. /\ Len(lines) \in Nat /\ Len(blocks) \in Nat
        /\ DOMAIN blocks = 1 .. Len(blocks)
    BY LinesOK, BlocksOK
  <1>2. index = Len(lines) + 1
    BY <1>1 DEF Parsed
  <1>3. ASSUME NEW i \in DOMAIN blocks
        PROVE  /\ blocks[i].start \in 1 .. Len(lines) /\ blocks[i].end \in Nat
               /\ IsBlock(lines, blocks[i])
               /\ blocks[i].start <= blocks[i].end
               /\ blocks[i].end < Len(lines) + 1
    <2>1. /\ IsBlock(lines, blocks[i]) /\ blocks[i].end < index
          /\ blocks[i].end < blocks[i].start => blocks[i].start = index
      BY DEF Parsed
    <2>2. blocks[i].start \in 1 .. Len(lines) /\ blocks[i].end \in Nat
      BY <1>1, <2>1, BlocksOK, BlockTypes DEF IsBlock
    <2>. QED
      BY <1>1, <1>2, <2>1, <2>2
  <1>4. \A i, j \in DOMAIN blocks : i < j => blocks[i].end < blocks[j].start
    BY DEF Parsed
  <1>5. ASSUME NEW k \in 1 .. Len(lines), lines[k].kind # "blank"
        PROVE  \E i \in DOMAIN blocks :
                 blocks[i].start <= k /\ k <= blocks[i].end
    <2>1. k \in 1 .. index - 1
      BY <1>1, <1>2
    <2>2. \E b \in BlocksOf(blocks) : b.start <= k /\ k <= b.end
      BY <1>5, <2>1 DEF Parsed
    <2>. QED
      BY <2>2 DEF BlocksOf
  <1>6. IsParse(lines, BlocksOf(blocks), Len(lines) + 1)
    <2>1. \A b \in BlocksOf(blocks) :
            IsBlock(lines, b) /\ b.start <= b.end /\ b.end < Len(lines) + 1
      BY <1>3 DEF BlocksOf
    <2>2. ASSUME NEW b \in BlocksOf(blocks), NEW c \in BlocksOf(blocks)
          PROVE  b = c \/ b.end < c.start \/ c.end < b.start
      <3>1. PICK i \in DOMAIN blocks, j \in DOMAIN blocks :
              b = blocks[i] /\ c = blocks[j]
        BY DEF BlocksOf
      <3>2. i = j \/ i < j \/ j < i
        BY <1>1
      <3>. QED
        BY <1>4, <3>1, <3>2
    <2>3. ASSUME NEW k \in 1 .. Len(lines) + 1 - 1
          PROVE  \/ lines[k].kind = "blank"
                 \/ \E b \in BlocksOf(blocks) : b.start <= k /\ k <= b.end
      BY <1>1, <1>5 DEF BlocksOf
    <2>. QED
      BY <2>1, <2>2, <2>3 DEF IsParse
  <1>7. ASSUME NEW i \in DOMAIN blocks
        PROVE  IsParse(lines, {blocks[k] : k \in 1 .. i - 1}, blocks[i].start)
    <2>. DEFINE B == {blocks[k] : k \in 1 .. i - 1}
    <2>1. \A k \in 1 .. i - 1 : k \in DOMAIN blocks /\ k < i
      BY <1>1
    <2>2. \A b \in B : /\ b \in BlocksOf(blocks) /\ IsBlock(lines, b)
                       /\ b.start <= b.end /\ b.end < blocks[i].start
      BY <1>3, <1>4, <2>1 DEF BlocksOf
    <2>3. \A b, c \in B : b = c \/ b.end < c.start \/ c.end < b.start
      BY <1>6, <2>2 DEF IsParse
    <2>4. ASSUME NEW k \in 1 .. blocks[i].start - 1, lines[k].kind # "blank"
          PROVE  \E b \in B : b.start <= k /\ k <= b.end
      <3>1. k \in 1 .. Len(lines) /\ k < blocks[i].start
        BY <1>1, <1>3
      <3>2. PICK j \in DOMAIN blocks :
              blocks[j].start <= k /\ k <= blocks[j].end
        BY <1>5, <2>4, <3>1
      <3>3. /\ blocks[j].start \in Nat /\ blocks[j].end \in Nat
            /\ blocks[i].start \in Nat /\ blocks[i].end \in Nat
            /\ blocks[i].start <= blocks[i].end
        BY <1>1, <1>3
      <3>4. ~(i < j) /\ i # j
        <4>1. i < j => blocks[i].end < blocks[j].start
          BY <1>4
        <4>. QED
          BY <3>1, <3>2, <3>3, <4>1
      <3>5. j \in 1 .. i - 1
        BY <1>1, <3>4
      <3>. QED
        BY <3>2, <3>5
    <2>. HIDE DEF B
    <2>5. IsParse(lines, B, blocks[i].start)
      BY <2>2, <2>3, <2>4 DEF IsParse
    <2>. QED
      BY <2>5 DEF B
  <1>. QED
    BY <1>6, <1>7

\* A piece makes the last line larger or adds a line.
LEMMA ArriveLines ==
  ASSUME MdTypeOK, Arrive
  PROVE  /\ lines' \in Seq(Line) /\ Len(lines') \in Nat
         /\ Len(lines) <= Len(lines') /\ Len(lines') <= Len(lines) + 1
         /\ \A k \in 1 .. Len(lines) - 1 : lines'[k] = lines[k]
         /\ \/ lines'[Len(lines)] = lines[Len(lines)]
            \/ lines'[Len(lines)].size = lines[Len(lines)].size + 1
         /\ pieces' = pieces + 1 /\ pieces' \in 0 .. MaxPieces
         /\ UNCHANGED <<phase, final, index, blocks, runVars>>
  <1>. DEFINE n == Len(lines)
  <1>1. n \in Nat /\ n \in 1 .. n /\ lines[n] \in Line /\ lines \in Seq(Line)
    BY LinesOK DEF MdTypeOK
  <1>2. pieces' = pieces + 1 /\ pieces' \in 0 .. MaxPieces
        /\ UNCHANGED <<phase, final, index, blocks, runVars>>
    BY MarkdownAssumption DEF Arrive, MdTypeOK
  <1>3. ASSUME NEW kind \in Grows(lines[n].kind) \intersect LineKinds,
               lines' = [lines EXCEPT ![n] =
                           [kind |-> kind, size |-> lines[n].size + 1]]
        PROVE  /\ lines' \in Seq(Line) /\ Len(lines') = n
               /\ \A k \in 1 .. n - 1 : lines'[k] = lines[k]
               /\ lines'[n].size = lines[n].size + 1
    <2>. DEFINE x == [kind |-> kind, size |-> lines[n].size + 1]
    <2>1. x \in Line /\ x.size = lines[n].size + 1
      BY <1>1 DEF Line
    <2>. HIDE DEF x
    <2>2. lines' = [lines EXCEPT ![n] = x]
      BY <1>3 DEF x
    <2>. HIDE DEF n
    <2>3. lines' \in Seq(Line) /\ Len(lines') = Len(lines)
      BY <1>1, <2>1, <2>2, ExceptSeq DEF n
    <2>4. lines'[n] = x /\ \A k \in 1 .. n - 1 : lines'[k] = lines[k]
      BY <1>1, <2>2, LenProperties DEF n
    <2>. QED
      BY <2>1, <2>3, <2>4 DEF n
  <1>4. ASSUME lines' = Append(lines, [kind |-> "blank", size |-> 0])
        PROVE  /\ lines' \in Seq(Line) /\ Len(lines') = n + 1
               /\ \A k \in 1 .. n : lines'[k] = lines[k]
    <2>1. [kind |-> "blank", size |-> 0] \in Line
      BY DEF Line
    <2>. QED
      BY <1>1, <1>4, <2>1, AppendProperties
  <1>. QED
    BY <1>1, <1>2, <1>3, <1>4 DEF Arrive

\* More text: the blocks of the pane whose first line is what it was had
\* the same text before them.
LEMMA ArriveInductive ==
  ASSUME MdIInv, Arrive
  PROVE  MdIInv'
  <1>. USE DEF MdIInv
  <1>. DEFINE n == Len(lines)
  <1>0. phase = "waiting" /\ n \in Nat /\ n >= 1
    BY LinesOK DEF Arrive, MdTypeOK
  <1>1. MdTypeOK'
    <2>1. Len(lines') \in 1 .. pieces' + 1
      BY <1>0, ArriveLines DEF MdTypeOK
    <2>2. latest'.lines \in 0 .. Len(lines')
      BY <1>0, ArriveLines DEF MdTypeOK, runVars
    <2>. QED
      BY <2>1, <2>2, ArriveLines DEF MdTypeOK, MetricsOK, runVars
  <1>2. Parsed' /\ PhaseOK' /\ PaneDone'
    BY <1>0, ArriveLines DEF Parsed, PhaseOK, PaneDone
  <1>3. LatestTail' /\ Saved'
    BY ArriveLines DEF LatestTail, Saved, runVars
  <1>4. LatestIsParse'
    <2>1. PICK old \in Seq(Line) :
            /\ Len(old) = latest.lines
            /\ \A k \in 1 .. latest.lines - 1 : old[k] = lines[k]
            /\ IsParse(old, BlocksOf(latest.blocks), latest.lines + 1)
      BY DEF LatestIsParse
    <2>2. latest' = latest
      BY ArriveLines DEF runVars
    <2>3. \A k \in 1 .. latest.lines - 1 : old[k] = lines'[k]
      <3>1. latest.lines \in 0 .. n
        BY DEF MdTypeOK
      <3>2. \A k \in 1 .. latest.lines - 1 : k \in 1 .. n - 1
        BY <1>0, <3>1
      <3>. QED
        BY <2>1, <3>2, ArriveLines
    <2>4. IsParse(old, BlocksOf(latest'.blocks), latest'.lines + 1)
      BY <2>1, <2>2
    <2>. QED
      BY <2>1, <2>2, <2>3, <2>4 DEF LatestIsParse
  <1>5. \A j \in DOMAIN mount :
          /\ mount[j].complete
          /\ mount[j].start \in 1 .. n /\ mount[j].start \in 1 .. Len(lines')
          /\ mount[j].text # <<>>
          /\ mount[j].text[1].size <= lines[mount[j].start].size
          /\ mount[j].text[1] \in Line
    <2>1. ASSUME NEW j \in DOMAIN mount
          PROVE  mount[j].text[1] \in Line
      <3>1. mount[j].text \in Seq(Line) /\ mount[j].text # <<>>
        BY BlocksOK DEF Block, MountOK
      <3>. QED
        BY <3>1, ElementOfSeq, EmptySeq, LenProperties
    <2>. QED
      BY <1>0, <2>1, ArriveLines DEF MountOK
  <1>6. ASSUME NEW k \in 1 .. n
        PROVE  /\ lines[k].size \in Nat
               /\ \/ lines'[k] = lines[k]
                  \/ lines'[k].size = lines[k].size + 1 /\ k = n
    <2>1. lines[k] \in Line
      BY LinesOK
    <2>2. k = n \/ k \in 1 .. n - 1
      BY <1>0
    <2>. QED
      BY <1>0, <2>1, <2>2, ArriveLines DEF Line
  <1>7. MountOK'
    <2>1. ASSUME NEW j \in DOMAIN mount
          PROVE  mount[j].text[1].size <= lines'[mount[j].start].size
      <3>. DEFINE s == mount[j].start
                  z == mount[j].text[1].size
      <3>1. s \in 1 .. n /\ z <= lines[s].size /\ z \in Nat
        BY <1>5 DEF Line
      <3>2. lines[s].size \in Nat
            /\ (lines'[s] = lines[s] \/ lines'[s].size = lines[s].size + 1)
        BY <1>6, <3>1
      <3>. HIDE DEF s, z
      <3>3. z <= lines'[s].size
        BY <3>1, <3>2
      <3>. QED
        BY <3>3 DEF s, z
    <2>2. UNCHANGED <<mount, keys, seen>>
      BY ArriveLines DEF runVars
    <2>. QED
      BY <1>5, <2>1, <2>2 DEF MountOK, BlocksOf
  <1>8. PrecededAll'
    <2>1. UNCHANGED mount
      BY ArriveLines DEF runVars
    <2>2. ASSUME NEW j \in DOMAIN mount,
                 lines'[mount[j].start] = mount[j].text[1]
          PROVE  \E B \in SUBSET Block :
                   /\ IsParse(lines', B, mount[j].start)
                   /\ \A b \in B : b.complete /\ Key(b) \in KeysBefore(j)
      <3>. DEFINE s == mount[j].start
                  first == mount[j].text[1]
      <3>1. /\ s \in 1 .. n /\ first.size <= lines[s].size
            /\ first.size \in Nat /\ lines'[s] = first
        BY <1>5, <2>2 DEF Line
      <3>2. /\ lines[s].size \in Nat
            /\ \/ lines'[s] = lines[s]
               \/ lines'[s].size = lines[s].size + 1
        BY <1>6, <3>1
      <3>. HIDE DEF s, first
      <3>3. lines'[s] = lines[s]
        BY <3>1, <3>2
      <3>4. lines[s] = first
        BY <3>1, <3>3
      <3>5. PICK B \in SUBSET Block : Preceded(j, B)
        BY <3>4 DEF PrecededAll, s, first
      <3>6. IsParse(lines, B, s)
            /\ \A b \in B : b.complete /\ Key(b) \in KeysBefore(j)
        BY <3>5 DEF Preceded, s
      <3>7. \A k \in 1 .. s : lines[k] = lines'[k]
        <4>1. \A k \in 1 .. s : k = s \/ k \in 1 .. n - 1
          BY <1>0, <3>1
        <4>. QED
          BY <3>3, <4>1, ArriveLines
      <3>8. Agree(lines, lines', s) /\ s \in Nat
            /\ lines \in Seq(Line) /\ lines' \in Seq(Line)
        BY <1>0, <3>1, <3>7, ArriveLines DEF Agree, MdTypeOK
      <3>9. ASSUME NEW b \in B PROVE IsBlock(lines', b)
        <4>1. /\ b \in Block /\ IsBlock(lines, b) /\ b.start <= b.end
              /\ b.end + 1 <= s /\ b.complete
          <5>1. b.end < s /\ b.end \in Nat
            BY <3>6, BlockTypes DEF IsParse
          <5>. QED
            BY <3>6, <3>8, <5>1 DEF IsParse
        <4>. QED
          BY <3>8, <4>1, BlockIsLocal
      <3>10. \A k \in 1 .. s - 1 : k \in 1 .. s
        BY <3>8
      <3>11. IsParse(lines', B, s)
        BY <3>6, <3>7, <3>9, <3>10 DEF IsParse
      <3>. QED
        BY <3>6, <3>11 DEF s
    <2>. QED
      BY <2>1, <2>2 DEF PrecededAll, Preceded, KeysBefore
  <1>. QED
    BY <1>1, <1>2, <1>3, <1>4, <1>7, <1>8

\* The empty text has no blocks, and the pane none.
LEMMA MarkdownStarts == MarkdownInit => MdIInv
  <1>. SUFFICES ASSUME MarkdownInit PROVE MdIInv
    OBVIOUS
  <1>. DEFINE x == [kind |-> "blank", size |-> 0]
  <1>1. x \in Line
    BY DEF Line
  <1>2. lines = <<x>>
    BY DEF MarkdownInit
  <1>. HIDE DEF x
  <1>3. lines \in Seq(Line) /\ Len(lines) = 1
    BY <1>1, <1>2
  <1>4. <<>> \in Seq(Block) /\ <<>> \in Seq(Line) /\ DOMAIN <<>> = {}
        /\ Len(<<>>) = 0
    OBVIOUS
  <1>5. MetricsOK(NoMetrics) /\ IsFiniteSet({})
    BY FS_EmptySet DEF MetricsOK, NoMetrics
  <1>6. MdTypeOK
    <2>1. pieces = 0 /\ pieces \in 0 .. MaxPieces
          /\ Len(lines) \in 1 .. pieces + 1
      BY <1>3, MarkdownAssumption DEF MarkdownInit
    <2>2. latest.blocks = <<>> /\ latest.lines = 0
          /\ latest.lines \in 0 .. Len(lines)
      BY <1>3 DEF MarkdownInit
    <2>3. /\ phase = "waiting" /\ final = FALSE /\ index = 1
          /\ blocks = <<>> /\ mount = <<>> /\ keys = {}
          /\ naive = NoMetrics /\ stable = NoMetrics
      BY DEF MarkdownInit
    <2>. QED
      BY <1>3, <1>4, <1>5, <2>1, <2>2, <2>3 DEF MdTypeOK
  <1>7. Parsed /\ PhaseOK /\ PaneDone
    BY DEF MarkdownInit, Parsed, PhaseOK, PaneDone
  <1>8. LatestIsParse
    <2>1. BlocksOf(<<>>) = {}
      BY <1>4 DEF BlocksOf
    <2>2. IsParse(<<>>, {}, 1)
      BY DEF IsParse
    <2>3. latest.blocks = <<>> /\ latest.lines = 0
      BY DEF MarkdownInit
    <2>4. 0 + 1 = 1 /\ 1 .. 0 - 1 = {}
      OBVIOUS
    <2>5. \A k \in 1 .. latest.lines - 1 : <<>>[k] = lines[k]
      BY <2>3, <2>4
    <2>6. IsParse(<<>>, BlocksOf(latest.blocks), latest.lines + 1)
      BY <2>1, <2>2, <2>3, <2>4
    <2>. QED
      BY <1>4, <2>3, <2>5, <2>6 DEF LatestIsParse
  <1>9. LatestTail
    BY <1>4 DEF LatestTail, MarkdownInit
  <1>10. MountOK /\ PrecededAll
    BY <1>4 DEF MountOK, PrecededAll, MarkdownInit, BlocksOf
  <1>11. Saved
    BY FS_EmptySet DEF Saved, MarkdownInit, NoMetrics
  <1>. QED
    BY <1>6, <1>7, <1>8, <1>9, <1>10, <1>11 DEF MdIInv

\* What only the parser changes leaves the two runs as they are.
LEMMA SameRuns ==
  ASSUME MdIInv, UNCHANGED <<lines, pieces, runVars>>,
         phase' \in {"waiting", "parsing", "complete", "dead"},
         final' \in BOOLEAN, index' \in Nat, blocks' \in Seq(Block)
  PROVE  /\ MdTypeOK' /\ LatestIsParse' /\ LatestTail' /\ MountOK'
         /\ PrecededAll' /\ Saved'
  <1>1. MdTypeOK'
    BY DEF MdIInv, MdTypeOK, MetricsOK, runVars
  <1>2. LatestIsParse' /\ LatestTail' /\ Saved'
    BY DEF MdIInv, LatestIsParse, LatestTail, Saved, runVars
  <1>3. UNCHANGED <<lines, mount, keys, seen>>
    BY DEF runVars
  <1>4. MountOK'
    BY <1>3 DEF MdIInv, MountOK, BlocksOf
  <1>5. PrecededAll'
    BY <1>3 DEF MdIInv, PrecededAll, Preceded, KeysBefore
  <1>. QED
    BY <1>1, <1>2, <1>4, <1>5

\* The parser starts over.
LEMMA ApplyInductive ==
  ASSUME MdIInv, ApplyChunk
  PROVE  MdIInv'
  <1>1. /\ UNCHANGED <<lines, pieces, runVars>> /\ phase' = "parsing"
        /\ final' \in BOOLEAN /\ index' = 1 /\ blocks' = <<>>
        /\ blocks' \in Seq(Block)
    BY DEF ApplyChunk
  <1>2. Parsed'
    BY <1>1, LinesOK DEF MdIInv, Parsed, MdTypeOK
  <1>3. PhaseOK' /\ PaneDone'
    BY <1>1 DEF PhaseOK, PaneDone
  <1>. QED
    BY <1>1, <1>2, <1>3, SameRuns DEF MdIInv

\* The parser skips a blank line.
LEMMA SkipInductive ==
  ASSUME MdIInv, SkipBlank
  PROVE  MdIInv'
  <1>1. /\ UNCHANGED <<lines, pieces, runVars>> /\ phase = "parsing"
        /\ phase' = "parsing" /\ final' = final /\ index' = index + 1
        /\ blocks' = blocks /\ lines[index].kind = "blank"
        /\ index <= Len(lines) /\ index \in 1 .. Len(lines) + 1
        /\ Len(lines) \in Nat /\ Len(blocks) \in Nat
        /\ MdTypeOK
    BY LinesOK, BlocksOK DEF SkipBlank, AtLine, MdIInv, Parsed
  <1>2. ASSUME NEW i \in DOMAIN blocks
        PROVE  /\ IsBlock(lines, blocks[i]) /\ blocks[i].end < index + 1
               /\ final => blocks[i].complete
               /\ ~(blocks[i].end < blocks[i].start)
    <2>1. /\ IsBlock(lines, blocks[i]) /\ blocks[i].end < index
          /\ final => blocks[i].complete
          /\ blocks[i].end < blocks[i].start => blocks[i].start = index
      BY <1>1 DEF MdIInv, Parsed
    <2>2. blocks[i] \in Block /\ blocks[i].end \in Nat
      BY <1>1, BlocksOK, BlockTypes
    <2>3. blocks[i].start # index
      BY <1>1, <2>1, <2>2, BlockFacts, LinesOK
    <2>. QED
      BY <1>1, <2>1, <2>2, <2>3
  <1>3. \A k \in 1 .. index : \/ lines[k].kind = "blank"
                              \/ \E b \in BlocksOf(blocks) :
                                   b.start <= k /\ k <= b.end
    <2>1. \A k \in 1 .. index : k = index \/ k \in 1 .. index - 1
      BY <1>1
    <2>. QED
      BY <1>1, <2>1 DEF MdIInv, Parsed
  <1>4. Len(blocks) < index
    <2>1. ASSUME NEW b \in BlocksOf(blocks) PROVE ~(b.end < b.start)
      BY <1>2 DEF BlocksOf
    <2>. QED
      BY <1>1, <2>1 DEF MdIInv, Parsed
  <1>5. /\ index + 1 \in 1 .. Len(lines) + 1 /\ index + 1 - 1 = index
        /\ Len(blocks) < index + 1
    BY <1>1, <1>4
  <1>6. \A i, j \in DOMAIN blocks : i < j => blocks[i].end < blocks[j].start
    BY <1>1 DEF MdIInv, Parsed
  <1>7. Parsed'
    BY <1>1, <1>2, <1>3, <1>5, <1>6 DEF Parsed
  <1>8. PhaseOK' /\ PaneDone'
    BY <1>1 DEF PhaseOK, PaneDone
  <1>9. phase' \in {"waiting", "parsing", "complete", "dead"}
        /\ final' \in BOOLEAN /\ index' \in Nat /\ blocks' \in Seq(Block)
    BY <1>1 DEF MdTypeOK
  <1>. QED
    BY <1>1, <1>7, <1>8, <1>9, SameRuns DEF MdIInv

\* The heap is full.
LEMMA ExhaustInductive ==
  ASSUME MdIInv, ExhaustHeap
  PROVE  MdIInv'
  <1>1. /\ UNCHANGED <<lines, pieces, runVars, final, index, blocks>>
        /\ phase = "parsing" /\ phase' = "dead"
        /\ index <= Len(lines) /\ Len(blocks) = HeapBlocks
    BY DEF ExhaustHeap
  <1>2. Parsed' /\ PhaseOK' /\ PaneDone'
    BY <1>1 DEF MdIInv, Parsed, PhaseOK, PaneDone
  <1>3. phase' \in {"waiting", "parsing", "complete", "dead"}
        /\ final' \in BOOLEAN /\ index' \in Nat /\ blocks' \in Seq(Block)
    BY <1>1 DEF MdIInv, MdTypeOK
  <1>. QED
    BY <1>1, <1>2, <1>3, SameRuns DEF MdIInv

\* The parser takes a block: an empty one where it took one before
LEMMA TakesInductive ==
  ASSUME MdIInv, phase = "parsing", index <= Len(lines), NEW b, Takes(b)
  PROVE  MdIInv'
  <1>. DEFINE n == Len(blocks)
  <1>1. /\ UNCHANGED <<lines, pieces, runVars, phase, final>>
        /\ b \in Block /\ IsBlock(lines, b) /\ b.start = index
        /\ final => b.complete
        /\ index' = b.end + 1
        /\ index \in 1 .. Len(lines) + 1
        /\ Len(lines) \in Nat /\ n \in Nat /\ DOMAIN blocks = 1 .. n
        /\ MdTypeOK /\ lines \in Seq(Line)
    BY LinesOK, BlocksOK DEF Takes, MdIInv, Parsed
  <1>2. /\ b.end \in Nat /\ b.end \in index - 1 .. Len(lines)
        /\ b.end + 1 \in 1 .. Len(lines) + 1
    <2>1. b.end \in b.start - 1 .. Len(lines) /\ b.end \in Nat
      BY <1>1, BlockFacts, BlockTypes
    <2>. QED
      BY <1>1, <2>1
  <1>3. /\ blocks' \in Seq(Block) /\ Len(blocks') = n + 1
        /\ DOMAIN blocks' = 1 .. n + 1
        /\ blocks'[n + 1] = b
        /\ \A i \in 1 .. n : blocks'[i] = blocks[i]
    BY <1>1, AppendProperties DEF Takes, MdTypeOK
  <1>4. ASSUME NEW i \in 1 .. n
        PROVE  /\ IsBlock(lines, blocks[i])
               /\ blocks[i].end < index /\ blocks[i].end < b.end + 1
               /\ final => blocks[i].complete
               /\ (blocks[i].end < blocks[i].start =>
                     blocks[i].start = b.end + 1)
    <2>. DEFINE c == blocks[i]
    <2>1. /\ IsBlock(lines, c) /\ c.end < index
          /\ final => c.complete
          /\ c.end < c.start => c.start = index
      BY <1>1 DEF MdIInv, Parsed
    <2>2. c \in Block /\ c.end \in Nat
      BY <1>1, BlocksOK, BlockTypes
    <2>. HIDE DEF c
    <2>3. c.end < b.end + 1
      BY <1>1, <1>2, <2>1, <2>2
    <2>4. ASSUME c.end < c.start PROVE c.start = b.end + 1
      <3>1. c.start = index /\ c.start = b.start
        BY <1>1, <2>1, <2>4
      <3>2. c.end = b.end
        BY <1>1, <2>1, <2>2, <3>1, OneBlock DEF Alike
      <3>. QED
        BY <1>1, <1>2, <2>1, <2>2, <3>1, <3>2
    <2>5. IsBlock(lines, c) /\ c.end < index /\ c.end < b.end + 1
          /\ (final => c.complete) /\ (c.end < c.start => c.start = b.end + 1)
      BY <2>1, <2>3, <2>4
    <2>. QED
      BY <2>5 DEF c
  <1>5. ASSUME NEW i \in 1 .. n + 1
        PROVE  /\ IsBlock(lines, blocks'[i]) /\ blocks'[i].end < b.end + 1
               /\ final => blocks'[i].complete
               /\ blocks'[i].end < blocks'[i].start =>
                    blocks'[i].start = b.end + 1
    <2>1. CASE i = n + 1
      BY <1>1, <1>2, <1>3, <2>1
    <2>2. CASE i # n + 1
      <3>1. i \in 1 .. n
        BY <1>1, <2>2
      <3>2. blocks'[i] = blocks[i]
        BY <1>3, <3>1
      <3>. QED
        BY <1>4, <3>1, <3>2
    <2>. QED
      BY <2>1, <2>2
  <1>6. ASSUME NEW i \in 1 .. n + 1, NEW j \in 1 .. n + 1, i < j
        PROVE  blocks'[i].end < blocks'[j].start
    <2>1. i \in 1 .. n /\ blocks'[i] = blocks[i]
      BY <1>1, <1>3, <1>6
    <2>2. CASE j = n + 1
      BY <1>1, <1>3, <1>4, <2>1, <2>2
    <2>3. CASE j # n + 1
      <3>1. j \in 1 .. n /\ blocks'[j] = blocks[j]
        BY <1>1, <1>3, <2>3
      <3>2. blocks[i].end < blocks[j].start
        BY <1>1, <1>6, <2>1, <3>1 DEF MdIInv, Parsed
      <3>. QED
        BY <2>1, <3>1, <3>2
    <2>. QED
      BY <2>2, <2>3
  <1>7. b \in BlocksOf(blocks')
        /\ \A c \in BlocksOf(blocks) : c \in BlocksOf(blocks')
    <2>1. b \in BlocksOf(blocks')
      BY <1>1, <1>3 DEF BlocksOf
    <2>2. ASSUME NEW i \in 1 .. n PROVE blocks[i] \in BlocksOf(blocks')
      <3>1. i \in 1 .. n + 1 /\ blocks'[i] = blocks[i]
        BY <1>1, <1>3
      <3>. QED
        BY <1>3, <3>1 DEF BlocksOf
    <2>. QED
      BY <1>1, <2>1, <2>2 DEF BlocksOf
  <1>8. ASSUME NEW k \in 1 .. b.end
        PROVE  \/ lines[k].kind = "blank"
               \/ \E c \in BlocksOf(blocks') : c.start <= k /\ k <= c.end
    <2>1. CASE k < index
      <3>1. k \in 1 .. index - 1
        BY <1>1, <2>1
      <3>2. \/ lines[k].kind = "blank"
            \/ \E c \in BlocksOf(blocks) : c.start <= k /\ k <= c.end
        BY <1>1, <3>1 DEF MdIInv, Parsed
      <3>. QED
        BY <1>7, <3>2
    <2>2. CASE ~(k < index)
      <3>1. b.start <= k /\ k <= b.end
        BY <1>1, <1>2, <2>2
      <3>. QED
        BY <1>7, <3>1
    <2>. QED
      BY <2>1, <2>2
  <1>9. n + 1 < b.end + 1 \/ \E c \in BlocksOf(blocks') : c.end < c.start
    <2>1. CASE b.end < b.start
      BY <1>7, <2>1
    <2>2. CASE \E c \in BlocksOf(blocks) : c.end < c.start
      BY <1>7, <2>2
    <2>3. CASE n < index /\ ~(b.end < b.start)
      BY <1>1, <1>2, <2>3
    <2>4. n < index \/ \E c \in BlocksOf(blocks) : c.end < c.start
      BY <1>1 DEF MdIInv, Parsed
    <2>. QED
      BY <2>1, <2>2, <2>3, <2>4
  <1>10. Parsed'
    <2>1. index' \in 1 .. Len(lines') + 1
      BY <1>1, <1>2
    <2>2. \A i \in DOMAIN blocks' :
            /\ IsBlock(lines', blocks'[i]) /\ blocks'[i].end < index'
            /\ final' => blocks'[i].complete
            /\ blocks'[i].end < blocks'[i].start => blocks'[i].start = index'
      BY <1>1, <1>3, <1>5
    <2>3. \A i, j \in DOMAIN blocks' :
            i < j => blocks'[i].end < blocks'[j].start
      BY <1>3, <1>6
    <2>4. \A k \in 1 .. index' - 1 :
            \/ lines'[k].kind = "blank"
            \/ \E c \in BlocksOf(blocks') : c.start <= k /\ k <= c.end
      <3>1. lines' = lines /\ index' = b.end + 1
        BY <1>1
      <3>2. index' - 1 = b.end
        BY <1>2, <3>1
      <3>. QED
        BY <1>8, <3>1, <3>2
    <2>5. Len(blocks') < index'
          \/ \E c \in BlocksOf(blocks') : c.end < c.start
      BY <1>1, <1>3, <1>9
    <2>. QED
      BY <2>1, <2>2, <2>3, <2>4, <2>5 DEF Parsed, BlocksOf
  <1>11. PhaseOK' /\ PaneDone'
    BY <1>1 DEF PhaseOK, PaneDone
  <1>12. phase' \in {"waiting", "parsing", "complete", "dead"}
         /\ final' \in BOOLEAN /\ index' \in Nat /\ blocks' \in Seq(Block)
    BY <1>1, <1>2, <1>3 DEF MdTypeOK
  <1>. QED
    BY <1>1, <1>10, <1>11, <1>12, SameRuns DEF MdIInv

-----------------------------------------------------------------------------
(* A render.                                                               *)

\* The keys of some of the blocks
KeysAt(places) == {Key(blocks[i]) : i \in places}

\* The parser is at the end of the text.
RenderTime ==
  MdTypeOK /\ Parsed /\ phase # "waiting" /\ index > Len(lines)

\* At the end of the text
LEMMA BlocksAtEnd ==
  ASSUME RenderTime
  PROVE  /\ Len(lines) \in Nat /\ Len(blocks) \in Nat
         /\ DOMAIN blocks = 1 .. Len(blocks)
         /\ \A i \in DOMAIN blocks :
              /\ blocks[i] \in Block /\ blocks[i].complete \in BOOLEAN
              /\ blocks[i].start \in 1 .. Len(lines)
              /\ blocks[i].text # <<>>
              /\ blocks[i].text[1] = lines[blocks[i].start]
              /\ lines[blocks[i].start] \in Line
         /\ \A i, j \in DOMAIN blocks :
              Key(blocks[i]) = Key(blocks[j]) => i = j
  <1>1. /\ Len(lines) \in Nat /\ Len(blocks) \in Nat
        /\ DOMAIN blocks = 1 .. Len(blocks) /\ lines \in Seq(Line)
    BY LinesOK, BlocksOK DEF RenderTime
  <1>2. ASSUME NEW i \in DOMAIN blocks
        PROVE  /\ blocks[i] \in Block /\ blocks[i].complete \in BOOLEAN
               /\ blocks[i].start \in 1 .. Len(lines)
               /\ blocks[i].end \in Nat
               /\ blocks[i].start <= blocks[i].end
               /\ blocks[i].text # <<>>
               /\ blocks[i].text[1] = lines[blocks[i].start]
               /\ lines[blocks[i].start] \in Line
    <2>. DEFINE b == blocks[i]
    <2>1. b \in Block /\ b.complete \in BOOLEAN /\ b.end \in Nat
      BY <1>1, BlocksOK, BlockTypes DEF RenderTime
    <2>2. IsBlock(lines, b) /\ b.start <= b.end
      <3>1. b \in BlocksOf(blocks)
        BY DEF BlocksOf
      <3>2. IsParse(lines, BlocksOf(blocks), Len(lines) + 1)
        BY ParseOfTheText DEF RenderTime
      <3>. QED
        BY <3>1, <3>2 DEF IsParse
    <2>. HIDE DEF b
    <2>3. /\ b.start \in 1 .. Len(lines) /\ b.text # <<>>
          /\ b.text[1] = lines[b.start]
      BY <1>1, <2>1, <2>2, BlockFacts
    <2>4. lines[b.start] \in Line
      BY <2>3, LinesOK DEF RenderTime
    <2>. QED
      BY <2>1, <2>2, <2>3, <2>4 DEF b
  <1>3. ASSUME NEW i \in DOMAIN blocks, NEW j \in DOMAIN blocks, i < j
        PROVE  blocks[i].start # blocks[j].start
    <2>1. blocks[i].end < blocks[j].start
      BY <1>3 DEF RenderTime, Parsed
    <2>. QED
      BY <1>1, <1>2, <2>1
  <1>4. ASSUME NEW i \in DOMAIN blocks, NEW j \in DOMAIN blocks,
               Key(blocks[i]) = Key(blocks[j])
        PROVE  i = j
    <2>1. blocks[i].start = blocks[j].start
      BY <1>4 DEF Key
    <2>. QED
      BY <1>1, <1>3, <2>1
  <1>. QED
    BY <1>1, <1>2, <1>4

\* As many keys as blocks
LEMMA CountKeys ==
  ASSUME RenderTime, NEW places \in SUBSET DOMAIN blocks
  PROVE  /\ IsFiniteSet(places) /\ IsFiniteSet(KeysAt(places))
         /\ Cardinality(KeysAt(places)) = Cardinality(places)
  <1>1. IsFiniteSet(places)
    <2>1. Len(blocks) \in Int /\ 1 \in Int /\ DOMAIN blocks = 1 .. Len(blocks)
      BY BlocksAtEnd
    <2>2. IsFiniteSet(DOMAIN blocks)
      BY <2>1, FS_Interval
    <2>. QED
      BY <2>2, FS_Subset
  <1>. DEFINE f == [i \in places |-> Key(blocks[i])]
  <1>2. f \in Bijection(places, KeysAt(places))
    <2>1. f \in [places -> KeysAt(places)]
      BY DEF KeysAt
    <2>2. \A i, j \in places : f[i] = f[j] => i = j
      BY BlocksAtEnd
    <2>3. \A k \in KeysAt(places) : \E i \in places : f[i] = k
      BY DEF KeysAt
    <2>. QED
      BY <2>1, <2>2, <2>3
         DEF Bijection, Injection, Surjection, IsInjective
  <1>. QED
    BY <1>1, <1>2, FS_Bijection DEF ExistsBijection

\* A render adds the keys of the fresh blocks, which are new.
LEMMA RenderKeys ==
  ASSUME RenderTime, MountOK, Render
  PROVE  /\ KeysOf(blocks) = KeysAt(Completed(blocks))
         /\ keys' = keys \cup KeysAt(Fresh(blocks))
         /\ keys' = keys \cup KeysOf(blocks)
         /\ seen' = keys'
         /\ keys \cap KeysAt(Fresh(blocks)) = {}
         /\ Fresh(blocks) \in SUBSET Completed(blocks)
         /\ Completed(blocks) \in SUBSET DOMAIN blocks
         /\ Open(blocks) \in SUBSET DOMAIN blocks
         /\ KeysOf(blocks) \cap seen
              = KeysAt(Completed(blocks) \ Fresh(blocks))
  <1>1. KeysOf(blocks) = KeysAt(Completed(blocks))
    BY DEF KeysOf, KeysAt
  <1>2. /\ Fresh(blocks) \in SUBSET Completed(blocks)
        /\ Completed(blocks) \in SUBSET DOMAIN blocks
        /\ Open(blocks) \in SUBSET DOMAIN blocks
    BY DEF Fresh, Completed, Open
  <1>3. keys' = keys \cup KeysAt(Fresh(blocks))
        /\ seen' = seen \cup KeysOf(blocks) /\ seen = keys
    BY DEF Render, KeysAt, MountOK
  <1>4. \A i \in Completed(blocks) :
          i \in Fresh(blocks) <=> Key(blocks[i]) \notin keys
    BY DEF Fresh
  <1>5. keys \cap KeysAt(Fresh(blocks)) = {}
    BY <1>2, <1>4 DEF KeysAt
  <1>6. keys \cup KeysAt(Fresh(blocks)) = keys \cup KeysAt(Completed(blocks))
    BY <1>2, <1>4 DEF KeysAt
  <1>7. KeysAt(Completed(blocks)) \cap keys
          = KeysAt(Completed(blocks) \ Fresh(blocks))
    BY <1>4 DEF KeysAt
  <1>. QED
    BY <1>1, <1>2, <1>3, <1>5, <1>6, <1>7

\* What the naive run renders again is what the stable run leaves out.
LEMMA RenderSaved ==
  ASSUME RenderTime, MountOK, Saved, Render
  PROVE  Saved' /\ MetricsOK(naive)' /\ MetricsOK(stable)'
         /\ IsFiniteSet(keys')
  <1>. DEFINE C == Completed(blocks)
              F == Fresh(blocks)
              O == Open(blocks)
              Z == C \ F
              K == KeysAt(F)
  <1>1. /\ F \in SUBSET C /\ C \in SUBSET DOMAIN blocks
        /\ O \in SUBSET DOMAIN blocks
        /\ F \in SUBSET DOMAIN blocks /\ Z \in SUBSET DOMAIN blocks
        /\ keys' = keys \cup K /\ keys \cap K = {}
        /\ KeysOf(blocks) \cap seen = KeysAt(Z)
    BY RenderKeys
  <1>2. /\ naive'.completed = naive.completed + Cardinality(C)
        /\ naive'.again = naive.again + Cardinality(KeysAt(Z))
        /\ naive'.churn = naive.churn + NodeCount(blocks, DOMAIN blocks)
        /\ naive'.tails = naive.tails + Cardinality(O)
    BY <1>1 DEF Render, NaiveUpdate
  <1>3. /\ stable'.completed = stable.completed + Cardinality(F)
        /\ stable'.again = 0
        /\ stable'.churn = stable.churn + NodeCount(blocks, F)
                                        + NodeCount(blocks, O)
        /\ stable'.tails = stable.tails + Cardinality(O)
    BY DEF Render, StableUpdate
  <1>4. O \cap C = {}
    BY DEF Open, Completed
  <1>. HIDE DEF C, F, O, K
  <1>5. /\ IsFiniteSet(C) /\ IsFiniteSet(F) /\ IsFiniteSet(Z)
        /\ IsFiniteSet(O) /\ IsFiniteSet(K)
        /\ Cardinality(K) = Cardinality(F)
        /\ Cardinality(KeysAt(Z)) = Cardinality(Z)
    BY <1>1, CountKeys DEF K
  <1>6. Cardinality(C) = Cardinality(F) + Cardinality(Z)
    <2>1. F \cup Z = C /\ F \cap Z = {}
      BY <1>1
    <2>2. Cardinality(F \cap Z) = 0
      BY <2>1, FS_EmptySet
    <2>3. /\ Cardinality(F \cup Z)
               = Cardinality(F) + Cardinality(Z) - Cardinality(F \cap Z)
          /\ Cardinality(F) \in Nat /\ Cardinality(Z) \in Nat
      BY <1>5, FS_Union, FS_CardinalityType
    <2>. HIDE DEF Z
    <2>4. Cardinality(F \cup Z) = Cardinality(C)
      BY <2>1
    <2>. QED
      BY <2>2, <2>3, <2>4
  <1>7. Cardinality(keys') = Cardinality(keys) + Cardinality(F)
        /\ IsFiniteSet(keys')
    <2>1. IsFiniteSet(keys)
      BY DEF RenderTime, MdTypeOK
    <2>2. Cardinality(keys \cap K) = 0
      BY <1>1, FS_EmptySet
    <2>3. /\ Cardinality(keys \cup K)
               = Cardinality(keys) + Cardinality(K) - Cardinality(keys \cap K)
          /\ IsFiniteSet(keys \cup K)
          /\ Cardinality(keys) \in Nat /\ Cardinality(K) \in Nat
      BY <1>5, <2>1, FS_Union, FS_CardinalityType
    <2>. QED
      BY <1>1, <1>5, <2>2, <2>3
  <1>8. /\ NodeCount(blocks, F) \in Nat /\ NodeCount(blocks, O) \in Nat
        /\ NodeCount(blocks, DOMAIN blocks) \in Nat
        /\ NodeCount(blocks, F) + NodeCount(blocks, O) + Cardinality(Z)
             <= NodeCount(blocks, DOMAIN blocks)
    <2>1. F \cap O = {} /\ F \cap Z = {} /\ O \cap Z = {}
      BY <1>1, <1>4
    <2>2. blocks \in Seq(Block)
      BY DEF RenderTime, MdTypeOK
    <2>. HIDE DEF Z
    <2>. QED
      BY <1>1, <2>1, <2>2, NodesAdd
  <1>9. /\ Cardinality(C) \in Nat /\ Cardinality(F) \in Nat
        /\ Cardinality(Z) \in Nat /\ Cardinality(O) \in Nat
        /\ Cardinality(keys) \in Nat
    BY <1>5, FS_CardinalityType DEF RenderTime, MdTypeOK
  <1>. HIDE DEF Z
  <1>10. MetricsOK(naive) /\ MetricsOK(stable)
    BY DEF RenderTime, MdTypeOK
  <1>11. MetricsOK(naive)' /\ MetricsOK(stable)'
    <2>1. MetricsOK(naive')
      BY <1>2, <1>5, <1>8, <1>9, <1>10 DEF MetricsOK
    <2>2. MetricsOK(stable')
      BY <1>3, <1>8, <1>9, <1>10 DEF MetricsOK
    <2>. QED
      BY <2>1, <2>2
  <1>12. Saved'
    <2>1. naive'.completed = stable'.completed + naive'.again
      BY <1>2, <1>3, <1>5, <1>6, <1>9, <1>10 DEF MetricsOK, Saved
    <2>2. stable'.completed = Cardinality(keys')
      BY <1>3, <1>7 DEF Saved
    <2>3. naive'.tails = stable'.tails
      BY <1>2, <1>3 DEF Saved
    <2>4. stable'.churn + naive'.again <= naive'.churn
      BY <1>2, <1>3, <1>5, <1>8, <1>9, <1>10 DEF MetricsOK, Saved
    <2>. QED
      BY <2>1, <2>2, <2>3, <2>4 DEF Saved
  <1>. QED
    BY <1>7, <1>11, <1>12

\* The pane after a render: what it had, and the fresh blocks in order.
Paints(r, at) ==
  /\ Has(blocks, Fresh(blocks), Len(blocks), r, at)
  /\ mount' = mount \o r
  /\ mount' \in Seq(Block)
  /\ Len(mount) \in Nat /\ Len(r) \in Nat
  /\ DOMAIN mount = 1 .. Len(mount)
  /\ DOMAIN mount' = 1 .. Len(mount) + Len(r)
  /\ Len(mount') = Len(mount) + Len(r)
  /\ \A j \in 1 .. Len(mount) : j \in DOMAIN mount' /\ mount'[j] = mount[j]
  /\ \A k \in 1 .. Len(r) :
       /\ Len(mount) + k \in DOMAIN mount'
       /\ mount'[Len(mount) + k] = blocks[at[k]]
       /\ at[k] \in Fresh(blocks)
  /\ \A j \in DOMAIN mount' :
       \/ j \in 1 .. Len(mount)
       \/ j - Len(mount) \in 1 .. Len(r) /\ j = Len(mount) + (j - Len(mount))

\* A render paints the fresh blocks below the others.
LEMMA RenderPaints ==
  ASSUME RenderTime, Render
  PROVE  \E r, at : Paints(r, at)
  <1>. DEFINE r == InOrder(blocks, Fresh(blocks))
  <1>1. blocks \in Seq(Block) /\ mount \in Seq(Block)
        /\ Fresh(blocks) \in SUBSET DOMAIN blocks
    BY DEF RenderTime, MdTypeOK, Fresh, Completed
  <1>2. PICK at : Has(blocks, Fresh(blocks), Len(blocks), r, at)
    BY <1>1, InOrderHas
  <1>3. mount' = mount \o r
    BY DEF Render, PaintStable
  <1>. HIDE DEF r
  <1>4. r \in Seq(Block) /\ at \in [1 .. Len(r) -> Fresh(blocks)]
        /\ \A k \in 1 .. Len(r) : r[k] = blocks[at[k]]
    BY <1>2 DEF Has
  <1>5. /\ Len(mount) \in Nat /\ Len(r) \in Nat
        /\ DOMAIN mount = 1 .. Len(mount)
    BY <1>1, <1>4, LenProperties
  <1>6. /\ mount' \in Seq(Block)
        /\ Len(mount') = Len(mount) + Len(r)
        /\ \A i \in 1 .. Len(mount) + Len(r) :
             mount'[i] = IF i <= Len(mount) THEN mount[i]
                         ELSE r[i - Len(mount)]
    BY <1>1, <1>3, <1>4, ConcatProperties
  <1>7. DOMAIN mount' = 1 .. Len(mount) + Len(r)
    BY <1>6, LenProperties
  <1>8. \A j \in 1 .. Len(mount) : j \in DOMAIN mount' /\ mount'[j] = mount[j]
    BY <1>5, <1>6, <1>7
  <1>9. ASSUME NEW k \in 1 .. Len(r)
        PROVE  /\ Len(mount) + k \in DOMAIN mount'
               /\ mount'[Len(mount) + k] = blocks[at[k]]
               /\ at[k] \in Fresh(blocks)
    <2>1. /\ Len(mount) + k \in 1 .. Len(mount) + Len(r)
          /\ ~(Len(mount) + k <= Len(mount))
          /\ Len(mount) + k - Len(mount) = k
      BY <1>5
    <2>. QED
      BY <1>4, <1>6, <1>7, <2>1
  <1>10. \A j \in DOMAIN mount' :
           \/ j \in 1 .. Len(mount)
           \/ j - Len(mount) \in 1 .. Len(r)
              /\ j = Len(mount) + (j - Len(mount))
    BY <1>5, <1>7
  <1>11. Paints(r, at)
    BY <1>2, <1>3, <1>5, <1>6, <1>7, <1>8, <1>9, <1>10 DEF Paints
  <1>. QED
    BY <1>11

\* The blocks of the pane still have keys of their own.
LEMMA RenderMount ==
  ASSUME RenderTime, MountOK, Render
  PROVE  MountOK'
  <1>. DEFINE M == Len(mount)
              F == Fresh(blocks)
  <1>1. PICK r, at : Paints(r, at)
    BY RenderPaints
  <1>2. lines' = lines /\ keys' = keys \cup KeysAt(F) /\ seen' = keys'
        /\ F \in SUBSET DOMAIN blocks
        /\ keys \cap KeysAt(F) = {}
    BY RenderKeys DEF Render
  <1>3. \A i \in F : Key(blocks[i]) \in KeysAt(F) /\ blocks[i].complete
    BY DEF KeysAt, Fresh, Completed
  <1>4. \A j \in 1 .. M : Key(mount[j]) \in keys
    BY <1>1 DEF MountOK, BlocksOf, Paints
  <1>5. ASSUME NEW j \in DOMAIN mount'
        PROVE  \/ j \in 1 .. M /\ mount'[j] = mount[j]
               \/ \E k \in 1 .. Len(r) :
                    /\ j = M + k /\ at[k] \in F
                    /\ mount'[j] = blocks[at[k]]
    BY <1>1 DEF Paints
  <1>6. keys' = {Key(b) : b \in BlocksOf(mount')}
    <2>1. ASSUME NEW x \in keys'
          PROVE  \E j \in DOMAIN mount' : x = Key(mount'[j])
      <3>1. CASE x \in keys
        <4>1. PICK j \in 1 .. M : x = Key(mount[j])
          BY <1>1, <3>1 DEF MountOK, BlocksOf, Paints
        <4>. QED
          BY <1>1, <4>1 DEF Paints
      <3>2. CASE x \in KeysAt(F)
        <4>1. PICK i \in F : x = Key(blocks[i])
          BY <3>2 DEF KeysAt
        <4>2. PICK k \in 1 .. Len(r) : at[k] = i
          BY <1>1, <1>2, <4>1, BlocksAtEnd DEF Paints, Has
        <4>. QED
          BY <1>1, <4>1, <4>2 DEF Paints
      <3>. QED
        BY <1>2, <3>1, <3>2
    <2>2. \A j \in DOMAIN mount' : Key(mount'[j]) \in keys'
      BY <1>2, <1>3, <1>4, <1>5
    <2>3. \A x \in keys' : x \in {Key(b) : b \in BlocksOf(mount')}
      BY <2>1 DEF BlocksOf
    <2>4. \A x \in {Key(b) : b \in BlocksOf(mount')} : x \in keys'
      BY <2>2 DEF BlocksOf
    <2>. QED
      BY <2>3, <2>4
  <1>7. ASSUME NEW i \in DOMAIN mount', NEW j \in DOMAIN mount',
               Key(mount'[i]) = Key(mount'[j])
        PROVE  i = j
    <2>1. CASE i \in 1 .. M /\ j \in 1 .. M
      <3>1. mount'[i] = mount[i] /\ mount'[j] = mount[j]
            /\ i \in DOMAIN mount /\ j \in DOMAIN mount
        BY <1>1, <2>1 DEF Paints
      <3>. QED
        BY <1>7, <3>1 DEF MountOK
    <2>2. ASSUME NEW p \in 1 .. M, NEW q \in DOMAIN mount', q \notin 1 .. M
          PROVE  Key(mount'[p]) # Key(mount'[q])
      <3>1. Key(mount'[p]) \in keys
        BY <1>1, <1>4 DEF Paints
      <3>2. Key(mount'[q]) \in KeysAt(F)
        BY <1>3, <1>5, <2>2
      <3>. QED
        BY <1>2, <3>1, <3>2
    <2>3. CASE i \notin 1 .. M /\ j \notin 1 .. M
      <3>1. PICK k \in 1 .. Len(r), l \in 1 .. Len(r) :
              /\ i = M + k /\ mount'[i] = blocks[at[k]] /\ at[k] \in F
              /\ j = M + l /\ mount'[j] = blocks[at[l]] /\ at[l] \in F
        BY <1>5, <2>3
      <3>2. at[k] = at[l]
        BY <1>2, <1>7, <3>1, BlocksAtEnd
      <3>3. k < l \/ l < k \/ k = l
        BY <1>1 DEF Paints
      <3>4. at[k] \in Nat /\ at[l] \in Nat
        BY <1>2, <3>1, BlocksAtEnd
      <3>5. ~(k < l) /\ ~(l < k)
        BY <1>1, <3>2, <3>4 DEF Paints, Has
      <3>. QED
        BY <3>1, <3>3, <3>5
    <2>. QED
      BY <1>7, <2>1, <2>2, <2>3
  <1>8. ASSUME NEW j \in DOMAIN mount'
        PROVE  /\ mount'[j].complete
               /\ mount'[j].start \in 1 .. Len(lines)
               /\ mount'[j].text # <<>>
               /\ mount'[j].text[1].size <= lines[mount'[j].start].size
    <2>1. CASE j \in 1 .. M /\ mount'[j] = mount[j]
      BY <1>1, <2>1 DEF MountOK, Paints
    <2>2. ASSUME NEW k \in 1 .. Len(r), at[k] \in F, mount'[j] = blocks[at[k]]
          PROVE  /\ mount'[j].complete
                 /\ mount'[j].start \in 1 .. Len(lines)
                 /\ mount'[j].text # <<>>
                 /\ mount'[j].text[1].size <= lines[mount'[j].start].size
      <3>. DEFINE b == blocks[at[k]]
      <3>1. /\ b.complete /\ b.start \in 1 .. Len(lines)
            /\ b.text # <<>> /\ b.text[1] = lines[b.start]
            /\ lines[b.start] \in Line
        BY <1>2, <1>3, <2>2, BlocksAtEnd
      <3>. HIDE DEF b
      <3>2. b.text[1].size <= lines[b.start].size
        BY <3>1 DEF Line
      <3>3. mount'[j] = b
        BY <2>2 DEF b
      <3>. QED
        BY <3>1, <3>2, <3>3
    <2>. QED
      BY <1>5, <2>1, <2>2
  <1>. QED
    BY <1>2, <1>6, <1>7, <1>8 DEF MountOK, BlocksOf

\* What is before a fresh block in the text is above it in the pane.
LEMMA RenderPreceded ==
  ASSUME RenderTime, MountOK, PrecededAll, Render
  PROVE  PrecededAll'
  <1>. DEFINE F == Fresh(blocks)
  <1>0. PICK M : M = Len(mount)
    OBVIOUS
  <1>. USE <1>0
  <1>1. PICK r, at : Paints(r, at)
    BY RenderPaints
  <1>2. /\ lines' = lines
        /\ F \in SUBSET DOMAIN blocks
        /\ KeysOf(blocks) = KeysAt(Completed(blocks))
    BY RenderKeys DEF Render
  <1>3. ASSUME NEW j \in 1 .. M, lines[mount'[j].start] = mount'[j].text[1]
        PROVE  \E B \in SUBSET Block :
                 /\ IsParse(lines, B, mount'[j].start)
                 /\ \A b \in B : b.complete /\ Key(b) \in KeysBefore(j)'
    <2>1. mount'[j] = mount[j] /\ j \in DOMAIN mount
      BY <1>1 DEF Paints
    <2>2. PICK B \in SUBSET Block : Preceded(j, B)
      BY <1>3, <2>1 DEF PrecededAll
    <2>3. KeysBefore(j)' = KeysBefore(j)
      <3>1. \A i \in 1 .. j - 1 : mount'[i] = mount[i]
        BY <1>1 DEF Paints
      <3>. QED
        BY <3>1 DEF KeysBefore
    <2>4. /\ IsParse(lines, B, mount'[j].start)
          /\ \A b \in B : b.complete /\ Key(b) \in KeysBefore(j)'
      BY <2>1, <2>2, <2>3 DEF Preceded
    <2>. QED
      BY <2>4
  <1>4. ASSUME NEW k \in 1 .. Len(r)
        PROVE  \E B \in SUBSET Block :
                 /\ IsParse(lines, B, mount'[M + k].start)
                 /\ \A b \in B : b.complete /\ Key(b) \in KeysBefore(M + k)'
    <2>. DEFINE i == at[k]
                B == {blocks[q] : q \in 1 .. i - 1}
    <2>1. i \in F /\ i \in DOMAIN blocks /\ mount'[M + k] = blocks[i]
          /\ i \in 1 .. Len(blocks) /\ Len(blocks) \in Nat
      BY <1>1, <1>2, BlocksAtEnd DEF Paints
    <2>2. IsParse(lines, B, blocks[i].start)
      BY <2>1, ParseOfTheText DEF RenderTime
    <2>3. ASSUME NEW q \in 1 .. i - 1
          PROVE  /\ blocks[q] \in Block /\ blocks[q].complete
                 /\ Key(blocks[q]) \in KeysBefore(M + k)'
      <3>1. q \in DOMAIN blocks /\ q < i /\ q \in 1 .. Len(blocks)
        BY <2>1, BlocksAtEnd
      <3>2. blocks[q] \in Block /\ blocks[q].complete
        BY <2>1, <3>1, BlocksAtEnd, OnlyTheLastIsOpen DEF RenderTime
      <3>3. Key(blocks[q]) \in KeysBefore(M + k)'
        <4>1. CASE Key(blocks[q]) \in keys
          <5>1. PICK p \in 1 .. M : Key(blocks[q]) = Key(mount[p])
            BY <1>1, <4>1 DEF MountOK, BlocksOf, Paints
          <5>2. p \in 1 .. M + k - 1 /\ mount'[p] = mount[p]
            BY <1>1 DEF Paints
          <5>. QED
            BY <5>1, <5>2 DEF KeysBefore
        <4>2. CASE Key(blocks[q]) \notin keys
          <5>1. q \in F
            BY <3>1, <3>2, <4>2 DEF Fresh, Completed
          <5>2. PICK p \in 1 .. Len(r) : at[p] = q
            BY <1>1, <3>1, <5>1 DEF Paints, Has
          <5>3. p < k
            <6>1. k < p => at[k] < at[p]
              BY <1>1 DEF Paints, Has
            <6>2. k = p \/ k < p \/ p < k
              BY <1>1 DEF Paints
            <6>3. at[k] \in Nat /\ at[p] \in Nat /\ at[p] < at[k]
              BY <2>1, <3>1, <5>2
            <6>. QED
              BY <6>1, <6>2, <6>3
          <5>4. M + p \in 1 .. M + k - 1 /\ mount'[M + p] = blocks[q]
            BY <1>1, <5>2, <5>3 DEF Paints
          <5>. QED
            BY <5>4 DEF KeysBefore
        <4>. QED
          BY <4>1, <4>2
      <3>. QED
        BY <3>2, <3>3
    <2>4. B \in SUBSET Block
          /\ \A b \in B : b.complete /\ Key(b) \in KeysBefore(M + k)'
      BY <2>3
    <2>. HIDE DEF B
    <2>. QED
      BY <2>1, <2>2, <2>4
  <1>5. ASSUME NEW j \in DOMAIN mount',
               lines[mount'[j].start] = mount'[j].text[1]
        PROVE  \E B \in SUBSET Block :
                 /\ IsParse(lines, B, mount'[j].start)
                 /\ \A b \in B : b.complete /\ Key(b) \in KeysBefore(j)'
    <2>1. CASE j \in 1 .. M
      BY <1>3, <1>5, <2>1
    <2>2. ASSUME NEW k \in 1 .. Len(r), j = M + k
          PROVE  \E B \in SUBSET Block :
                   /\ IsParse(lines, B, mount'[j].start)
                   /\ \A b \in B : b.complete /\ Key(b) \in KeysBefore(j)'
      BY <1>4, <2>2
    <2>3. j \in 1 .. M \/ \E k \in 1 .. Len(r) : j = M + k
      BY <1>1 DEF Paints
    <2>. QED
      BY <2>1, <2>2, <2>3
  <1>. QED
    BY <1>2, <1>5 DEF PrecededAll, Preceded, KeysBefore

\* A render keeps the invariant.
LEMMA RenderInductive ==
  ASSUME MdIInv, Render
  PROVE  MdIInv'
  <1>1. /\ UNCHANGED <<lines, pieces, final, index, blocks>>
        /\ latest' = [blocks |-> blocks, lines |-> Len(lines),
                      pieces |-> pieces]
        /\ phase' = IF final THEN "complete" ELSE "waiting"
        /\ phase = "parsing" /\ index > Len(lines)
    BY DEF Render
  <1>2. RenderTime /\ MountOK /\ PrecededAll /\ Saved
    BY <1>1 DEF MdIInv, RenderTime
  <1>3. /\ latest'.blocks = blocks /\ latest'.lines = Len(lines)
        /\ Len(lines) \in Nat /\ Len(blocks) \in Nat
        /\ DOMAIN blocks = 1 .. Len(blocks)
    BY <1>1, <1>2, BlocksAtEnd
  <1>4. MountOK' /\ PrecededAll'
    BY <1>2, RenderMount, RenderPreceded
  <1>5. /\ Saved' /\ MetricsOK(naive)' /\ MetricsOK(stable)'
        /\ IsFiniteSet(keys')
    BY <1>2, RenderSaved
  <1>6. mount' \in Seq(Block)
    BY <1>2, RenderPaints DEF Paints
  <1>7. MdTypeOK'
    <2>1. phase' \in {"waiting", "parsing", "complete", "dead"}
      BY <1>1
    <2>2. latest'.blocks \in Seq(Block) /\ latest'.lines \in 0 .. Len(lines')
      BY <1>1, <1>3 DEF MdIInv, MdTypeOK
    <2>. QED
      BY <1>1, <1>5, <1>6, <2>1, <2>2 DEF MdIInv, MdTypeOK
  <1>8. Parsed'
    BY <1>1 DEF MdIInv, Parsed, BlocksOf
  <1>9. PhaseOK'
    BY <1>1 DEF PhaseOK
  <1>10. LatestIsParse'
    <2>1. IsParse(lines, BlocksOf(blocks), Len(lines) + 1)
      BY <1>2, ParseOfTheText DEF RenderTime
    <2>2. IsParse(lines, BlocksOf(latest'.blocks), latest'.lines + 1)
      BY <1>3, <2>1
    <2>3. lines \in Seq(Line) /\ lines' = lines
      BY <1>1 DEF MdIInv, MdTypeOK
    <2>4. \E old \in Seq(Line) :
            /\ Len(old) = latest'.lines
            /\ \A k \in 1 .. latest'.lines - 1 : old[k] = lines'[k]
            /\ IsParse(old, BlocksOf(latest'.blocks), latest'.lines + 1)
      BY <1>3, <2>2, <2>3
    <2>. QED
      BY <2>4 DEF LatestIsParse, BlocksOf
  <1>11. LatestTail'
    <2>1. ASSUME NEW i \in 1 .. Len(blocks) - 1
          PROVE  blocks[i].complete
      <3>1. i \in DOMAIN blocks /\ Len(blocks) \in DOMAIN blocks
            /\ i < Len(blocks)
        BY <1>3
      <3>. QED
        BY <1>2, <3>1, OnlyTheLastIsOpen DEF RenderTime
    <2>. QED
      BY <1>3, <2>1 DEF LatestTail
  <1>12. PaneDone'
    <2>1. SUFFICES ASSUME phase' = "complete", NEW i \in DOMAIN blocks
                   PROVE  \E j \in DOMAIN mount' :
                            Key(mount'[j]) = Key(blocks[i])
      BY <1>1 DEF PaneDone
    <2>2. final
      BY <1>1, <2>1
    <2>3. blocks[i].complete
      BY <1>2, <2>2 DEF RenderTime, Parsed
    <2>4. Key(blocks[i]) \in keys'
      <3>1. Key(blocks[i]) \in KeysOf(blocks)
        BY <2>3 DEF KeysOf, Completed
      <3>. QED
        BY <1>2, <3>1, RenderKeys
    <2>. QED
      BY <1>4, <2>4 DEF MountOK, BlocksOf
  <1>. QED
    BY <1>4, <1>5, <1>7, <1>8, <1>9, <1>10, <1>11, <1>12 DEF MdIInv

(***************************************************************************)
(* The invariant of the demo, for every text and every way to cut it:      *)
(* the blocks so far are what the parser makes of the lines before its     *)
(* place, the last render showed the parse of a text this one begins with, *)
(* the pane has every committed block once, below the blocks that come     *)
(* before it in the text, and the sums of the two runs fit (lines          *)
(* 214-330, 169-186 and 343-385).                                          *)
(***************************************************************************)
THEOREM MarkdownInvariant == MarkdownSpec => []MdIInv
  <1>1. ASSUME MdIInv, MarkdownNext PROVE MdIInv'
    <2>0. MdTypeOK /\ (phase # "waiting" => index \in 1 .. Len(lines) + 1)
      BY <1>1 DEF MdIInv, Parsed
    <2>1. CASE Arrive
      BY <1>1, <2>1, ArriveInductive
    <2>2. CASE ApplyChunk
      BY <1>1, <2>2, ApplyInductive
    <2>3. CASE SkipBlank
      BY <1>1, <2>3, SkipInductive
    <2>4. ASSUME TakeCode \/ TakeMath \/ TakeHeading \/ TakeTable
                 \/ TakeList \/ TakeParagraph
          PROVE  MdIInv'
      <3>1. AtLine
        BY <2>4 DEF TakeCode, TakeMath, TakeHeading, TakeTable, TakeList,
                    TakeParagraph, TakeDelimited
      <3>2. phase = "parsing" /\ index <= Len(lines)
        BY <3>1 DEF AtLine
      <3>3. index \in 1 .. Len(lines) + 1
        BY <2>0, <3>2
      <3>4. \E b \in Block : Takes(b)
        <4>1. CASE TakeCode
          BY <2>0, <3>3, <4>1, TakesDelimited DEF TakeCode
        <4>2. CASE TakeMath
          BY <2>0, <3>3, <4>2, TakesDelimited DEF TakeMath
        <4>3. CASE TakeHeading
          BY <2>0, <3>3, <4>3, TakesHeading
        <4>4. CASE TakeTable
          BY <2>0, <3>3, <4>4, TakesTable
        <4>5. CASE TakeList
          BY <2>0, <3>3, <4>5, TakesList
        <4>6. CASE TakeParagraph
          BY <2>0, <3>3, <4>6, TakesParagraph
        <4>. QED
          BY <2>4, <4>1, <4>2, <4>3, <4>4, <4>5, <4>6
      <3>. QED
        BY <1>1, <3>2, <3>4, TakesInductive
    <2>5. CASE ExhaustHeap
      BY <1>1, <2>5, ExhaustInductive
    <2>6. CASE Render
      BY <1>1, <2>6, RenderInductive
    <2>. QED
      BY <1>1, <2>1, <2>2, <2>3, <2>4, <2>5, <2>6
         DEF MarkdownNext, ParseStep
  <1>2. ASSUME MdIInv, UNCHANGED mdVars PROVE MdIInv'
    <2>1. /\ UNCHANGED <<lines, pieces, phase, final, index, blocks>>
          /\ UNCHANGED runVars
      BY <1>2 DEF mdVars
    <2>2. Parsed' /\ PhaseOK' /\ PaneDone'
      BY <1>2, <2>1
         DEF MdIInv, Parsed, PhaseOK, PaneDone, BlocksOf, runVars
    <2>3. phase' \in {"waiting", "parsing", "complete", "dead"}
          /\ final' \in BOOLEAN /\ index' \in Nat /\ blocks' \in Seq(Block)
      BY <1>2, <2>1 DEF MdIInv, MdTypeOK
    <2>. QED
      BY <1>2, <2>1, <2>2, <2>3, SameRuns DEF MdIInv
  <1>. QED
    BY <1>1, <1>2, MarkdownStarts, PTL DEF MarkdownSpec

-----------------------------------------------------------------------------
(* What the invariant says of the pane.                                    *)

\* Complete blocks that are alike have one key.
LEMMA SameKey ==
  ASSUME NEW b, NEW c, Alike(b, c), b.complete, c.complete
  PROVE  Key(b) = Key(c)
  BY DEF Key, Identity, Alike

\* Only an orphan makes an empty block.
LEMMA EmptyIsOrphan ==
  ASSUME NEW ls \in Seq(Line), NEW b \in Block, IsBlock(ls, b),
         b.end < b.start
  PROVE  \/ ls[b.start].kind = "opener"
         \/ ls[b.start].kind = "sep" /\ ~TableAt(ls, b.start)
  <1>1. /\ Len(ls) \in Nat /\ DOMAIN ls = 1 .. Len(ls)
        /\ b.start \in 1 .. Len(ls) /\ b.start \in Nat /\ b.end \in Nat
    BY LenProperties DEF IsBlock, Block
  <1>2. ASSUME NEW type, NEW openers, NEW closer,
               IsDelimited(ls, b, type, openers, closer)
        PROVE  FALSE
    <2>1. PICK close \in b.start + 1 .. Len(ls) + 1 :
            b.end = close \/ b.end = Len(ls)
      BY <1>2 DEF IsDelimited
    <2>2. close \in Nat /\ b.start < close /\ b.start <= Len(ls)
      BY <1>1
    <2>. QED
      BY <1>1, <2>1, <2>2
  <1>3. ~IsHeading(ls, b)
    BY <1>1 DEF IsHeading
  <1>4. ASSUME NEW places, SpansRun(ls, b, places)
        PROVE  b.start \notin places
    <2>1. b.end + 1 = b.start
      BY <1>1, <1>4 DEF SpansRun
    <2>. QED
      BY <1>4, <2>1 DEF SpansRun
  <1>5. ~IsTable(ls, b)
    <2>1. SUFFICES ASSUME IsTable(ls, b) PROVE FALSE
      OBVIOUS
    <2>2. b.start \notin {i \in DOMAIN ls : IsTableRow(ls[i])}
      BY <1>4, <2>1 DEF IsTable
    <2>. QED
      BY <1>1, <2>1, <2>2 DEF IsTable, TableAt
  <1>6. ~IsList(ls, b)
    <2>1. SUFFICES ASSUME IsList(ls, b) PROVE FALSE
      OBVIOUS
    <2>2. b.start \notin {i \in DOMAIN ls : ls[i].kind = "item"}
      BY <1>4, <2>1 DEF IsList
    <2>. QED
      BY <1>1, <2>1, <2>2 DEF IsList
  <1>7. IsParagraph(ls, b)
    BY <1>2, <1>3, <1>5, <1>6 DEF IsBlock
  <1>8. b.start \notin {i \in DOMAIN ls : /\ ls[i].kind # "blank"
                                         /\ ~StartsStructuredBlock(ls[i])}
    BY <1>4, <1>7 DEF IsParagraph
  <1>9. StartsStructuredBlock(ls[b.start])
    BY <1>1, <1>7, <1>8 DEF IsParagraph
  <1>. QED
    BY <1>7, <1>9 DEF IsParagraph, StartsStructuredBlock

\* A full heap has an empty block, as the others are fewer than the lines.
LEMMA OrphansHang == MdIInv => OnlyOrphansHang
  <1>. SUFFICES ASSUME MdIInv, phase = "dead"
                PROVE  \/ lines[index].kind = "opener"
                       \/ lines[index].kind = "sep" /\ ~TableAt(lines, index)
    BY DEF OnlyOrphansHang
  <1>1. /\ Len(lines) \in Nat /\ Len(lines) <= pieces + 1
        /\ pieces \in Nat /\ pieces <= MaxPieces
        /\ index \in Nat /\ index <= Len(lines)
        /\ Len(blocks) = HeapBlocks
        /\ MdTypeOK /\ Parsed /\ lines \in Seq(Line)
    BY LinesOK DEF MdIInv, MdTypeOK, PhaseOK
  <1>2. ~(Len(blocks) < index)
    BY <1>1, MarkdownAssumption
  <1>3. \E b \in BlocksOf(blocks) : b.end < b.start
    BY <1>1, <1>2 DEF Parsed
  <1>4. PICK i \in DOMAIN blocks : blocks[i].end < blocks[i].start
    BY <1>3 DEF BlocksOf
  <1>. DEFINE b == blocks[i]
  <1>5. b.start = index /\ IsBlock(lines, b) /\ b.end < b.start /\ b \in Block
    BY <1>1, <1>4, BlocksOK DEF Parsed
  <1>. HIDE DEF b
  <1>. QED
    BY <1>1, <1>5, EmptyIsOrphan

\* The sums of the invariant are the saving of the property.
LEMMA RerendersAreSaved == MdIInv => SavedIsRerendered
  <1>. SUFFICES ASSUME MdIInv PROVE SavedIsRerendered
    OBVIOUS
  <1>1. MetricsOK(naive) /\ MetricsOK(stable) /\ keys = seen /\ Saved
    BY DEF MdIInv, MdTypeOK, MountOK
  <1>. QED
    BY <1>1 DEF MetricsOK, Saved, SavedIsRerendered

\* What comes before a block in the text comes before it in the pane.
LEMMA DocumentIsInPane == MdIInv => PaneHasTheDocument
  <1>. SUFFICES ASSUME MdIInv, phase = "complete"
                PROVE  PaneHasTheDocument
    BY DEF PaneHasTheDocument
  <1>1. /\ RenderTime /\ MountOK /\ PrecededAll /\ PaneDone
        /\ MdTypeOK /\ Parsed /\ lines \in Seq(Line)
        /\ final /\ index > Len(lines)
    BY DEF MdIInv, RenderTime, PhaseOK, MdTypeOK
  <1>2. Len(blocks) \in Nat /\ DOMAIN blocks = 1 .. Len(blocks)
        /\ Len(mount) \in Nat /\ DOMAIN mount = 1 .. Len(mount)
        /\ Len(lines) \in Nat
    BY <1>1, BlocksOK, BlocksAtEnd
  <1>. DEFINE Place(b) == CHOOSE i \in 1..Len(mount) : Key(mount[i]) = Key(b)
  <1>3. ASSUME NEW i \in 1 .. Len(blocks)
        PROVE  /\ Place(blocks[i]) \in 1 .. Len(mount)
               /\ Key(mount[Place(blocks[i])]) = Key(blocks[i])
               /\ Key(blocks[i]) \in {Key(mount[j]) : j \in 1..Len(mount)}
               /\ \A j \in 1 .. Len(mount) :
                    Key(mount[j]) = Key(blocks[i]) => j = Place(blocks[i])
    <2>1. \E j \in 1 .. Len(mount) : Key(mount[j]) = Key(blocks[i])
      BY <1>1, <1>2 DEF PaneDone
    <2>2. /\ Place(blocks[i]) \in 1 .. Len(mount)
          /\ Key(mount[Place(blocks[i])]) = Key(blocks[i])
      BY <2>1
    <2>. HIDE DEF Place
    <2>. QED
      BY <1>1, <1>2, <2>1, <2>2 DEF MountOK
  <1>4. ASSUME NEW i \in 1 .. Len(blocks), i > 1
        PROVE  Place(blocks[i - 1]) < Place(blocks[i])
    <2>. DEFINE c == blocks[i]
                b == blocks[i - 1]
                j == Place(c)
                A == {blocks[k] : k \in 1 .. i - 1}
    <2>1. i - 1 \in 1 .. Len(blocks) /\ i - 1 < i /\ i - 1 \in 1 .. i - 1
      BY <1>2, <1>4
    <2>2. /\ j \in 1 .. Len(mount) /\ Key(mount[j]) = Key(c)
          /\ \A k \in 1 .. Len(mount) : Key(mount[k]) = Key(b) => k = Place(b)
      BY <1>3, <2>1
    <2>3. /\ c \in Block /\ b \in Block /\ b.complete
          /\ c.start \in 1 .. Len(lines) /\ c.text[1] = lines[c.start]
          /\ b.end < c.start
          /\ b.end \in Nat /\ b.start \in Nat /\ c.start \in Nat
      BY <1>1, <1>2, <2>1, BlocksAtEnd, BlockTypes DEF Parsed
    <2>4. b \in A /\ A \in SUBSET Block /\ IsParse(lines, A, c.start)
      <3>1. IsParse(lines, A, c.start)
        BY <1>1, <1>2, ParseOfTheText
      <3>2. \A k \in 1 .. i - 1 : k \in DOMAIN blocks
        BY <1>2
      <3>. QED
        BY <1>1, <2>1, <3>1, <3>2, BlocksAtEnd
    <2>. HIDE DEF A, b, c, j, Place
    <2>5. b.start <= b.end
      BY <2>4 DEF IsParse
    <2>6. mount[j].start = c.start /\ mount[j].text = c.text
      BY <2>2 DEF Key, Identity
    <2>7. lines[mount[j].start] = mount[j].text[1] /\ j \in DOMAIN mount
      BY <1>2, <2>2, <2>3, <2>6
    <2>8. PICK B \in SUBSET Block : Preceded(j, B)
      BY <1>1, <2>7 DEF PrecededAll
    <2>9. IsParse(lines, B, c.start)
          /\ \A x \in B : x.complete /\ Key(x) \in KeysBefore(j)
      BY <2>6, <2>8 DEF Preceded
    <2>10. /\ Agree(lines, lines, c.start)
           /\ c.start \in 1 .. Len(lines) + 1
           /\ b.end + 1 <= c.start /\ b.start < c.start
      BY <1>2, <2>3, <2>5 DEF Agree
    <2>11. PICK x \in B : Alike(b, x)
      BY <1>1, <2>3, <2>4, <2>9, <2>10, ParsesAgree
    <2>12. Key(b) \in KeysBefore(j)
      BY <2>3, <2>9, <2>11, SameKey
    <2>13. PICK k \in 1 .. j - 1 : Key(mount[k]) = Key(b)
      BY <2>12 DEF KeysBefore
    <2>14. k \in 1 .. Len(mount) /\ k < j
      BY <1>2, <2>2
    <2>15. Place(b) < j
      BY <2>2, <2>13, <2>14
    <2>. QED
      BY <2>15 DEF b, c, j
  <1>. HIDE DEF Place
  <1>5. \A i \in 1..Len(blocks) :
          /\ Key(blocks[i]) \in {Key(mount[j]) : j \in 1..Len(mount)}
          /\ i > 1 => Place(blocks[i - 1]) < Place(blocks[i])
    BY <1>3, <1>4
  <1>. QED
    BY <1>5 DEF PaneHasTheDocument, Place

(***************************************************************************)
(* The stable pane is sound: only the last block is ever open, what is     *)
(* rendered again is what is saved, the complete text is in the pane in    *)
(* its order, and only an orphan fills the heap (lines 169-186 and         *)
(* 214-330; paintStable of the page, line 143).                            *)
(***************************************************************************)
THEOREM PaneSound == MarkdownSpec => []StablePaneIsSound
  <1>1. MdIInv => OnlyTheTailIsOpen
    BY DEF MdIInv, LatestTail, OnlyTheTailIsOpen
  <1>2. MdIInv => StablePaneIsSound
    BY <1>1, OrphansHang, RerendersAreSaved, DocumentIsInPane
       DEF StablePaneIsSound
  <1>. QED
    BY <1>2, MarkdownInvariant, PTL

\* The property of a render
StaysAt ==
  \A i \in 1..Len(latest.blocks) :
    LET b == latest.blocks[i] IN
      (b.complete /\ b.end + 1 < latest.lines)
        => Key(b) \in KeysOf(blocks)

\* The last render and this one have the blocks they both went past.
LEMMA PassedStay ==
  ASSUME MdIInv, Render
  PROVE  StaysAt
  <1>1. RenderTime /\ MdTypeOK /\ Parsed
        /\ lines \in Seq(Line) /\ Len(lines) \in Nat
        /\ latest.lines \in Nat /\ latest.lines <= Len(lines)
    BY BlocksAtEnd DEF Render, MdIInv, RenderTime, MdTypeOK
  <1>2. PICK old \in Seq(Line) :
          /\ Len(old) = latest.lines
          /\ \A k \in 1 .. latest.lines - 1 : old[k] = lines[k]
          /\ IsParse(old, BlocksOf(latest.blocks), latest.lines + 1)
    BY DEF MdIInv, LatestIsParse
  <1>. DEFINE A == BlocksOf(latest.blocks)
              C == BlocksOf(blocks)
              n == latest.lines
              p == Len(lines) + 1
  <1>3. /\ A \in SUBSET Block /\ C \in SUBSET Block
        /\ DOMAIN latest.blocks = 1 .. Len(latest.blocks)
    BY <1>1, BlocksOK, LenProperties DEF MdTypeOK
  <1>4. IsParse(lines, C, p)
    BY <1>1, ParseOfTheText DEF RenderTime
  <1>5. \A b \in A : b.complete /\ b.end + 1 < n => Key(b) \in KeysOf(blocks)
    <2>. HIDE DEF A, C
    <2>1. SUFFICES ASSUME NEW b \in A, b.complete, b.end + 1 < n
                   PROVE  Key(b) \in KeysOf(blocks)
      OBVIOUS
    <2>2. /\ b \in Block /\ b.start \in Nat /\ b.end \in Nat
          /\ b.start <= b.end /\ IsBlock(old, b)
      BY <1>2, <1>3, <2>1, BlockTypes DEF IsParse, A
    <2>3. /\ n - 1 \in Nat /\ b.end + 1 <= n - 1 /\ b.start < p
          /\ n + 1 \in 1 .. Len(old) + 1 /\ p \in 1 .. Len(lines) + 1
          /\ n - 1 <= Len(old) /\ n - 1 <= Len(lines)
      BY <1>1, <1>2, <2>1, <2>2
    <2>4. Agree(old, lines, n - 1)
      BY <1>2, <2>3 DEF Agree
    <2>5. IsParse(old, A, n + 1)
      BY <1>2 DEF A
    <2>. HIDE DEF n, p
    <2>6. PICK c \in C : Alike(b, c)
      BY <1>1, <1>2, <1>3, <1>4, <2>1, <2>3, <2>4, <2>5, ParsesAgree
    <2>7. c \in Block /\ IsBlock(lines, c) /\ c.end = b.end
      BY <1>3, <1>4, <2>6 DEF IsParse, Alike
    <2>8. c.end < Len(lines) /\ c.end + 1 < Len(lines)
      BY <1>1, <2>1, <2>2, <2>7 DEF n
    <2>9. c.complete
      BY <1>1, <2>7, <2>8, SeenEndIsComplete
    <2>10. Key(b) = Key(c)
      BY <2>1, <2>6, <2>9, SameKey
    <2>11. Key(c) \in KeysOf(blocks)
      BY <2>6, <2>9 DEF C, BlocksOf, KeysOf, Completed
    <2>. QED
      BY <2>10, <2>11
  <1>. QED
    BY <1>3, <1>5 DEF StaysAt, BlocksOf

(***************************************************************************)
(* No later parse takes back a completed block the text has gone past      *)
(* (lines 214-330 and 380).                                                *)
(***************************************************************************)
THEOREM PassedBlocksRemain == MarkdownSpec => PassedBlocksStay
  <1>1. MdIInv => (Render => StaysAt)
    BY PassedStay
  <1>2. (Render => StaysAt) =>
          [Render =>
             \A i \in 1..Len(latest.blocks) :
               LET b == latest.blocks[i] IN
                 (b.complete /\ b.end + 1 < latest.lines)
                   => Key(b) \in KeysOf(blocks)]_mdVars
    BY DEF StaysAt
  <1>. QED
    BY <1>1, <1>2, MarkdownInvariant, PTL DEF PassedBlocksStay
-----------------------------------------------------------------------------
(* The worker scheduler page, from here on.                               *)

USE SchedulerAssumption

(* Increasing sequences of run numbers.                                     *)

Under(s, n) == \A i \in DOMAIN s : s[i] < n

Below(s, t) == \A i \in DOMAIN s, j \in DOMAIN t : s[i] < t[j]

LEMMA AppendFacts ==
  ASSUME NEW s \in Seq(Nat), NEW n \in Nat
  PROVE  /\ Append(s, n) \in Seq(Nat)
         /\ DOMAIN Append(s, n) = 1 .. Len(s) + 1
         /\ \A i \in 1 .. Len(s) : Append(s, n)[i] = s[i]
         /\ Append(s, n)[Len(s) + 1] = n
         /\ DOMAIN s = 1 .. Len(s) /\ Len(s) \in Nat
         /\ \A i \in 1 .. Len(s) : s[i] \in Nat
  BY AppendProperties, LenProperties, ElementOfSeq

LEMMA TailFacts ==
  ASSUME NEW s \in Seq(Nat), s # <<>>
  PROVE  /\ Tail(s) \in Seq(Nat)
         /\ DOMAIN Tail(s) = 1 .. Len(s) - 1
         /\ \A i \in 1 .. Len(s) - 1 : Tail(s)[i] = s[i + 1]
         /\ Head(s) = s[1] /\ Head(s) \in Nat
         /\ DOMAIN s = 1 .. Len(s) /\ Len(s) \in Nat \ {0}
         /\ \A i \in 1 .. Len(s) : s[i] \in Nat
  <1>1. Len(s) \in Nat \ {0} /\ DOMAIN s = 1 .. Len(s)
    BY LenProperties, EmptySeq
  <1>2. \A i \in 1 .. Len(s) : s[i] \in Nat
    BY <1>1, ElementOfSeq
  <1>. QED
    BY <1>1, <1>2, HeadTailProperties, LenProperties

LEMMA IncreasingConcat ==
  ASSUME NEW s \in Seq(Nat), NEW t \in Seq(Nat),
         Increasing(s), Increasing(t), Below(s, t)
  PROVE  Increasing(s \o t)
  <1>1. /\ s \o t \in Seq(Nat) /\ Len(s \o t) = Len(s) + Len(t)
        /\ \A i \in 1 .. Len(s) + Len(t) :
             (s \o t)[i] = IF i <= Len(s) THEN s[i] ELSE t[i - Len(s)]
    BY ConcatProperties
  <1>2. /\ DOMAIN s = 1 .. Len(s) /\ DOMAIN t = 1 .. Len(t)
        /\ DOMAIN (s \o t) = 1 .. Len(s) + Len(t)
        /\ Len(s) \in Nat /\ Len(t) \in Nat
    BY <1>1, LenProperties
  <1>3. ASSUME NEW i \in 1 .. Len(s) + Len(t), NEW j \in 1 .. Len(s) + Len(t),
               i < j
        PROVE  (s \o t)[i] < (s \o t)[j]
    <2>. DEFINE a == Len(s)
                b == Len(t)
    <2>1. CASE j <= Len(s)
      <3>1. i \in DOMAIN s /\ j \in DOMAIN s
        BY <1>2, <1>3, <2>1
      <3>2. (s \o t)[i] = s[i] /\ (s \o t)[j] = s[j]
        BY <1>1, <1>2, <1>3, <2>1
      <3>. QED
        BY <1>3, <3>1, <3>2 DEF Increasing
    <2>2. CASE i <= Len(s) /\ j > Len(s)
      <3>1. i \in DOMAIN s /\ j - Len(s) \in DOMAIN t
        BY <1>2, <1>3, <2>2
      <3>2. (s \o t)[i] = s[i] /\ (s \o t)[j] = t[j - Len(s)]
        BY <1>1, <1>2, <1>3, <2>2
      <3>. QED
        BY <3>1, <3>2 DEF Below
    <2>3. CASE i > Len(s)
      <3>1. /\ i - Len(s) \in DOMAIN t /\ j - Len(s) \in DOMAIN t
            /\ i - Len(s) < j - Len(s)
        BY <1>2, <1>3, <2>3
      <3>2. (s \o t)[i] = t[i - Len(s)] /\ (s \o t)[j] = t[j - Len(s)]
        BY <1>1, <1>2, <1>3, <2>3
      <3>. QED
        BY <3>1, <3>2 DEF Increasing
    <2>. QED
      BY <1>2, <2>1, <2>2, <2>3
  <1>. QED
    BY <1>2, <1>3 DEF Increasing

LEMMA IncreasingAppend ==
  ASSUME NEW s \in Seq(Nat), NEW n \in Nat, Increasing(s), Under(s, n)
  PROVE  Increasing(Append(s, n))
  BY AppendFacts DEF Increasing, Under

LEMMA IncreasingTail ==
  ASSUME NEW s \in Seq(Nat), s # <<>>, Increasing(s)
  PROVE  /\ Increasing(Tail(s))
         /\ \A i \in DOMAIN Tail(s) : Head(s) < Tail(s)[i]
  <1>1. ASSUME NEW i \in 1 .. Len(s) - 1, NEW j \in 1 .. Len(s) - 1, i < j
        PROVE  Tail(s)[i] < Tail(s)[j]
    <2>1. i + 1 \in DOMAIN s /\ j + 1 \in DOMAIN s /\ i + 1 < j + 1
      BY <1>1, TailFacts
    <2>. QED
      BY <1>1, <2>1, TailFacts DEF Increasing
  <1>2. ASSUME NEW i \in 1 .. Len(s) - 1
        PROVE  Head(s) < Tail(s)[i]
    <2>1. 1 \in DOMAIN s /\ i + 1 \in DOMAIN s /\ 1 < i + 1
      BY <1>2, TailFacts
    <2>. QED
      BY <1>2, <2>1, TailFacts DEF Increasing
  <1>. QED
    BY <1>1, <1>2, TailFacts DEF Increasing

(* What a worker has served, has in its queue and has in its inbox.         *)
Order(s, q, a) ==
  /\ Increasing(s) /\ Increasing(q) /\ Increasing(a)
  /\ Below(s, a) /\ Below(q, a)

LEMMA ServeFirst ==
  ASSUME NEW s \in Seq(Nat), NEW q \in Seq(Nat), NEW a \in Seq(Nat),
         Order(s, q, a), Below(s, q), q # <<>>
  PROVE  /\ Order(Append(s, Head(q)), Tail(q), a)
         /\ Below(Append(s, Head(q)), Tail(q))
         /\ \A n \in Nat : Under(s, n) /\ Under(q, n)
              => Under(Append(s, Head(q)), n) /\ Under(Tail(q), n)
  <1>1. Head(q) \in Nat /\ Under(s, Head(q))
    BY TailFacts DEF Below, Under
  <1>2. Increasing(Append(s, Head(q))) /\ Increasing(Tail(q))
    BY <1>1, IncreasingAppend, IncreasingTail DEF Order
  <1>3. Below(Append(s, Head(q)), a)
    BY <1>1, AppendFacts, TailFacts DEF Order, Below
  <1>4. \A i \in DOMAIN Tail(q) : i + 1 \in DOMAIN q
                                  /\ Tail(q)[i] = q[i + 1]
    BY TailFacts
  <1>5. Below(Tail(q), a)
    BY <1>4 DEF Order, Below
  <1>6. Below(Append(s, Head(q)), Tail(q))
    <2>1. ASSUME NEW i \in DOMAIN Append(s, Head(q)), NEW j \in DOMAIN Tail(q)
          PROVE  Append(s, Head(q))[i] < Tail(q)[j]
      <3>1. CASE i \in DOMAIN s
        BY <1>1, <1>4, <2>1, <3>1, AppendFacts DEF Below
      <3>2. CASE i = Len(s) + 1
        BY <1>1, <2>1, <3>2, AppendFacts, IncreasingTail DEF Order
      <3>. QED
        BY <1>1, <2>1, <3>1, <3>2, AppendFacts
    <2>. QED
      BY <2>1 DEF Below
  <1>7. ASSUME NEW n \in Nat, Under(s, n), Under(q, n)
        PROVE  Under(Append(s, Head(q)), n) /\ Under(Tail(q), n)
    <2>1. Head(q) < n
      BY <1>7, TailFacts DEF Under
    <2>2. Under(Append(s, Head(q)), n)
      BY <1>1, <1>7, <2>1, AppendFacts DEF Under
    <2>. QED
      BY <1>4, <1>7, <2>2 DEF Under
  <1>. QED
    BY <1>2, <1>3, <1>5, <1>6, <1>7 DEF Order

LEMMA ServeAsked ==
  ASSUME NEW s \in Seq(Nat), NEW q \in Seq(Nat), NEW a \in Seq(Nat),
         Order(s, q, a), Range(s) \cap Range(q) = {}, a # <<>>
  PROVE  /\ Order(Append(s, Head(a)), q, Tail(a))
         /\ Range(Append(s, Head(a))) \cap Range(q) = {}
         /\ \A n \in Nat : Under(s, n) /\ Under(a, n)
              => Under(Append(s, Head(a)), n) /\ Under(Tail(a), n)
  <1>1. Head(a) \in Nat /\ Under(s, Head(a)) /\ Under(q, Head(a))
    BY TailFacts DEF Order, Below, Under
  <1>2. Increasing(Append(s, Head(a))) /\ Increasing(Tail(a))
    BY <1>1, IncreasingAppend, IncreasingTail DEF Order
  <1>3. \A i \in DOMAIN Tail(a) : /\ i + 1 \in DOMAIN a
                                  /\ Tail(a)[i] = a[i + 1]
                                  /\ Head(a) < Tail(a)[i]
    BY TailFacts, IncreasingTail DEF Order
  <1>4. Below(Append(s, Head(a)), Tail(a)) /\ Below(q, Tail(a))
    <2>1. Below(s, Tail(a)) /\ Below(q, Tail(a))
      BY <1>3 DEF Order, Below
    <2>. QED
      BY <1>1, <1>3, <2>1, AppendFacts, SMTT(30) DEF Below
  <1>5. Range(Append(s, Head(a))) \cap Range(q) = {}
    <2>1. ASSUME NEW i \in DOMAIN Append(s, Head(a)), NEW j \in DOMAIN q
          PROVE  Append(s, Head(a))[i] # q[j]
      <3>1. CASE i \in DOMAIN s
        <4>1. Append(s, Head(a))[i] = s[i]
          BY <1>1, <3>1, AppendFacts
        <4>. QED
          BY <2>1, <3>1, <4>1 DEF Range
      <3>2. CASE i = Len(s) + 1
        <4>1. Append(s, Head(a))[i] = Head(a) /\ q[j] < Head(a)
          BY <1>1, <2>1, <3>2, AppendFacts DEF Under
        <4>2. q[j] \in Nat
          BY <2>1, ElementOfSeq, LenProperties
        <4>. QED
          BY <1>1, <4>1, <4>2
      <3>. QED
        BY <1>1, <2>1, <3>1, <3>2, AppendFacts
    <2>. QED
      BY <2>1 DEF Range
  <1>6. ASSUME NEW n \in Nat, Under(s, n), Under(a, n)
        PROVE  Under(Append(s, Head(a)), n) /\ Under(Tail(a), n)
    <2>1. Head(a) < n
      BY <1>6, TailFacts DEF Under
    <2>2. Under(Append(s, Head(a)), n)
      BY SMTT(30), <1>1, <1>6, <2>1, AppendFacts DEF Under
    <2>. QED
      BY <1>3, <1>6, <2>2 DEF Under
  <1>. QED
    BY <1>2, <1>4, <1>5, <1>6 DEF Order

LEMMA QueueAsked ==
  ASSUME NEW s \in Seq(Nat), NEW q \in Seq(Nat), NEW a \in Seq(Nat),
         Order(s, q, a), Below(s, q), a # <<>>
  PROVE  /\ Order(s, Append(q, Head(a)), Tail(a))
         /\ Below(s, Append(q, Head(a)))
         /\ \A n \in Nat : Under(q, n) /\ Under(a, n)
              => Under(Append(q, Head(a)), n) /\ Under(Tail(a), n)
  <1>1. Head(a) \in Nat /\ Under(s, Head(a)) /\ Under(q, Head(a))
    BY TailFacts DEF Order, Below, Under
  <1>2. Increasing(Append(q, Head(a))) /\ Increasing(Tail(a))
    BY <1>1, IncreasingAppend, IncreasingTail DEF Order
  <1>3. \A i \in DOMAIN Tail(a) : /\ i + 1 \in DOMAIN a
                                  /\ Tail(a)[i] = a[i + 1]
                                  /\ Head(a) < Tail(a)[i]
    BY TailFacts, IncreasingTail DEF Order
  <1>4. Below(s, Tail(a)) /\ Below(q, Tail(a))
    BY <1>3 DEF Order, Below
  <1>5. Below(Append(q, Head(a)), Tail(a))
    BY SMTT(30), <1>1, <1>3, <1>4, AppendFacts DEF Below
  <1>6. Below(s, Append(q, Head(a)))
    BY <1>1, AppendFacts DEF Below, Under
  <1>7. ASSUME NEW n \in Nat, Under(q, n), Under(a, n)
        PROVE  Under(Append(q, Head(a)), n) /\ Under(Tail(a), n)
    <2>1. Head(a) < n
      BY <1>7, TailFacts DEF Under
    <2>2. Under(Append(q, Head(a)), n)
      BY SMTT(30), <1>1, <1>7, <2>1, AppendFacts DEF Under
    <2>. QED
      BY <1>3, <1>7, <2>2 DEF Under
  <1>. QED
    BY <1>2, <1>4, <1>5, <1>6, <1>7 DEF Order

LEMMA AskLater ==
  ASSUME NEW s \in Seq(Nat), NEW q \in Seq(Nat), NEW a \in Seq(Nat),
         NEW n \in Nat,
         Order(s, q, a), Under(s, n), Under(q, n), Under(a, n)
  PROVE  /\ Order(s, q, Append(a, n))
         /\ \A m \in Nat : Under(a, m) /\ n < m => Under(Append(a, n), m)
  <1>1. Increasing(Append(a, n))
    BY IncreasingAppend DEF Order
  <1>2. Below(s, Append(a, n)) /\ Below(q, Append(a, n))
    BY SMTT(30), AppendFacts DEF Order, Below, Under
  <1>3. \A m \in Nat : Under(a, m) /\ n < m => Under(Append(a, n), m)
    BY AppendFacts DEF Under
  <1>. QED
    BY <1>1, <1>2, <1>3 DEF Order

LEMMA BelowDisjoint ==
  ASSUME NEW s \in Seq(Nat), NEW t \in Seq(Nat), Below(s, t)
  PROVE  Range(s) \cap Range(t) = {}
  <1>1. \A i \in DOMAIN s, j \in DOMAIN t :
          s[i] \in Nat /\ t[j] \in Nat /\ s[i] < t[j]
    BY ElementOfSeq, LenProperties DEF Below
  <1>2. \A i \in DOMAIN s, j \in DOMAIN t : s[i] # t[j]
    BY <1>1
  <1>. QED
    BY <1>2 DEF Range
-----------------------------------------------------------------------------
(* A worker.                                                                *)

HeavyAsk == [kind |-> "heavy"]
UrgentAsks == [kind : {"urgent"}, run : Nat]
Answers == [kind : {"ack", "urgent"}, run : Nat]

(* A heavy result that tells of its transaction, in mode md.                *)
Telling(m, md) ==
  /\ m.yields = m.chunks - 1
  /\ m.preemptions = Len(m.before)
  /\ IF md = "monolithic" THEN m.chunks = 1
     ELSE m.chunks * ChunkSize >= Total /\ (m.chunks - 1) * ChunkSize < Total

HeavyAnswers(md) ==
  {m \in [kind : {"heavy"}, run : Nat, chunks : Nat, yields : Nat,
          preemptions : Nat, before : Seq(Nat)] : Telling(m, md)}

Posts(md) == Answers \cup HeavyAnswers(md)

WorkersOf(md) ==
  [inbox : Seq(UrgentAsks \cup {HeavyAsk}), payload : BOOLEAN,
   progress : Nat, queue : Seq(Nat), yielding : BOOLEAN, chunks : Nat,
   yields : Nat, preemptions : Nat, posted : Seq(Posts(md)),
   served : Seq(Nat)]

AllUrgent(inbox) == \A i \in DOMAIN inbox : inbox[i].kind = "urgent"

InTurn(v) == Order(v.served, v.queue, Asked(v.inbox))

\* The heavy transaction has not been looked at.
Waiting(v) ==
  /\ v.inbox # <<>> /\ Head(v.inbox) = HeavyAsk /\ AllUrgent(Tail(v.inbox))
  /\ ~v.payload /\ ~v.yielding
  /\ v.progress = 0 /\ v.chunks = 0 /\ v.yields = 0 /\ v.preemptions = 0
  /\ v.served = <<>> /\ v.queue = <<>>

\* It is under way, and the counters tell how far.
Counted(v, md) ==
  /\ md = "scheduled"
  /\ v.yields = v.chunks /\ v.preemptions = Len(v.served)
  /\ v.progress = v.chunks * ChunkSize /\ v.progress < Total

Ready(v, md) ==
  /\ v.payload /\ AllUrgent(v.inbox) /\ Below(v.served, v.queue)
  /\ Counted(v, md)

\* It has come to its end.
Done(v) ==
  /\ ~v.payload /\ ~v.yielding /\ AllUrgent(v.inbox)
  /\ Range(v.served) \cap Range(v.queue) = {}

Good(v, md) ==
  /\ v \in WorkersOf(md) /\ InTurn(v)
  /\ Waiting(v) \/ (Ready(v, md) /\ v.yielding) \/ Done(v)

\* No request the worker has got is of a run from n on.
Before(v, n) ==
  Under(v.served, n) /\ Under(v.queue, n) /\ Under(Asked(v.inbox), n)

LEMMA AskedFacts ==
  ASSUME NEW b \in Seq(UrgentAsks \cup {HeavyAsk})
  PROVE  /\ Asked(b) \in Seq(Nat) /\ Len(Asked(b)) = Len(b)
         /\ DOMAIN Asked(b) = DOMAIN b
         /\ \A i \in DOMAIN b :
              Asked(b)[i] = IF b[i].kind = "heavy" THEN 0 ELSE b[i].run
  <1>1. DOMAIN b = 1 .. Len(b) /\ Len(b) \in Nat
    BY LenProperties
  <1>2. \A i \in DOMAIN b :
          (IF b[i].kind = "heavy" THEN 0 ELSE b[i].run) \in Nat
    <2>1. SUFFICES ASSUME NEW i \in DOMAIN b
                   PROVE  (IF b[i].kind = "heavy" THEN 0 ELSE b[i].run) \in Nat
      OBVIOUS
    <2>2. b[i] \in UrgentAsks \cup {HeavyAsk}
      BY <1>1, ElementOfSeq
    <2>. QED
      BY <2>2 DEF UrgentAsks, HeavyAsk
  <1>3. Asked(b) \in [1 .. Len(b) -> Nat]
    BY <1>1, <1>2 DEF Asked
  <1>4. Asked(b) \in Seq(Nat)
    BY <1>1, <1>3
  <1>5. DOMAIN Asked(b) = DOMAIN b
    BY DEF Asked
  <1>6. Len(Asked(b)) = Len(b)
    BY <1>1, <1>4, <1>5, LenProperties
  <1>. QED
    BY <1>4, <1>5, <1>6 DEF Asked

LEMMA AskedTail ==
  ASSUME NEW b \in Seq(UrgentAsks \cup {HeavyAsk}), b # <<>>
  PROVE  /\ Tail(b) \in Seq(UrgentAsks \cup {HeavyAsk})
         /\ Head(b) \in UrgentAsks \cup {HeavyAsk}
         /\ Asked(b) # <<>> /\ Asked(Tail(b)) = Tail(Asked(b))
         /\ Head(Asked(b)) = IF Head(b).kind = "heavy" THEN 0
                             ELSE Head(b).run
         /\ AllUrgent(b) => AllUrgent(Tail(b)) /\ Head(b) \in UrgentAsks
  <1>. DEFINE S == UrgentAsks \cup {HeavyAsk}
  <1>1. /\ Tail(b) \in Seq(S) /\ Head(b) \in S /\ Head(b) = b[1]
        /\ Len(b) \in Nat \ {0} /\ DOMAIN b = 1 .. Len(b)
        /\ Len(Tail(b)) = Len(b) - 1
        /\ DOMAIN Tail(b) = 1 .. Len(b) - 1
        /\ \A i \in 1 .. Len(b) - 1 : Tail(b)[i] = b[i + 1]
    <2>1. Len(b) \in Nat \ {0} /\ DOMAIN b = 1 .. Len(b)
      BY LenProperties, EmptySeq
    <2>2. /\ Tail(b) \in Seq(S) /\ Head(b) \in S /\ Head(b) = b[1]
          /\ Len(Tail(b)) = Len(b) - 1
          /\ \A i \in 1 .. Len(Tail(b)) : Tail(b)[i] = b[i + 1]
      BY <2>1, HeadTailProperties
    <2>3. DOMAIN Tail(b) = 1 .. Len(Tail(b))
      BY <2>2, LenProperties
    <2>. QED
      BY <2>1, <2>2, <2>3
  <1>2. /\ Asked(b) \in Seq(Nat) /\ Len(Asked(b)) = Len(b)
        /\ \A i \in 1 .. Len(b) :
             Asked(b)[i] = IF b[i].kind = "heavy" THEN 0 ELSE b[i].run
    BY <1>1, AskedFacts
  <1>3. Asked(b) # <<>>
    BY <1>1, <1>2, EmptySeq
  <1>4. /\ Tail(Asked(b)) \in Seq(Nat) /\ Head(Asked(b)) = Asked(b)[1]
        /\ Len(Tail(Asked(b))) = Len(b) - 1
        /\ \A i \in 1 .. Len(b) - 1 : Tail(Asked(b))[i] = Asked(b)[i + 1]
    <2>1. DOMAIN Tail(Asked(b)) = 1 .. Len(Tail(Asked(b)))
      BY <1>2, <1>3, TailFacts, LenProperties
    <2>2. Len(Tail(Asked(b))) = Len(b) - 1
      BY <1>1, <1>2, <1>3, HeadTailProperties
    <2>. QED
      BY <1>2, <1>3, <2>1, <2>2, TailFacts
  <1>5. /\ Asked(Tail(b)) \in Seq(Nat) /\ Len(Asked(Tail(b))) = Len(b) - 1
        /\ \A i \in 1 .. Len(b) - 1 :
             Asked(Tail(b))[i] = IF Tail(b)[i].kind = "heavy" THEN 0
                                 ELSE Tail(b)[i].run
    BY <1>1, AskedFacts
  <1>6. \A i \in 1 .. Len(b) - 1 : Asked(Tail(b))[i] = Tail(Asked(b))[i]
    BY SMTT(30), <1>1, <1>2, <1>4, <1>5
  <1>7. Asked(Tail(b)) = Tail(Asked(b))
    BY <1>4, <1>5, <1>6, SeqEqual
  <1>8. Head(Asked(b)) = IF Head(b).kind = "heavy" THEN 0 ELSE Head(b).run
    BY <1>1, <1>2, <1>4
  <1>9. ASSUME AllUrgent(b)
        PROVE  AllUrgent(Tail(b)) /\ Head(b) \in UrgentAsks
    <2>1. \A i \in 1 .. Len(b) - 1 : i + 1 \in DOMAIN b
      BY <1>1
    <2>2. 1 \in DOMAIN b
      BY <1>1
    <2>3. AllUrgent(Tail(b))
      BY <1>1, <1>9, <2>1 DEF AllUrgent
    <2>4. Head(b).kind = "urgent"
      BY <1>1, <1>9, <2>2 DEF AllUrgent
    <2>. QED
      BY <1>1, <2>3, <2>4 DEF HeavyAsk, UrgentAsks
  <1>. QED
    BY <1>1, <1>3, <1>7, <1>8, <1>9

LEMMA AskedAppend ==
  ASSUME NEW b \in Seq(UrgentAsks \cup {HeavyAsk}), NEW n \in Nat
  PROVE  LET c == Append(b, Result("urgent", n))
         IN /\ c \in Seq(UrgentAsks \cup {HeavyAsk}) /\ c # <<>>
            /\ Asked(c) = Append(Asked(b), n)
            /\ AllUrgent(b) => AllUrgent(c)
            /\ b # <<>> => Head(c) = Head(b)
                           /\ Tail(c) = Append(Tail(b), Result("urgent", n))
  <1>. DEFINE S == UrgentAsks \cup {HeavyAsk}
              r == Result("urgent", n)
              c == Append(b, r)
  <1>1. r \in UrgentAsks /\ r \in S /\ r.kind = "urgent" /\ r.run = n
    BY DEF Result, UrgentAsks
  <1>2. /\ c \in Seq(S) /\ Len(c) = Len(b) + 1
        /\ \A i \in 1 .. Len(b) : c[i] = b[i]
        /\ c[Len(b) + 1] = r
    BY <1>1, AppendProperties
  <1>3. /\ Len(b) \in Nat /\ DOMAIN b = 1 .. Len(b)
        /\ DOMAIN c = 1 .. Len(b) + 1
    BY <1>2, LenProperties
  <1>. HIDE DEF r, c
  <1>4. c # <<>>
    BY <1>2, <1>3, EmptySeq
  <1>5. /\ Asked(b) \in Seq(Nat) /\ Len(Asked(b)) = Len(b)
        /\ \A i \in 1 .. Len(b) :
             Asked(b)[i] = IF b[i].kind = "heavy" THEN 0 ELSE b[i].run
    BY <1>3, AskedFacts
  <1>6. /\ Asked(c) \in Seq(Nat) /\ Len(Asked(c)) = Len(b) + 1
        /\ \A i \in 1 .. Len(b) + 1 :
             Asked(c)[i] = IF c[i].kind = "heavy" THEN 0 ELSE c[i].run
    BY <1>2, <1>3, AskedFacts
  <1>7. /\ Append(Asked(b), n) \in Seq(Nat)
        /\ Len(Append(Asked(b), n)) = Len(b) + 1
        /\ \A i \in 1 .. Len(b) : Append(Asked(b), n)[i] = Asked(b)[i]
        /\ Append(Asked(b), n)[Len(b) + 1] = n
    BY <1>5, AppendProperties
  <1>8. \A i \in 1 .. Len(b) + 1 : Asked(c)[i] = Append(Asked(b), n)[i]
    <2>1. ASSUME NEW i \in 1 .. Len(b)
          PROVE  Asked(c)[i] = Append(Asked(b), n)[i]
      <3>1. i \in 1 .. Len(b) + 1
        BY <1>3
      <3>2. c[i] = b[i]
        BY <1>2
      <3>3. Asked(c)[i] = IF b[i].kind = "heavy" THEN 0 ELSE b[i].run
        BY <1>6, <3>1, <3>2
      <3>. QED
        BY <1>5, <1>7, <3>3
    <2>2. Asked(c)[Len(b) + 1] = n
      BY <1>1, <1>2, <1>3, <1>6
    <2>. QED
      BY <1>3, <1>7, <2>1, <2>2
  <1>9. Asked(c) = Append(Asked(b), n)
    BY <1>6, <1>7, <1>8, SeqEqual
  <1>10. AllUrgent(b) => AllUrgent(c)
    BY <1>1, <1>2, <1>3 DEF AllUrgent
  <1>11. ASSUME b # <<>>
         PROVE  Head(c) = Head(b) /\ Tail(c) = Append(Tail(b), r)
    BY <1>1, <1>11, HeadTailAppend DEF c
  <1>. QED
    BY <1>2, <1>4, <1>9, <1>10, <1>11 DEF c, r

LEMMA WorkerFields ==
  ASSUME NEW md, NEW v \in WorkersOf(md)
  PROVE  /\ v.inbox \in Seq(UrgentAsks \cup {HeavyAsk})
         /\ v.queue \in Seq(Nat) /\ v.served \in Seq(Nat)
         /\ v.progress \in Nat /\ v.chunks \in Nat /\ v.yields \in Nat
         /\ v.preemptions \in Nat /\ v.posted \in Seq(Posts(md))
  BY DEF WorkersOf

LEMMA WorkerSets ==
  ASSUME NEW md, NEW v \in WorkersOf(md)
  PROVE  /\ \A x \in Seq(UrgentAsks \cup {HeavyAsk}) :
              [v EXCEPT !.inbox = x] \in WorkersOf(md)
         /\ \A x \in Seq(Nat) : /\ [v EXCEPT !.queue = x] \in WorkersOf(md)
                                /\ [v EXCEPT !.served = x] \in WorkersOf(md)
         /\ \A x \in Nat : /\ [v EXCEPT !.progress = x] \in WorkersOf(md)
                           /\ [v EXCEPT !.chunks = x] \in WorkersOf(md)
                           /\ [v EXCEPT !.yields = x] \in WorkersOf(md)
                           /\ [v EXCEPT !.preemptions = x] \in WorkersOf(md)
         /\ \A x \in Seq(Posts(md)) :
              [v EXCEPT !.posted = x] \in WorkersOf(md)
         /\ \A x \in BOOLEAN : /\ [v EXCEPT !.payload = x] \in WorkersOf(md)
                               /\ [v EXCEPT !.yielding = x] \in WorkersOf(md)
  BY Zenon DEF WorkersOf

LEMMA PostsFacts ==
  ASSUME NEW md, NEW p \in Seq(Posts(md))
  PROVE  /\ \A n \in Nat : /\ Append(p, Result("urgent", n)) \in Seq(Posts(md))
                           /\ Append(p, Result("ack", n)) \in Seq(Posts(md))
         /\ \A m \in HeavyAnswers(md) : Append(p, m) \in Seq(Posts(md))
  <1>1. \A n \in Nat : Result("urgent", n) \in Posts(md)
                       /\ Result("ack", n) \in Posts(md)
    BY DEF Result, Posts, Answers
  <1>2. \A m \in HeavyAnswers(md) : m \in Posts(md)
    BY DEF Posts
  <1>. QED
    BY <1>1, <1>2, AppendProperties

LEMMA PostUrgentIfPendingKeeps ==
  ASSUME NEW md, NEW v \in WorkersOf(md),
         InTurn(v), Below(v.served, v.queue)
  PROVE  LET u == PostUrgentIfPending(v)
         IN /\ u \in WorkersOf(md) /\ InTurn(u) /\ Below(u.served, u.queue)
            /\ u.inbox = v.inbox /\ u.payload = v.payload
            /\ u.yielding = v.yielding /\ u.progress = v.progress
            /\ u.chunks = v.chunks /\ u.yields = v.yields
            /\ v.preemptions = Len(v.served) => u.preemptions = Len(u.served)
            /\ \A n \in Nat : Before(v, n) => Before(u, n)
  <1>1. CASE v.queue = <<>>
    BY <1>1 DEF PostUrgentIfPending
  <1>2. CASE v.queue # <<>>
    <2>. DEFINE q == Tail(v.queue)
                s == Append(v.served, Head(v.queue))
                p == Append(v.posted, Result("urgent", Head(v.queue)))
                c == v.preemptions + 1
                u == PostUrgentIfPending(v)
                a == Asked(v.inbox)
    <2>1. u = [v EXCEPT !.queue = q, !.preemptions = c, !.served = s,
                        !.posted = p]
      BY <1>2 DEF PostUrgentIfPending
    <2>2. /\ q \in Seq(Nat) /\ s \in Seq(Nat) /\ p \in Seq(Posts(md))
          /\ c \in Nat /\ a \in Seq(Nat) /\ Head(v.queue) \in Nat
          /\ Len(s) = Len(v.served) + 1
      BY <1>2, WorkerFields, TailFacts, AppendProperties, PostsFacts,
         AskedFacts
    <2>3. /\ Order(s, q, a) /\ Below(s, q)
          /\ \A n \in Nat : Under(v.served, n) /\ Under(v.queue, n)
               => Under(s, n) /\ Under(q, n)
      BY <1>2, <2>2, WorkerFields, ServeFirst DEF InTurn
    <2>. HIDE DEF q, s, p, c, u
    <2>4. /\ u.inbox = v.inbox /\ u.payload = v.payload
          /\ u.yielding = v.yielding /\ u.progress = v.progress
          /\ u.chunks = v.chunks /\ u.yields = v.yields
          /\ u.queue = q /\ u.served = s /\ u.preemptions = c
      BY <2>1, Zenon DEF WorkersOf
    <2>5. u \in WorkersOf(md)
      BY <2>1, <2>2, Zenon DEF WorkersOf
    <2>6. v.preemptions = Len(v.served) => u.preemptions = Len(u.served)
      BY <2>2, <2>4 DEF c
    <2>7. InTurn(u) /\ Below(u.served, u.queue)
      BY <2>3, <2>4 DEF InTurn
    <2>8. \A n \in Nat : Before(v, n) => Before(u, n)
      BY <2>3, <2>4 DEF Before
    <2>. QED
      BY <2>4, <2>5, <2>6, <2>7, <2>8 DEF u
  <1>. QED
    BY <1>1, <1>2

LEMMA CompleteKeeps ==
  ASSUME NEW md, NEW v \in WorkersOf(md), NEW w,
         InTurn(v), Below(v.served, v.queue), AllUrgent(v.inbox),
         ~v.yielding, HeavyResult(w, v) \in HeavyAnswers(md)
  PROVE  LET u == Complete(w, v)
         IN Good(u, md) /\ \A n \in Nat : Before(v, n) => Before(u, n)
  <1>. DEFINE p == Append(v.posted, HeavyResult(w, v))
              x == [v EXCEPT !.posted = p]
              y == PostUrgentIfPending(x)
              u == [y EXCEPT !.payload = FALSE]
  <1>1. p \in Seq(Posts(md))
    BY WorkerFields, PostsFacts
  <1>2. Complete(w, v) = u
    BY DEF Complete
  <1>. HIDE DEF p
  <1>3. /\ x \in WorkersOf(md) /\ x.inbox = v.inbox /\ x.served = v.served
        /\ x.queue = v.queue /\ x.yielding = v.yielding
    BY <1>1, Zenon DEF WorkersOf
  <1>. HIDE DEF x
  <1>4. InTurn(x) /\ Below(x.served, x.queue)
    BY <1>3 DEF InTurn
  <1>5. /\ y \in WorkersOf(md) /\ InTurn(y) /\ Below(y.served, y.queue)
        /\ y.inbox = x.inbox /\ y.yielding = x.yielding
        /\ \A n \in Nat : Before(x, n) => Before(y, n)
    BY <1>3, <1>4, PostUrgentIfPendingKeeps
  <1>. HIDE DEF y
  <1>6. /\ u \in WorkersOf(md) /\ u.inbox = y.inbox /\ u.served = y.served
        /\ u.queue = y.queue /\ u.yielding = y.yielding /\ u.payload = FALSE
    BY <1>5, Zenon DEF WorkersOf
  <1>. HIDE DEF u
  <1>7. InTurn(u) /\ Below(u.served, u.queue)
    BY <1>5, <1>6 DEF InTurn
  <1>8. Range(u.served) \cap Range(u.queue) = {}
    BY <1>6, <1>7, WorkerFields, BelowDisjoint
  <1>9. Done(u)
    BY <1>3, <1>5, <1>6, <1>8, Zenon DEF Done
  <1>10. \A n \in Nat : Before(v, n) => Before(u, n)
    <2>1. \A n \in Nat : Before(v, n) => Before(x, n)
      BY <1>3 DEF Before
    <2>2. \A n \in Nat : Before(y, n) => Before(u, n)
      BY <1>6 DEF Before
    <2>. QED
      BY <1>5, <2>1, <2>2
  <1>. QED
    BY <1>2, <1>6, <1>7, <1>9, <1>10 DEF Good

LEMMA ProcessKeeps ==
  ASSUME NEW md, NEW v \in WorkersOf(md), NEW w \in Nat,
         InTurn(v), Ready(v, md), ~v.yielding
  PROVE  LET u == ProcessScheduledChunk(w, v)
         IN Good(u, md) /\ \A n \in Nat : Before(v, n) => Before(u, n)
  <1>. DEFINE f == PostUrgentIfPending(v)
              next == IF v.progress + ChunkSize < Total
                      THEN v.progress + ChunkSize ELSE Total
              x == [f EXCEPT !.progress = next, !.chunks = @ + 1]
              y == [x EXCEPT !.yields = @ + 1, !.yielding = TRUE]
  <1>1. ProcessScheduledChunk(w, v) = IF next = Total THEN Complete(w, x)
                                      ELSE y
    BY DEF ProcessScheduledChunk
  <1>2. /\ f \in WorkersOf(md) /\ InTurn(f) /\ Below(f.served, f.queue)
        /\ f.inbox = v.inbox /\ f.payload = v.payload
        /\ f.yielding = v.yielding /\ f.chunks = v.chunks
        /\ f.yields = v.yields /\ f.preemptions = Len(f.served)
        /\ \A n \in Nat : Before(v, n) => Before(f, n)
    BY PostUrgentIfPendingKeeps DEF Ready, Counted
  <1>. DEFINE c == v.chunks
  <1>3. /\ c \in Nat /\ v.progress \in Nat /\ next \in Nat
        /\ v.yields = c /\ v.progress = c * ChunkSize
        /\ c * ChunkSize < Total /\ md = "scheduled"
        /\ (c + 1) * ChunkSize = c * ChunkSize + ChunkSize
        /\ next = Total => (c + 1) * ChunkSize >= Total
        /\ next # Total => next = (c + 1) * ChunkSize /\ next < Total
    <2>1. c \in Nat /\ v.progress \in Nat
      BY WorkerFields
    <2>2. /\ v.yields = c /\ v.progress = c * ChunkSize
          /\ c * ChunkSize < Total /\ md = "scheduled"
      BY DEF Ready, Counted
    <2>3. (c + 1) * ChunkSize = c * ChunkSize + ChunkSize
      BY <2>1
    <2>. HIDE DEF c
    <2>. QED
      BY <2>1, <2>2, <2>3
  <1>4. next \in Nat /\ c + 1 \in Nat
    BY <1>3
  <1>. HIDE DEF next, f
  <1>5. x = [f EXCEPT !.progress = next, !.chunks = c + 1]
    BY <1>2
  <1>6. /\ x \in WorkersOf(md) /\ x.inbox = f.inbox /\ x.served = f.served
        /\ x.queue = f.queue /\ x.yielding = f.yielding
        /\ x.payload = f.payload /\ x.progress = next /\ x.chunks = c + 1
        /\ x.yields = f.yields /\ x.preemptions = f.preemptions
    BY <1>2, <1>4, <1>5, Zenon DEF WorkersOf
  <1>. HIDE DEF x
  <1>7. InTurn(x) /\ Below(x.served, x.queue) /\ AllUrgent(x.inbox)
    BY <1>2, <1>6 DEF InTurn, Ready
  <1>8. \A n \in Nat : Before(v, n) => Before(x, n)
    BY <1>2, <1>6 DEF Before
  <1>9. CASE next = Total
    <2>1. HeavyResult(w, x) \in HeavyAnswers(md)
      <3>. DEFINE m == HeavyResult(w, x)
      <3>1. /\ m.yields = c /\ m.chunks = c + 1
            /\ m.preemptions = Len(m.before)
        BY <1>2, <1>3, <1>6 DEF HeavyResult
      <3>2. Telling(m, md)
        <4>1. c + 1 - 1 = c
          BY <1>3
        <4>2. (c + 1) * ChunkSize >= Total /\ (c + 1 - 1) * ChunkSize < Total
          BY <1>3, <1>9, <4>1
        <4>. HIDE DEF c, m
        <4>. QED
          BY <1>3, <3>1, <4>1, <4>2 DEF Telling
      <3>3. m \in [kind : {"heavy"}, run : Nat, chunks : Nat, yields : Nat,
                   preemptions : Nat, before : Seq(Nat)]
        BY <1>6, WorkerFields DEF HeavyResult
      <3>. QED
        BY <3>2, <3>3 DEF HeavyAnswers
    <2>2. ~x.yielding
      BY <1>2, <1>6
    <2>3. /\ Good(Complete(w, x), md)
          /\ \A n \in Nat : Before(x, n) => Before(Complete(w, x), n)
      BY <1>6, <1>7, <2>1, <2>2, CompleteKeeps
    <2>. QED
      BY <1>1, <1>8, <1>9, <2>3
  <1>10. CASE next # Total
    <2>1. y = [x EXCEPT !.yields = c + 1, !.yielding = TRUE]
      BY <1>2, <1>3, <1>6
    <2>2. /\ y \in WorkersOf(md) /\ y.inbox = x.inbox
          /\ y.served = x.served /\ y.queue = x.queue /\ y.yielding = TRUE
          /\ y.payload = x.payload /\ y.progress = x.progress
          /\ y.chunks = x.chunks /\ y.yields = c + 1
          /\ y.preemptions = x.preemptions
      BY <1>4, <1>6, <2>1, Zenon DEF WorkersOf
    <2>. HIDE DEF y
    <2>3. Counted(y, md)
      BY <1>2, <1>3, <1>6, <1>10, <2>2 DEF Counted
    <2>4. y.payload /\ AllUrgent(y.inbox) /\ Below(y.served, y.queue)
      BY <1>2, <1>6, <1>7, <2>2 DEF Ready
    <2>5. Ready(y, md)
      BY <2>3, <2>4 DEF Ready
    <2>6. InTurn(y)
      BY <1>7, <2>2 DEF InTurn
    <2>7. \A n \in Nat : Before(v, n) => Before(y, n)
      BY <1>8, <2>2 DEF Before
    <2>8. Good(y, md)
      BY <2>2, <2>5, <2>6, Zenon DEF Good
    <2>. QED
      BY <1>1, <1>10, <2>7, <2>8 DEF y
  <1>. QED
    BY <1>9, <1>10

\* The first look at a worker's inbox, and what is there to be done.
Looked(v) == [v EXCEPT !.inbox = Tail(@)]

LEMMA OnHeavyKeeps ==
  ASSUME mode \in {"scheduled", "monolithic"},
         NEW v \in WorkersOf(mode), NEW w \in Nat, InTurn(v), Waiting(v)
  PROVE  LET u == OnHeavy(w, Looked(v))
         IN Good(u, mode) /\ \A n \in Nat : Before(v, n) => Before(u, n)
  <1>. DEFINE a == Asked(v.inbox)
              b == Tail(v.inbox)
              x == Looked(v)
  <1>1. /\ b \in Seq(UrgentAsks \cup {HeavyAsk}) /\ AllUrgent(b)
        /\ a \in Seq(Nat) /\ a # <<>> /\ Asked(b) = Tail(a)
    BY WorkerFields, AskedTail, AskedFacts DEF Waiting
  <1>2. x = [v EXCEPT !.inbox = b]
    BY DEF Looked
  <1>3. Increasing(Tail(a)) /\ \A n \in Nat : Under(a, n) => Under(Tail(a), n)
    <2>1. Increasing(a)
      BY DEF InTurn, Order
    <2>2. \A i \in DOMAIN Tail(a) : i + 1 \in DOMAIN a
                                    /\ Tail(a)[i] = a[i + 1]
      BY <1>1, TailFacts
    <2>. QED
      BY <1>1, <2>1, <2>2, IncreasingTail DEF Under
  <1>. HIDE DEF x, a, b
  <1>4. /\ x \in WorkersOf(mode) /\ x.inbox = b /\ x.payload = v.payload
        /\ x.yielding = v.yielding /\ x.progress = v.progress
        /\ x.chunks = v.chunks /\ x.yields = v.yields
        /\ x.preemptions = v.preemptions /\ x.served = v.served
        /\ x.queue = v.queue /\ x.posted = v.posted
    BY <1>1, <1>2, Zenon DEF WorkersOf
  <1>5. /\ ~x.payload /\ ~x.yielding /\ x.progress = 0 /\ x.chunks = 0
        /\ x.yields = 0 /\ x.preemptions = 0 /\ x.served = <<>>
        /\ x.queue = <<>>
    BY <1>4 DEF Waiting
  <1>6. InTurn(x) /\ Below(x.served, x.queue)
    <2>1. /\ Increasing(<<>>) /\ Below(<<>>, <<>>)
          /\ Below(<<>>, Asked(x.inbox))
      BY DEF Increasing, Below
    <2>2. Increasing(Asked(x.inbox))
      BY <1>1, <1>3, <1>4
    <2>. QED
      BY <1>5, <2>1, <2>2 DEF InTurn, Order
  <1>7. \A n \in Nat : Before(v, n) => Before(x, n)
    BY <1>1, <1>3, <1>4 DEF Before, a
  <1>8. CASE mode = "monolithic"
    <2>. DEFINE d == [x EXCEPT !.chunks = 1]
                p == Append(d.posted, HeavyResult(w, d))
                u == [d EXCEPT !.posted = p]
    <2>1. OnHeavy(w, x) = u
      BY <1>8 DEF OnHeavy
    <2>2. /\ d \in WorkersOf(mode) /\ d.inbox = x.inbox
          /\ d.payload = x.payload /\ d.yielding = x.yielding
          /\ d.yields = x.yields /\ d.preemptions = x.preemptions
          /\ d.served = x.served /\ d.queue = x.queue /\ d.chunks = 1
      BY <1>4, Zenon, 1 \in Nat DEF WorkersOf
    <2>. HIDE DEF d
    <2>3. HeavyResult(w, d) \in HeavyAnswers(mode)
      <3>. DEFINE m == HeavyResult(w, d)
      <3>1. m \in [kind : {"heavy"}, run : Nat, chunks : Nat, yields : Nat,
                   preemptions : Nat, before : Seq(Nat)]
        BY <2>2, WorkerFields DEF HeavyResult
      <3>2. /\ m.yields = 0 /\ m.chunks = 1 /\ m.preemptions = 0
            /\ m.before = <<>>
        BY <1>5, <2>2 DEF HeavyResult
      <3>3. Len(m.before) = 0
        BY <3>2, EmptySeq
      <3>4. Telling(m, mode)
        BY <1>8, <3>2, <3>3 DEF Telling
      <3>. QED
        BY <3>1, <3>4 DEF HeavyAnswers
    <2>4. p \in Seq(Posts(mode))
      BY <2>2, <2>3, WorkerFields, PostsFacts
    <2>. HIDE DEF p
    <2>5. /\ u \in WorkersOf(mode) /\ u.inbox = d.inbox
          /\ u.payload = d.payload /\ u.yielding = d.yielding
          /\ u.served = d.served /\ u.queue = d.queue
      BY <2>2, <2>4, Zenon DEF WorkersOf
    <2>. HIDE DEF u
    <2>6. InTurn(u)
      BY <1>6, <2>2, <2>5 DEF InTurn
    <2>7. Range(u.served) \cap Range(u.queue) = {}
      BY <1>5, <2>2, <2>5 DEF Range
    <2>8. ~u.payload /\ ~u.yielding /\ AllUrgent(u.inbox)
      BY <1>1, <1>4, <1>5, <2>2, <2>5
    <2>9. Done(u)
      BY <2>7, <2>8, Zenon DEF Done
    <2>10. \A n \in Nat : Before(v, n) => Before(u, n)
      BY <1>7, <2>2, <2>5 DEF Before
    <2>. QED
      BY <2>1, <2>5, <2>6, <2>9, <2>10 DEF Good, x
  <1>9. CASE mode # "monolithic"
    <2>. DEFINE y == [x EXCEPT !.payload = TRUE]
    <2>1. OnHeavy(w, x) = ProcessScheduledChunk(w, y)
      BY <1>9 DEF OnHeavy
    <2>2. /\ y \in WorkersOf(mode) /\ y.inbox = x.inbox
          /\ y.payload = TRUE /\ y.yielding = x.yielding
          /\ y.progress = x.progress /\ y.chunks = x.chunks
          /\ y.yields = x.yields /\ y.preemptions = x.preemptions
          /\ y.served = x.served /\ y.queue = x.queue
      BY <1>4, Zenon DEF WorkersOf
    <2>. HIDE DEF y
    <2>3. InTurn(y) /\ Below(y.served, y.queue) /\ AllUrgent(y.inbox)
      BY <1>1, <1>4, <1>6, <2>2 DEF InTurn
    <2>4. Counted(y, mode)
      <3>1. Len(y.served) = 0
        BY <1>5, <2>2, EmptySeq
      <3>2. y.progress = 0 /\ y.chunks = 0 /\ y.yields = 0
            /\ y.preemptions = 0
        BY <1>5, <2>2
      <3>3. 0 = 0 * ChunkSize /\ 0 < Total
        OBVIOUS
      <3>. QED
        BY <1>9, <3>1, <3>2, <3>3 DEF Counted
    <2>5. Ready(y, mode) /\ ~y.yielding
      BY <1>5, <2>2, <2>3, <2>4, Zenon DEF Ready
    <2>6. /\ Good(ProcessScheduledChunk(w, y), mode)
          /\ \A n \in Nat : Before(y, n)
               => Before(ProcessScheduledChunk(w, y), n)
      BY <2>2, <2>3, <2>5, ProcessKeeps
    <2>7. \A n \in Nat : Before(v, n) => Before(y, n)
      BY <1>7, <2>2 DEF Before
    <2>. QED
      BY <2>1, <2>6, <2>7 DEF x
  <1>. QED
    BY <1>8, <1>9

LEMMA OnUrgentKeeps ==
  ASSUME NEW md, NEW v \in WorkersOf(md), InTurn(v),
         v.inbox # <<>>, AllUrgent(v.inbox),
         (Ready(v, md) /\ v.yielding) \/ Done(v)
  PROVE  LET u == OnUrgent(Looked(v), Head(v.inbox).run)
         IN /\ Head(v.inbox).kind = "urgent"
            /\ Good(u, md) /\ \A n \in Nat : Before(v, n) => Before(u, n)
  <1>. DEFINE a == Asked(v.inbox)
              b == Tail(v.inbox)
              r == Head(v.inbox).run
              x == [v EXCEPT !.inbox = b]
              p == Append(x.posted, Result("ack", r))
              y == [x EXCEPT !.posted = p]
  <1>1. /\ b \in Seq(UrgentAsks \cup {HeavyAsk}) /\ AllUrgent(b)
        /\ a \in Seq(Nat) /\ a # <<>> /\ Asked(b) = Tail(a)
        /\ Head(v.inbox) \in UrgentAsks
        /\ Head(a) = IF Head(v.inbox).kind = "heavy" THEN 0 ELSE r
    BY WorkerFields, AskedTail, AskedFacts
  <1>2. Head(v.inbox).kind = "urgent" /\ r \in Nat /\ Head(a) = r
    BY <1>1 DEF UrgentAsks
  <1>3. Looked(v) = x
    BY DEF Looked
  <1>. HIDE DEF b, r, a
  <1>4. /\ x \in WorkersOf(md) /\ x.inbox = b /\ x.payload = v.payload
        /\ x.yielding = v.yielding /\ x.progress = v.progress
        /\ x.chunks = v.chunks /\ x.yields = v.yields
        /\ x.preemptions = v.preemptions /\ x.served = v.served
        /\ x.queue = v.queue
    BY <1>1, Zenon DEF WorkersOf
  <1>. HIDE DEF x
  <1>5. p \in Seq(Posts(md))
    BY <1>2, <1>4, WorkerFields, PostsFacts
  <1>. HIDE DEF p
  <1>6. /\ y \in WorkersOf(md) /\ y.inbox = b /\ y.payload = v.payload
        /\ y.yielding = v.yielding /\ y.progress = v.progress
        /\ y.chunks = v.chunks /\ y.yields = v.yields
        /\ y.preemptions = v.preemptions /\ y.served = v.served
        /\ y.queue = v.queue
    BY <1>4, <1>5, Zenon DEF WorkersOf
  <1>. HIDE DEF y
  <1>7. /\ Order(v.served, v.queue, a)
        /\ v.served \in Seq(Nat) /\ v.queue \in Seq(Nat)
    BY WorkerFields DEF InTurn, a
  <1>8. CASE Ready(v, md) /\ v.yielding
    <2>. DEFINE q == Append(v.queue, r)
                u == [y EXCEPT !.queue = q]
    <2>1. OnUrgent(Looked(v), r) = u
      <3>1. x.payload
        BY <1>4, <1>8 DEF Ready
      <3>2. OnUrgent(x, r) = [y EXCEPT !.queue = Append(@, r)]
        BY <3>1, Zenon DEF OnUrgent, y, p
      <3>3. y.queue = v.queue
        BY <1>6
      <3>. QED
        BY <1>3, <3>2, <3>3
    <2>2. /\ q \in Seq(Nat) /\ Order(v.served, q, Tail(a))
          /\ Below(v.served, q)
          /\ \A n \in Nat : Under(v.queue, n) /\ Under(a, n)
               => Under(q, n) /\ Under(Tail(a), n)
      <3>1. Below(v.served, v.queue)
        BY <1>8 DEF Ready
      <3>. QED
        BY <1>1, <1>2, <1>7, <3>1, QueueAsked, AppendProperties
    <2>. HIDE DEF q
    <2>3. /\ u \in WorkersOf(md) /\ u.inbox = b /\ u.payload = v.payload
          /\ u.yielding = v.yielding /\ u.progress = v.progress
          /\ u.chunks = v.chunks /\ u.yields = v.yields
          /\ u.preemptions = v.preemptions /\ u.served = v.served
          /\ u.queue = q
      BY <1>6, <2>2, Zenon DEF WorkersOf
    <2>. HIDE DEF u
    <2>4. InTurn(u) /\ Below(u.served, u.queue) /\ AllUrgent(u.inbox)
      BY <1>1, <2>2, <2>3 DEF InTurn
    <2>5. Counted(u, md)
      BY <1>8, <2>3 DEF Counted, Ready
    <2>6. u.payload /\ u.yielding
      BY <1>8, <2>3 DEF Ready
    <2>7. Good(u, md)
      BY <2>3, <2>4, <2>5, <2>6, Zenon DEF Good, Ready
    <2>8. \A n \in Nat : Before(v, n) => Before(u, n)
      BY <1>1, <2>2, <2>3 DEF Before, a
    <2>. QED
      BY <1>2, <2>1, <2>7, <2>8 DEF r
  <1>9. CASE Done(v)
    <2>. DEFINE s == Append(v.served, r)
                z == Append(y.posted, Result("urgent", r))
                u == [y EXCEPT !.served = s, !.posted = z]
    <2>1. OnUrgent(Looked(v), r) = u
      <3>1. ~x.payload
        BY <1>4, <1>9 DEF Done
      <3>2. OnUrgent(x, r)
              = [y EXCEPT !.served = Append(@, r),
                          !.posted = Append(@, Result("urgent", r))]
        BY <3>1, Zenon DEF OnUrgent, y, p
      <3>3. y.served = v.served
        BY <1>6
      <3>. QED
        BY <1>3, <3>2, <3>3
    <2>2. /\ s \in Seq(Nat) /\ Order(s, v.queue, Tail(a))
          /\ Range(s) \cap Range(v.queue) = {}
          /\ \A n \in Nat : Under(v.served, n) /\ Under(a, n)
               => Under(s, n) /\ Under(Tail(a), n)
      <3>1. Range(v.served) \cap Range(v.queue) = {}
        BY <1>9 DEF Done
      <3>. QED
        BY <1>1, <1>2, <1>7, <3>1, ServeAsked, AppendProperties
    <2>3. z \in Seq(Posts(md))
      BY <1>2, <1>6, WorkerFields, PostsFacts
    <2>. HIDE DEF s, z
    <2>4. /\ u \in WorkersOf(md) /\ u.inbox = b /\ u.payload = v.payload
          /\ u.yielding = v.yielding /\ u.served = s /\ u.queue = v.queue
      BY <1>6, <2>2, <2>3, Zenon DEF WorkersOf
    <2>. HIDE DEF u
    <2>5. InTurn(u) /\ AllUrgent(u.inbox)
          /\ Range(u.served) \cap Range(u.queue) = {}
      BY <1>1, <2>2, <2>4 DEF InTurn
    <2>6. ~u.payload /\ ~u.yielding
      BY <1>9, <2>4 DEF Done
    <2>7. Good(u, md)
      BY <2>4, <2>5, <2>6, Zenon DEF Good, Done
    <2>8. \A n \in Nat : Before(v, n) => Before(u, n)
      BY <1>1, <2>2, <2>4 DEF Before, a
    <2>. QED
      BY <1>2, <2>1, <2>7, <2>8 DEF r
  <1>. QED
    BY <1>8, <1>9

LEMMA AskKeeps ==
  ASSUME NEW md, NEW v, Good(v, md), NEW n \in Nat, Before(v, n)
  PROVE  LET u == [v EXCEPT !.inbox = Append(@, Result("urgent", n))]
         IN /\ Good(u, md)
            /\ \A m \in Nat : Before(v, m) /\ n < m => Before(u, m)
  <1>. DEFINE b == v.inbox
              c == Append(b, Result("urgent", n))
              u == [v EXCEPT !.inbox = c]
  <1>1. /\ v \in WorkersOf(md) /\ InTurn(v)
        /\ b \in Seq(UrgentAsks \cup {HeavyAsk})
        /\ v.served \in Seq(Nat) /\ v.queue \in Seq(Nat)
    BY WorkerFields DEF Good
  <1>2. /\ c \in Seq(UrgentAsks \cup {HeavyAsk}) /\ c # <<>>
        /\ Asked(c) = Append(Asked(b), n)
        /\ AllUrgent(b) => AllUrgent(c)
        /\ b # <<>> => Head(c) = Head(b)
                       /\ Tail(c) = Append(Tail(b), Result("urgent", n))
    BY <1>1, AskedAppend
  <1>3. b # <<>> /\ AllUrgent(Tail(b)) => AllUrgent(Tail(c))
    <2>. SUFFICES ASSUME b # <<>>, AllUrgent(Tail(b))
                  PROVE  AllUrgent(Tail(c))
      OBVIOUS
    <2>1. Tail(b) \in Seq(UrgentAsks \cup {HeavyAsk})
      BY <1>1, AskedTail
    <2>2. AllUrgent(Append(Tail(b), Result("urgent", n)))
      BY <2>1, AskedAppend
    <2>. QED
      BY <1>2, <2>2
  <1>4. /\ Order(v.served, v.queue, Append(Asked(b), n))
        /\ \A m \in Nat : Under(Asked(b), m) /\ n < m
             => Under(Append(Asked(b), n), m)
    BY <1>1, AskedFacts, AskLater DEF InTurn, Before
  <1>. HIDE DEF c
  <1>5. /\ u \in WorkersOf(md) /\ u.inbox = c /\ u.payload = v.payload
        /\ u.yielding = v.yielding /\ u.progress = v.progress
        /\ u.chunks = v.chunks /\ u.yields = v.yields
        /\ u.preemptions = v.preemptions /\ u.served = v.served
        /\ u.queue = v.queue
    BY <1>1, <1>2, Zenon DEF WorkersOf
  <1>. HIDE DEF u
  <1>6. InTurn(u)
    BY <1>2, <1>4, <1>5 DEF InTurn
  <1>7. Waiting(v) => Waiting(u)
    <2>. SUFFICES ASSUME Waiting(v) PROVE Waiting(u)
      OBVIOUS
    <2>1. u.inbox # <<>> /\ Head(u.inbox) = HeavyAsk
          /\ AllUrgent(Tail(u.inbox))
      BY <1>2, <1>3, <1>5 DEF Waiting
    <2>2. /\ ~u.payload /\ ~u.yielding
          /\ u.progress = 0 /\ u.chunks = 0 /\ u.yields = 0
          /\ u.preemptions = 0 /\ u.served = <<>> /\ u.queue = <<>>
      BY <1>5 DEF Waiting
    <2>. QED
      BY <2>1, <2>2 DEF Waiting
  <1>8. Ready(v, md) => Ready(u, md)
    <2>. SUFFICES ASSUME Ready(v, md) PROVE Ready(u, md)
      OBVIOUS
    <2>1. u.payload /\ AllUrgent(u.inbox) /\ Below(u.served, u.queue)
      BY <1>2, <1>5 DEF Ready
    <2>2. Counted(u, md)
      BY <1>5 DEF Ready, Counted
    <2>. QED
      BY <2>1, <2>2 DEF Ready
  <1>9. Done(v) => Done(u)
    BY <1>2, <1>5, Zenon DEF Done
  <1>10. Good(u, md)
    BY <1>5, <1>6, <1>7, <1>8, <1>9, Zenon DEF Good
  <1>11. \A m \in Nat : Before(v, m) /\ n < m => Before(u, m)
    BY <1>2, <1>4, <1>5 DEF Before
  <1>. QED
    BY <1>10, <1>11 DEF u, c

LEMMA NewWorkerIsGood ==
  ASSUME NEW md
  PROVE  Good(NewWorker, md) /\ \A n \in Nat \ {0} : Before(NewWorker, n)
  <1>. DEFINE v == NewWorker
  <1>1. /\ v.inbox = <<HeavyAsk>> /\ v.payload = FALSE
        /\ v.yielding = FALSE /\ v.progress = 0 /\ v.chunks = 0
        /\ v.yields = 0 /\ v.preemptions = 0 /\ v.served = <<>>
        /\ v.queue = <<>> /\ v.posted = <<>>
    BY DEF NewWorker, HeavyAsk
  <1>2. v \in WorkersOf(md)
    <2>1. <<HeavyAsk>> \in Seq(UrgentAsks \cup {HeavyAsk})
      OBVIOUS
    <2>2. <<>> \in Seq(Nat) /\ <<>> \in Seq(Posts(md))
      OBVIOUS
    <2>3. 0 \in Nat
      OBVIOUS
    <2>. QED
      BY <2>1, <2>2, <2>3, Zenon DEF WorkersOf, NewWorker, HeavyAsk
  <1>3. Asked(v.inbox) = [i \in {1} |-> 0]
    BY <1>1 DEF Asked, HeavyAsk
  <1>4. InTurn(v)
    BY <1>1, <1>3 DEF InTurn, Order, Increasing, Below
  <1>5. Waiting(v)
    <2>1. <<HeavyAsk>> # <<>> /\ Head(<<HeavyAsk>>) = HeavyAsk
          /\ Tail(<<HeavyAsk>>) = <<>> /\ AllUrgent(<<>>)
      BY DEF AllUrgent
    <2>. QED
      BY <1>1, <2>1 DEF Waiting
  <1>6. \A n \in Nat \ {0} : Before(v, n)
    BY <1>1, <1>3 DEF Before, Under
  <1>. QED
    BY <1>2, <1>4, <1>5, <1>6 DEF Good
-----------------------------------------------------------------------------
(* The page.                                                                *)

\* Requests due come in order, and after all those sent.
InTime(v, t, r) ==
  Before(v, r + 1) /\ \A i \in DOMAIN t : Before(v, t[i])

PageInv ==
  /\ mode \in {"scheduled", "monolithic"}
  /\ runs \in Nat /\ current \in 0 .. runs
  /\ timers \in Seq(Nat) /\ Increasing(timers)
  /\ \A i \in DOMAIN timers : timers[i] \in 1 .. runs
  /\ workers \in Seq(WorkersOf(mode)) /\ Len(workers) = runs
  /\ outbox \in Seq(Seq(Posts(mode))) /\ Len(outbox) = runs
  /\ \A w \in 1 .. runs : /\ Good(workers[w], mode)
                          /\ InTime(workers[w], timers, runs)

LEMMA BecomesKeeps ==
  ASSUME PageInv, NEW w \in 1 .. runs, NEW u, Good(u, mode),
         \A n \in Nat : Before(workers[w], n) => Before(u, n),
         Becomes(w, u)
  PROVE  PageInv'
  <1>. DEFINE z == [u EXCEPT !.posted = <<>>]
  <1>1. u \in WorkersOf(mode) /\ u.posted \in Seq(Posts(mode))
    BY WorkerFields DEF Good
  <1>2. /\ z \in WorkersOf(mode) /\ z.inbox = u.inbox
        /\ z.payload = u.payload
        /\ z.yielding = u.yielding /\ z.progress = u.progress
        /\ z.chunks = u.chunks /\ z.yields = u.yields
        /\ z.preemptions = u.preemptions /\ z.served = u.served
        /\ z.queue = u.queue
    <2>1. <<>> \in Seq(Posts(mode))
      OBVIOUS
    <2>. QED
      BY <1>1, <2>1, Zenon DEF WorkersOf
  <1>3. /\ workers' = [workers EXCEPT ![w] = z]
        /\ outbox' = [outbox EXCEPT ![w] = @ \o u.posted]
        /\ mode' = mode /\ runs' = runs /\ timers' = timers
        /\ current' = current
    BY DEF Becomes, pageVars
  <1>. HIDE DEF z
  <1>4. Good(z, mode)
    <2>1. InTurn(z)
      BY <1>2 DEF Good, InTurn
    <2>2. Waiting(u) => Waiting(z)
      BY <1>2, Zenon DEF Waiting
    <2>3. Ready(u, mode) => Ready(z, mode)
      BY <1>2, Zenon DEF Ready, Counted
    <2>4. Done(u) => Done(z)
      BY <1>2, Zenon DEF Done
    <2>. QED
      BY <1>2, <2>1, <2>2, <2>3, <2>4, Zenon DEF Good
  <1>5. \A n \in Nat : Before(u, n) => Before(z, n)
    BY <1>2 DEF Before
  <1>6. InTime(z, timers, runs)
    <2>1. runs + 1 \in Nat /\ \A i \in DOMAIN timers : timers[i] \in Nat
      BY DEF PageInv
    <2>2. InTime(workers[w], timers, runs)
      BY DEF PageInv
    <2>. QED
      BY <1>5, <2>1, <2>2 DEF InTime
  <1>7. /\ workers' \in Seq(WorkersOf(mode)) /\ Len(workers') = runs
        /\ \A x \in 1 .. runs : workers'[x] = IF x = w THEN z ELSE workers[x]
    BY <1>2, <1>3, ExceptSeq DEF PageInv
  <1>8. outbox' \in Seq(Seq(Posts(mode))) /\ Len(outbox') = runs
    <2>1. w \in 1 .. Len(outbox) /\ outbox[w] \in Seq(Posts(mode))
      BY ElementOfSeq DEF PageInv
    <2>2. outbox[w] \o u.posted \in Seq(Posts(mode))
      BY <1>1, <2>1, ConcatProperties
    <2>. QED
      BY <1>3, <2>1, <2>2, ExceptSeq DEF PageInv
  <1>9. \A x \in 1 .. runs : /\ Good(workers'[x], mode)
                             /\ InTime(workers'[x], timers, runs)
    BY <1>4, <1>6, <1>7 DEF PageInv
  <1>. QED
    BY <1>3, <1>7, <1>8, <1>9 DEF PageInv

LEMMA HandledIsGood ==
  ASSUME PageInv, NEW w \in 1 .. runs, HandleMessage(w)
  PROVE  LET v == workers[w]
             u == IF Head(v.inbox).kind = "heavy" THEN OnHeavy(w, Looked(v))
                  ELSE OnUrgent(Looked(v), Head(v.inbox).run)
         IN /\ Good(u, mode) /\ \A n \in Nat : Before(v, n) => Before(u, n)
            /\ Becomes(w, u) /\ v.inbox # <<>>
  <1>. DEFINE v == workers[w]
              u == IF Head(v.inbox).kind = "heavy" THEN OnHeavy(w, Looked(v))
                   ELSE OnUrgent(Looked(v), Head(v.inbox).run)
  <1>1. Becomes(w, u) /\ v.inbox # <<>>
    BY DEF HandleMessage, Looked
  <1>2. /\ mode \in {"scheduled", "monolithic"} /\ w \in Nat
        /\ v \in WorkersOf(mode) /\ InTurn(v) /\ Good(v, mode)
    BY DEF PageInv, Good
  <1>3. Good(u, mode) /\ \A n \in Nat : Before(v, n) => Before(u, n)
    <2>1. CASE Waiting(v)
      <3>1. Head(v.inbox).kind = "heavy"
        BY <2>1 DEF Waiting, HeavyAsk
      <3>2. LET x == OnHeavy(w, Looked(v))
            IN Good(x, mode) /\ \A n \in Nat : Before(v, n) => Before(x, n)
        BY <1>2, <2>1, OnHeavyKeeps
      <3>. QED
        BY <3>1, <3>2
    <2>2. CASE (Ready(v, mode) /\ v.yielding) \/ Done(v)
      <3>1. AllUrgent(v.inbox)
        BY <2>2 DEF Ready, Done
      <3>2. LET x == OnUrgent(Looked(v), Head(v.inbox).run)
            IN /\ Head(v.inbox).kind = "urgent"
               /\ Good(x, mode)
               /\ \A n \in Nat : Before(v, n) => Before(x, n)
        BY <1>1, <1>2, <2>2, <3>1, OnUrgentKeeps
      <3>. QED
        BY <3>2
    <2>. QED
      BY <1>2, <2>1, <2>2, Zenon DEF Good
  <1>. HIDE DEF u
  <1>. QED
    BY <1>1, <1>3, Zenon DEF u

LEMMA ResumedIsGood ==
  ASSUME PageInv, NEW w \in 1 .. runs, YieldReturns(w)
  PROVE  LET v == workers[w]
             u == ProcessScheduledChunk(w, [v EXCEPT !.yielding = FALSE])
         IN /\ Good(u, mode) /\ \A n \in Nat : Before(v, n) => Before(u, n)
            /\ Becomes(w, u) /\ v.yielding
  <1>. DEFINE v == workers[w]
              x == [v EXCEPT !.yielding = FALSE]
              u == ProcessScheduledChunk(w, x)
  <1>1. Becomes(w, u) /\ v.yielding
    BY DEF YieldReturns
  <1>2. v \in WorkersOf(mode) /\ InTurn(v) /\ Good(v, mode) /\ w \in Nat
    BY DEF PageInv, Good
  <1>3. Ready(v, mode)
    BY <1>1, <1>2, Zenon DEF Good, Waiting, Done
  <1>4. /\ x \in WorkersOf(mode) /\ x.inbox = v.inbox
        /\ x.payload = v.payload
        /\ x.yielding = FALSE /\ x.progress = v.progress
        /\ x.chunks = v.chunks /\ x.yields = v.yields
        /\ x.preemptions = v.preemptions /\ x.served = v.served
        /\ x.queue = v.queue
    BY <1>2, Zenon DEF WorkersOf
  <1>. HIDE DEF x
  <1>5. Ready(x, mode) /\ ~x.yielding /\ InTurn(x)
    <2>1. Ready(x, mode)
      BY <1>3, <1>4, Zenon DEF Ready, Counted
    <2>2. InTurn(x)
      BY <1>2, <1>4 DEF InTurn
    <2>. QED
      BY <1>4, <2>1, <2>2
  <1>6. Good(u, mode) /\ \A n \in Nat : Before(x, n) => Before(u, n)
    BY <1>2, <1>4, <1>5, ProcessKeeps
  <1>7. \A n \in Nat : Before(v, n) => Before(x, n)
    BY <1>4 DEF Before
  <1>. HIDE DEF u
  <1>8. \A n \in Nat : Before(v, n) => Before(u, n)
    BY <1>6, <1>7
  <1>. QED
    BY <1>1, <1>6, <1>8, Zenon DEF u, x

LEMMA WorkerStepKeeps ==
  ASSUME PageInv, NEW w \in 1 .. runs, WorkerStep(w)
  PROVE  PageInv'
  <1>1. CASE HandleMessage(w)
    BY <1>1, HandledIsGood, BecomesKeeps, Zenon
  <1>2. CASE YieldReturns(w)
    BY <1>2, ResumedIsGood, BecomesKeeps, Zenon
  <1>. QED
    BY <1>1, <1>2 DEF WorkerStep

LEMMA CaptureStartKeeps ==
  ASSUME PageInv, CaptureStart
  PROVE  PageInv'
  <1>. DEFINE n == runs + 1
  <1>1. /\ runs' = n /\ current' = n /\ mode' = mode
        /\ workers' = Append(workers, NewWorker)
        /\ outbox' = Append(outbox, <<>>)
        /\ timers' = Append(timers, n)
    BY DEF CaptureStart
  <1>2. runs \in Nat /\ n \in Nat \ {0}
    BY DEF PageInv
  <1>3. /\ timers \in Seq(Nat) /\ Increasing(timers)
        /\ \A i \in DOMAIN timers : timers[i] \in 1 .. runs
    BY DEF PageInv
  <1>4. Under(timers, n)
    BY <1>2, <1>3 DEF Under
  <1>5. /\ timers' \in Seq(Nat) /\ Increasing(timers')
        /\ \A i \in DOMAIN timers' : timers'[i] \in 1 .. n
        /\ \A i \in DOMAIN timers' :
             timers'[i] = n \/ (i \in DOMAIN timers /\ timers'[i] = timers[i])
    <2>1. timers' \in Seq(Nat) /\ Increasing(timers')
      BY <1>1, <1>2, <1>3, <1>4, AppendFacts, IncreasingAppend
    <2>2. \A i \in DOMAIN timers' :
            timers'[i] = n \/ (i \in DOMAIN timers /\ timers'[i] = timers[i])
      BY <1>1, <1>2, <1>3, AppendFacts
    <2>. QED
      BY <1>2, <1>3, <2>1, <2>2
  <1>6. /\ NewWorker \in WorkersOf(mode) /\ Good(NewWorker, mode)
        /\ \A m \in Nat \ {0} : Before(NewWorker, m)
    BY NewWorkerIsGood DEF Good
  <1>7. /\ workers' \in Seq(WorkersOf(mode)) /\ Len(workers') = n
        /\ \A w \in 1 .. runs : workers'[w] = workers[w]
        /\ workers'[n] = NewWorker
    <2>1. workers \in Seq(WorkersOf(mode)) /\ Len(workers) = runs
      BY DEF PageInv
    <2>. QED
      BY <1>1, <1>6, <2>1, AppendProperties
  <1>8. outbox' \in Seq(Seq(Posts(mode))) /\ Len(outbox') = n
    <2>1. <<>> \in Seq(Posts(mode))
      OBVIOUS
    <2>2. outbox \in Seq(Seq(Posts(mode))) /\ Len(outbox) = runs
      BY DEF PageInv
    <2>. QED
      BY <1>1, <2>1, <2>2, AppendProperties
  <1>. HIDE DEF n
  <1>9. ASSUME NEW w \in 1 .. n
        PROVE  Good(workers'[w], mode) /\ InTime(workers'[w], timers', n)
    <2>1. /\ n + 1 \in Nat \ {0}
          /\ \A i \in DOMAIN timers' : timers'[i] \in Nat \ {0}
      BY <1>2, <1>5
    <2>2. CASE w = n
      BY <1>6, <1>7, <2>1, <2>2 DEF InTime
    <2>3. CASE w # n
      <3>1. w \in 1 .. runs
        BY <1>2, <1>9, <2>3 DEF n
      <3>2. workers'[w] = workers[w] /\ Good(workers[w], mode)
            /\ InTime(workers[w], timers, runs)
        BY <1>7, <3>1 DEF PageInv
      <3>. DEFINE v == workers[w]
      <3>3. Before(v, n)
        BY <3>2 DEF InTime, n
      <3>4. Before(v, n + 1)
        <4>1. /\ v.served \in Seq(Nat) /\ v.queue \in Seq(Nat)
              /\ Asked(v.inbox) \in Seq(Nat)
          BY <3>2, WorkerFields, AskedFacts DEF Good
        <4>. HIDE DEF v
        <4>2. \A s \in Seq(Nat) : Under(s, n) => Under(s, n + 1)
          <5>1. \A s \in Seq(Nat) : \A i \in DOMAIN s : s[i] \in Nat
            BY ElementOfSeq, LenProperties
          <5>. QED
            BY <1>2, <5>1 DEF Under
        <4>. QED
          BY <3>3, <4>1, <4>2 DEF Before
      <3>5. \A i \in DOMAIN timers' : Before(v, timers'[i])
        BY <1>5, <3>2, <3>3 DEF InTime
      <3>. QED
        BY <3>2, <3>4, <3>5 DEF InTime
    <2>. QED
      BY <2>2, <2>3
  <1>10. n \in Nat /\ n \in 0 .. n
    BY <1>2
  <1>. QED
    BY <1>1, <1>5, <1>7, <1>8, <1>9, <1>10 DEF PageInv

LEMMA DispatchKeeps ==
  ASSUME PageInv, DispatchUrgentRequest
  PROVE  PageInv'
  <1>. DEFINE n == Head(timers)
              z == [workers[current] EXCEPT
                      !.inbox = Append(@, Result("urgent", n))]
  <1>1. /\ timers # <<>> /\ timers' = Tail(timers)
        /\ workers' = IF current = 0 THEN workers
                      ELSE [workers EXCEPT ![current].inbox =
                              Append(@, Result("urgent", n))]
        /\ mode' = mode /\ runs' = runs /\ outbox' = outbox
        /\ current' = current
    BY DEF DispatchUrgentRequest
  <1>2. /\ timers \in Seq(Nat) /\ Increasing(timers) /\ runs \in Nat
        /\ \A i \in DOMAIN timers : timers[i] \in 1 .. runs
        /\ current \in 0 .. runs
        /\ workers \in Seq(WorkersOf(mode)) /\ Len(workers) = runs
        /\ \A w \in 1 .. runs : /\ Good(workers[w], mode)
                                /\ InTime(workers[w], timers, runs)
    BY DEF PageInv
  <1>3. /\ timers' \in Seq(Nat) /\ Increasing(timers') /\ n \in 1 .. runs
        /\ 1 \in DOMAIN timers /\ timers[1] = n
        /\ \A i \in DOMAIN timers' : /\ i + 1 \in DOMAIN timers
                                     /\ timers'[i] = timers[i + 1]
                                     /\ n < timers'[i]
    <2>1. 1 \in DOMAIN timers /\ timers[1] = n
      BY <1>1, <1>2, TailFacts
    <2>2. \A i \in DOMAIN timers' : /\ i + 1 \in DOMAIN timers
                                    /\ timers'[i] = timers[i + 1]
      BY <1>1, <1>2, TailFacts
    <2>. QED
      BY <1>1, <1>2, <2>1, <2>2, TailFacts, IncreasingTail
  <1>4. \A i \in DOMAIN timers' : timers'[i] \in 1 .. runs
    BY <1>2, <1>3
  <1>5. \A w \in 1 .. runs : /\ InTime(workers[w], timers', runs)
                             /\ Before(workers[w], n)
    BY <1>2, <1>3 DEF InTime
  <1>6. CASE current = 0
    <2>1. workers' = workers
      BY <1>1, <1>6
    <2>. QED
      BY <1>1, <1>2, <1>3, <1>4, <1>5, <2>1 DEF PageInv
  <1>7. CASE current # 0
    <2>1. current \in 1 .. runs /\ n \in Nat
      BY <1>2, <1>3, <1>7
    <2>2. /\ Good(z, mode)
          /\ \A m \in Nat : Before(workers[current], m) /\ n < m
               => Before(z, m)
      BY <1>2, <1>5, <2>1, AskKeeps
    <2>3. InTime(z, timers', runs)
      <3>1. runs + 1 \in Nat /\ n < runs + 1
        BY <1>2, <1>3
      <3>2. \A i \in DOMAIN timers' : timers'[i] \in Nat
        BY <1>4
      <3>. QED
        BY <1>3, <1>5, <2>1, <2>2, <3>1, <3>2 DEF InTime
    <2>4. z \in WorkersOf(mode)
      BY <2>2 DEF Good
    <2>. HIDE DEF n
    <2>5. workers' = [workers EXCEPT ![current] = z]
      BY <1>1, <1>7
    <2>. HIDE DEF z
    <2>6. /\ workers' \in Seq(WorkersOf(mode)) /\ Len(workers') = runs
          /\ \A w \in 1 .. runs :
               workers'[w] = IF w = current THEN z ELSE workers[w]
      BY <1>2, <2>1, <2>4, <2>5, ExceptSeq
    <2>7. \A w \in 1 .. runs : /\ Good(workers'[w], mode)
                               /\ InTime(workers'[w], timers', runs)
      BY <1>2, <1>5, <2>2, <2>3, <2>6
    <2>. QED
      BY <1>1, <1>2, <1>3, <1>4, <2>6, <2>7 DEF PageInv
  <1>. QED
    BY <1>6, <1>7

(***************************************************************************)
(* Runs, workers and requests stay numbered as they were made: the workers *)
(* are of the types their code gives them, each in a stage of its heavy    *)
(* transaction where the counters tell how far it is, and every request    *)
(* still due comes after those sent.                                       *)
(***************************************************************************)
THEOREM PageInvariant == SchedulerSpec => []PageInv
  <1>1. SchedulerInit => PageInv
    <2>. SUFFICES ASSUME SchedulerInit PROVE PageInv
      OBVIOUS
    <2>1. /\ mode \in {"scheduled", "monolithic"} /\ runs = 0 /\ current = 0
          /\ timers = <<>> /\ workers = <<>> /\ outbox = <<>>
      BY DEF SchedulerInit
    <2>. QED
      BY <2>1 DEF PageInv, Increasing
  <1>2. PageInv /\ [SchedulerNext]_schedulerVars => PageInv'
    <2>. SUFFICES ASSUME PageInv, [SchedulerNext]_schedulerVars PROVE PageInv'
      OBVIOUS
    <2>1. CASE Mount \/ RenderRows \/ UNCHANGED schedulerVars
      <3>1. /\ mode' = mode /\ runs' = runs /\ timers' = timers
            /\ workers' = workers /\ outbox' = outbox
            /\ current' \in {0, current}
        <4>1. CASE Mount
          BY <4>1 DEF Mount
        <4>2. CASE RenderRows
          BY <4>2 DEF RenderRows
        <4>3. CASE UNCHANGED schedulerVars
          BY <4>3 DEF schedulerVars, pageVars
        <4>. QED
          BY <2>1, <4>1, <4>2, <4>3
      <3>. QED
        BY <3>1 DEF PageInv
    <2>2. CASE CaptureStart
      BY <2>2, CaptureStartKeeps
    <2>3. CASE DispatchUrgentRequest
      BY <2>3, DispatchKeeps
    <2>4. ASSUME NEW w \in 1 .. runs, WorkerStep(w)
          PROVE  PageInv'
      BY <2>4, WorkerStepKeeps
    <2>5. ASSUME NEW w \in 1 .. runs, HandleWorkerMessage(w)
          PROVE  PageInv'
      <3>1. /\ outbox[w] # <<>>
            /\ outbox' = [outbox EXCEPT ![w] = Tail(@)]
            /\ mode' = mode /\ runs' = runs /\ timers' = timers
            /\ workers' = workers /\ current' = current
        BY <2>5 DEF HandleWorkerMessage
      <3>2. outbox' \in Seq(Seq(Posts(mode))) /\ Len(outbox') = runs
        <4>1. w \in 1 .. Len(outbox) /\ outbox[w] \in Seq(Posts(mode))
          BY ElementOfSeq DEF PageInv
        <4>2. Tail(outbox[w]) \in Seq(Posts(mode))
          BY <3>1, <4>1, HeadTailProperties
        <4>. QED
          BY <3>1, <4>1, <4>2, ExceptSeq DEF PageInv
      <3>. QED
        BY <3>1, <3>2 DEF PageInv
    <2>. QED
      BY <2>1, <2>2, <2>3, <2>4, <2>5 DEF SchedulerNext
  <1>. QED
    BY <1>1, <1>2, PTL DEF SchedulerSpec

(***************************************************************************)
(* Whatever runs overlap, a worker serves its urgent requests at most once *)
(* and in the order they were made, and its heavy result counts what was   *)
(* served before it and the chunks the work was cut in (lines 1022-1060    *)
(* and 1090-1111 of the page).                                             *)
(***************************************************************************)
THEOREM UrgentOrder == SchedulerSpec => []UrgentsKeepTheirOrder
  <1>1. PageInv => UrgentsKeepTheirOrder
    <2>. SUFFICES ASSUME PageInv PROVE UrgentsKeepTheirOrder
      OBVIOUS
    <2>1. ASSUME NEW w \in 1 .. runs
          PROVE  LET v == workers[w]
                 IN /\ Increasing(v.served \o Asked(v.inbox))
                    /\ Increasing(v.queue \o Asked(v.inbox))
                    /\ v.payload => Increasing(v.served \o v.queue)
                    /\ Range(v.served) \cap Range(v.queue) = {}
      <3>. DEFINE v == workers[w]
      <3>1. Good(v, mode)
        BY DEF PageInv
      <3>. HIDE DEF v
      <3>2. /\ v.served \in Seq(Nat) /\ v.queue \in Seq(Nat)
            /\ Asked(v.inbox) \in Seq(Nat)
            /\ Order(v.served, v.queue, Asked(v.inbox))
        BY <3>1, WorkerFields, AskedFacts DEF Good, InTurn
      <3>3. /\ Increasing(v.served \o Asked(v.inbox))
            /\ Increasing(v.queue \o Asked(v.inbox))
        BY <3>2, IncreasingConcat DEF Order
      <3>4. v.payload => Below(v.served, v.queue)
        BY <3>1, Zenon DEF Good, Waiting, Ready, Done
      <3>5. v.payload => Increasing(v.served \o v.queue)
        BY <3>2, <3>4, IncreasingConcat DEF Order
      <3>6. Range(v.served) \cap Range(v.queue) = {}
        <4>1. CASE Waiting(v)
          BY <4>1 DEF Waiting, Range
        <4>2. CASE Ready(v, mode)
          BY <3>2, <4>2, BelowDisjoint DEF Ready
        <4>3. CASE Done(v)
          BY <4>3 DEF Done
        <4>. QED
          BY <3>1, <4>1, <4>2, <4>3, Zenon DEF Good
      <3>. QED
        BY <3>3, <3>5, <3>6 DEF v
    <2>2. ASSUME NEW w \in 1 .. runs, NEW m \in HeavyResults(w)
          PROVE  Telling(m, mode)
      <3>1. m \in Range(outbox[w]) /\ m.kind = "heavy"
        BY <2>2 DEF HeavyResults
      <3>2. outbox[w] \in Seq(Posts(mode))
        BY ElementOfSeq DEF PageInv
      <3>3. m \in Posts(mode)
        BY <3>1, <3>2, ElementOfSeq, LenProperties DEF Range
      <3>. QED
        BY <3>1, <3>3 DEF Posts, Answers, HeavyAnswers
    <2>. QED
      BY <2>1, <2>2, Zenon DEF UrgentsKeepTheirOrder, Telling
  <1>. QED
    BY <1>1, PageInvariant, PTL

HIDE SchedulerAssumption
-----------------------------------------------------------------------------
(***************************************************************************)
(* Measured runs.  A run has one request of each kind.  It is due, in the  *)
(* inbox of the worker, in its queue or under way, posted, on its way to   *)
(* the page, pending or committed, and counting the places it may be in    *)
(* tells that no kind is committed twice.                                  *)
(***************************************************************************)
OfKind(s, kind) == {i \in DOMAIN s : s[i].kind = kind}
Number(s, kind) == Cardinality(OfKind(s, kind))

Same(a, b) == IF a = b THEN 1 ELSE 0

\* What a worker has of one kind.
Kept(queue, payload, kind) ==
  IF kind = "urgent" THEN Len(queue) ELSE IF payload THEN 1 ELSE 0
Held(v, kind) ==
  Number(v.inbox, kind) + Kept(v.queue, v.payload, kind)
    + Number(v.posted, kind)

\* What the page has of one kind, and what a run has in its worker and on
\* its way.
AtPage(kind) ==
  (IF kind = "urgent" THEN Len(timers) ELSE 0)
    + Number(pending, kind) + (IF kind \in committed THEN 1 ELSE 0)

OfRun(w, kind) == Held(workers[w], kind) + Number(outbox[w], kind)

AtMostOnce(kind) ==
  /\ \A w \in 1 .. runs - 1 : OfRun(w, kind) = 0
  /\ runs > 0 => AtPage(kind) + OfRun(runs, kind) <= 1

Rows == [kind : ProjectionKinds, run : Nat, counted : {TRUE}]

MeasuredInv ==
  /\ pending \in Seq(Rows)
  /\ committed \subseteq ProjectionKinds
  /\ ends \in Seq(Nat)
  /\ Len(ends) = IF UnderWay THEN runs - 1 ELSE runs
  /\ current \in {0, runs}
  /\ runs > 0 => mounted
  /\ runs = 0 => committed = {} /\ ends = <<>> /\ pending = <<>>
  /\ \A w \in 1 .. runs : workers[w].posted = <<>>
  /\ \A kind \in ProjectionKinds : AtMostOnce(kind)
-----------------------------------------------------------------------------
LEMMA NumberType ==
  ASSUME NEW S, NEW s \in Seq(S), NEW kind
  PROVE  /\ IsFiniteSet(OfKind(s, kind)) /\ Number(s, kind) \in Nat
         /\ \A i \in DOMAIN s : s[i].kind = kind => Number(s, kind) > 0
  <1>1. DOMAIN s = 1 .. Len(s) /\ Len(s) \in Nat
    BY LenProperties
  <1>2. IsFiniteSet(OfKind(s, kind))
    <2>1. IsFiniteSet(1 .. Len(s))
      BY <1>1, FS_Interval
    <2>2. OfKind(s, kind) \in SUBSET (1 .. Len(s))
      BY <1>1 DEF OfKind
    <2>. QED
      BY <2>1, <2>2, FS_Subset
  <1>3. Number(s, kind) \in Nat
    BY <1>2, FS_CardinalityType DEF Number
  <1>4. ASSUME NEW i \in DOMAIN s, s[i].kind = kind
        PROVE  Number(s, kind) > 0
    <2>1. OfKind(s, kind) # {}
      BY <1>4 DEF OfKind
    <2>2. Number(s, kind) # 0
      BY <1>2, <2>1, FS_EmptySet DEF Number
    <2>. QED
      BY <1>3, <2>2
  <1>. QED
    BY <1>2, <1>3, <1>4

LEMMA NumberNone ==
  ASSUME NEW kind
  PROVE  Number(<<>>, kind) = 0
  <1>1. OfKind(<<>>, kind) = {}
    BY DEF OfKind
  <1>. QED
    BY <1>1, FS_EmptySet DEF Number

LEMMA NumberOne ==
  ASSUME NEW e, NEW kind
  PROVE  Number(<<e>>, kind) = Same(e.kind, kind)
  <1>1. DOMAIN <<e>> = {1} /\ <<e>>[1] = e
    OBVIOUS
  <1>2. OfKind(<<e>>, kind) = IF e.kind = kind THEN {1} ELSE {}
    BY <1>1 DEF OfKind
  <1>. QED
    BY <1>2, FS_EmptySet, FS_Singleton DEF Number, Same

LEMMA NumberConcat ==
  ASSUME NEW S, NEW s \in Seq(S), NEW t \in Seq(S), NEW kind
  PROVE  Number(s \o t, kind) = Number(s, kind) + Number(t, kind)
  <1>. DEFINE n == Len(s)
              A == OfKind(s, kind)
              B == OfKind(t, kind)
              C == OfKind(s \o t, kind)
              D == {i \in C : i > n}
              f == [i \in B |-> i + n]
  <1>1. /\ s \o t \in Seq(S)
        /\ DOMAIN s = 1 .. n /\ DOMAIN t = 1 .. Len(t)
        /\ DOMAIN (s \o t) = 1 .. n + Len(t)
        /\ n \in Nat /\ Len(t) \in Nat
        /\ \A i \in 1 .. n + Len(t) :
             (s \o t)[i] = IF i <= n THEN s[i] ELSE t[i - n]
    BY ConcatProperties, LenProperties
  <1>2. /\ IsFiniteSet(A) /\ IsFiniteSet(B) /\ IsFiniteSet(C)
        /\ Cardinality(A) \in Nat /\ Cardinality(B) \in Nat
    BY <1>1, NumberType DEF Number
  <1>. HIDE DEF n
  <1>3. C = A \cup D /\ A \cap D = {}
    BY <1>1 DEF OfKind
  <1>4. f \in Bijection(B, D)
    <2>1. B \subseteq Nat /\ \A i \in B : i + n \in D
      BY <1>1 DEF OfKind
    <2>2. \A j \in D : j - n \in B /\ (j - n) + n = j
      <3>1. ASSUME NEW j \in D
            PROVE  /\ j \in 1 .. n + Len(t) /\ j > n
                   /\ (s \o t)[j].kind = kind
        BY <1>1 DEF OfKind
      <3>2. ASSUME NEW j \in D
            PROVE  j - n \in 1 .. Len(t) /\ t[j - n].kind = kind
        BY <1>1, <3>1
      <3>3. DOMAIN t = 1 .. Len(t) /\ n \in Nat
        BY <1>1
      <3>4. ASSUME NEW j \in D
            PROVE  (j - n) + n = j
        <4>1. j \in 1 .. n + Len(t) /\ Len(t) \in Nat
          BY <1>1, <3>1
        <4>. HIDE DEF D
        <4>. QED
          BY <3>3, <4>1
      <3>5. ASSUME NEW j \in D
            PROVE  j - n \in B
        BY <3>2, <3>3 DEF OfKind
      <3>. HIDE DEF B, D
      <3>. QED
        BY <3>4, <3>5
    <2>3. f \in [B -> D]
      BY <2>1
    <2>4. \A i, j \in B : f[i] = f[j] => i = j
      BY <1>1, <2>1
    <2>5. \A j \in D : \E i \in B : f[i] = j
      BY <2>2
    <2>. HIDE DEF f, B, D
    <2>. QED
      BY <2>3, <2>4, <2>5 DEF Bijection, Injection, Surjection, IsInjective
  <1>5. IsFiniteSet(D) /\ Cardinality(D) = Cardinality(B)
    BY <1>2, <1>4, FS_Bijection DEF ExistsBijection
  <1>. HIDE DEF A, B, C, D
  <1>6. Cardinality(C) = Cardinality(A) + Cardinality(D) - Cardinality({})
    BY <1>2, <1>3, <1>5, FS_Union
  <1>7. Cardinality(C) = Cardinality(A) + Cardinality(B)
    BY <1>2, <1>5, <1>6, FS_EmptySet
  <1>. QED
    BY <1>7 DEF Number, A, B, C

LEMMA NumberAppend ==
  ASSUME NEW S, NEW s \in Seq(S), NEW e, NEW kind
  PROVE  Number(Append(s, e), kind) = Number(s, kind) + Same(e.kind, kind)
  <1>. DEFINE T == S \cup {e}
  <1>1. s \in Seq(T) /\ <<e>> \in Seq(T) /\ e \in T
    <2>1. s \in [1 .. Len(s) -> T] /\ Len(s) \in Nat
      BY LenProperties, ElementOfSeq
    <2>. QED
      BY <2>1
  <1>. HIDE DEF T
  <1>2. Append(s, e) = s \o <<e>>
    BY <1>1, AppendIsConcat
  <1>3. Number(s \o <<e>>, kind) = Number(s, kind) + Number(<<e>>, kind)
    BY <1>1, NumberConcat
  <1>. QED
    BY <1>2, <1>3, NumberOne

LEMMA NumberTail ==
  ASSUME NEW S, NEW s \in Seq(S), s # <<>>, NEW kind
  PROVE  /\ Number(s, kind) = Number(Tail(s), kind) + Same(Head(s).kind, kind)
         /\ Tail(s) \in Seq(S) /\ Head(s) \in S
  <1>1. /\ Head(s) \in S /\ Tail(s) \in Seq(S) /\ <<Head(s)>> \in Seq(S)
    BY HeadTailProperties
  <1>2. s = <<Head(s)>> \o Tail(s)
    <2>1. /\ Len(s) \in Nat \ {0} /\ Len(Tail(s)) = Len(s) - 1
          /\ Head(s) = s[1]
          /\ \A i \in 1 .. Len(Tail(s)) : Tail(s)[i] = s[i + 1]
      BY HeadTailProperties, LenProperties, EmptySeq
    <2>. DEFINE t == <<Head(s)>> \o Tail(s)
    <2>2. /\ t \in Seq(S) /\ Len(t) = Len(s)
          /\ \A i \in 1 .. Len(s) :
               t[i] = IF i <= 1 THEN <<Head(s)>>[i] ELSE Tail(s)[i - 1]
      <3>1. Len(<<Head(s)>>) = 1
        OBVIOUS
      <3>. QED
        BY <1>1, <2>1, <3>1, ConcatProperties
    <2>3. \A i \in 1 .. Len(s) : t[i] = s[i]
      BY <2>1, <2>2
    <2>. HIDE DEF t
    <2>. QED
      BY <2>2, <2>3, SeqEqual DEF t
  <1>3. Number(s, kind) = Number(<<Head(s)>>, kind) + Number(Tail(s), kind)
    <2>1. Number(<<Head(s)>> \o Tail(s), kind)
            = Number(<<Head(s)>>, kind) + Number(Tail(s), kind)
      BY <1>1, NumberConcat
    <2>. QED
      BY <1>2, <2>1
  <1>4. Number(Tail(s), kind) \in Nat
    BY <1>1, NumberType
  <1>. QED
    BY <1>1, <1>3, <1>4, NumberOne DEF Same
-----------------------------------------------------------------------------
(* What a worker holds, after each of its steps.                            *)

Shapes(P) ==
  [inbox : Seq(UrgentAsks \cup {HeavyAsk}), payload : BOOLEAN,
   progress : Nat, queue : Seq(Nat), yielding : BOOLEAN, chunks : Nat,
   yields : Nat, preemptions : Nat, posted : Seq(P), served : Seq(Nat)]

LEMMA HeldType ==
  ASSUME NEW P, NEW v \in Shapes(P), NEW kind
  PROVE  /\ Number(v.inbox, kind) \in Nat /\ Number(v.posted, kind) \in Nat
         /\ Len(v.queue) \in Nat /\ Kept(v.queue, v.payload, kind) \in Nat
         /\ Held(v, kind) \in Nat
         /\ v.posted \in Seq(P) /\ v.queue \in Seq(Nat)
         /\ v.inbox \in Seq(UrgentAsks \cup {HeavyAsk})
         /\ v.payload \in BOOLEAN
  <1>1. /\ v.inbox \in Seq(UrgentAsks \cup {HeavyAsk}) /\ v.posted \in Seq(P)
        /\ v.queue \in Seq(Nat) /\ v.payload \in BOOLEAN
    BY DEF Shapes
  <1>2. Number(v.inbox, kind) \in Nat /\ Number(v.posted, kind) \in Nat
    BY <1>1, NumberType
  <1>3. Len(v.queue) \in Nat /\ Kept(v.queue, v.payload, kind) \in Nat
    BY <1>1, LenProperties DEF Kept, Same
  <1>. QED
    BY <1>1, <1>2, <1>3 DEF Held

\* One more of what is posted.
LEMMA PostedMore ==
  ASSUME NEW P, NEW v \in Shapes(P), NEW e
  PROVE  LET u == [v EXCEPT !.posted = Append(@, e)]
         IN /\ u \in Shapes(P \cup {e}) /\ u.inbox = v.inbox
            /\ u.payload = v.payload /\ u.queue = v.queue
            /\ u.posted = Append(v.posted, e)
  <1>. DEFINE p == Append(v.posted, e)
              u == [v EXCEPT !.posted = p]
              Q == P \cup {e}
  <1>1. v.posted \in Seq(P)
    BY HeldType
  <1>2. v.posted \in Seq(Q) /\ e \in Q
    <2>1. v.posted \in [1 .. Len(v.posted) -> Q] /\ Len(v.posted) \in Nat
      BY <1>1, LenProperties, ElementOfSeq
    <2>. QED
      BY <2>1
  <1>. HIDE DEF Q
  <1>3. p \in Seq(Q)
    BY <1>2, AppendProperties
  <1>. HIDE DEF p
  <1>4. /\ u \in Shapes(Q) /\ u.inbox = v.inbox /\ u.payload = v.payload
        /\ u.queue = v.queue /\ u.posted = p
    BY <1>3, Zenon DEF Shapes
  <1>. QED
    BY <1>4, Zenon DEF p, Q

LEMMA HeldPost ==
  ASSUME NEW P, NEW v \in Shapes(P), NEW e, NEW kind, NEW u,
         u.inbox = v.inbox, u.payload = v.payload, u.queue = v.queue,
         u.posted = Append(v.posted, e)
  PROVE  Held(u, kind) = Held(v, kind) + Same(e.kind, kind)
  <1>1. /\ Number(v.inbox, kind) \in Nat /\ Number(v.posted, kind) \in Nat
        /\ Kept(v.queue, v.payload, kind) \in Nat
    BY HeldType
  <1>2. Same(e.kind, kind) \in Nat
    BY DEF Same
  <1>3. Number(u.posted, kind) = Number(v.posted, kind) + Same(e.kind, kind)
    BY HeldType, NumberAppend
  <1>. QED
    BY <1>1, <1>2, <1>3 DEF Held

\* What has no part in what is held.
LEMMA HeldSame ==
  ASSUME NEW v, NEW u, NEW kind,
         u.inbox = v.inbox, u.payload = v.payload, u.queue = v.queue,
         u.posted = v.posted
  PROVE  Held(u, kind) = Held(v, kind)
  BY DEF Held

LEMMA HeldPending ==
  ASSUME NEW P, NEW v \in Shapes(P), Answers \subseteq P,
         NEW kind \in ProjectionKinds
  PROVE  LET u == PostUrgentIfPending(v)
         IN /\ u \in Shapes(P)
            /\ Held(u, kind) = Held(v, kind)
            /\ u.inbox = v.inbox /\ u.payload = v.payload
  <1>1. CASE v.queue = <<>>
    BY <1>1 DEF PostUrgentIfPending
  <1>2. CASE v.queue # <<>>
    <2>. DEFINE e == Result("urgent", Head(v.queue))
                q == Tail(v.queue)
                s == Append(v.served, Head(v.queue))
                c == v.preemptions + 1
                p == Append(v.posted, e)
                u == [v EXCEPT !.queue = q, !.preemptions = c, !.served = s,
                               !.posted = p]
    <2>1. PostUrgentIfPending(v) = u
      BY <1>2 DEF PostUrgentIfPending
    <2>2. /\ v.queue \in Seq(Nat) /\ v.served \in Seq(Nat)
          /\ v.preemptions \in Nat /\ v.posted \in Seq(P)
      BY DEF Shapes
    <2>3. /\ q \in Seq(Nat) /\ Len(v.queue) = Len(q) + 1
          /\ Len(q) \in Nat /\ Head(v.queue) \in Nat
      BY <1>2, <2>2, HeadTailProperties, LenProperties
    <2>4. s \in Seq(Nat) /\ c \in Nat
      BY <2>2, <2>3, AppendProperties
    <2>5. e \in P /\ e.kind = "urgent"
      BY <2>3 DEF Answers, Result
    <2>. HIDE DEF e
    <2>6. p \in Seq(P) /\ Number(p, kind) = Number(v.posted, kind)
                                            + Same("urgent", kind)
      BY <2>2, <2>5, AppendProperties, NumberAppend
    <2>. HIDE DEF q, s, c, p
    <2>7. /\ u \in Shapes(P) /\ u.inbox = v.inbox /\ u.payload = v.payload
          /\ u.queue = q /\ u.posted = p
      BY <2>3, <2>4, <2>6, Zenon DEF Shapes
    <2>. HIDE DEF u
    <2>8. /\ Number(v.inbox, kind) \in Nat /\ Number(v.posted, kind) \in Nat
          /\ Len(v.queue) \in Nat
      BY HeldType
    <2>9. Held(u, kind) = Held(v, kind)
      <3>1. CASE kind = "urgent"
        BY <2>3, <2>6, <2>7, <2>8, <3>1 DEF Held, Kept, Same
      <3>2. CASE kind = "heavy"
        BY <2>6, <2>7, <2>8, <3>2 DEF Held, Kept, Same
      <3>. QED
        BY <3>1, <3>2 DEF ProjectionKinds
    <2>. QED
      BY <2>1, <2>7, <2>9
  <1>. QED
    BY <1>1, <1>2

LEMMA HeldComplete ==
  ASSUME NEW P, NEW v \in Shapes(P), Answers \subseteq P, v.payload = TRUE,
         NEW w, NEW kind \in ProjectionKinds
  PROVE  Held(Complete(w, v), kind) = Held(v, kind)
  <1>. DEFINE e == HeavyResult(w, v)
              x == [v EXCEPT !.posted = Append(@, e)]
              y == PostUrgentIfPending(x)
              u == [y EXCEPT !.payload = FALSE]
              Q == P \cup {e}
  <1>1. Complete(w, v) = u
    BY DEF Complete
  <1>2. e.kind = "heavy"
    BY DEF HeavyResult
  <1>. HIDE DEF e
  <1>3. /\ x \in Shapes(Q) /\ x.payload = TRUE
        /\ Held(x, kind) = Held(v, kind) + Same("heavy", kind)
    <2>1. /\ x \in Shapes(Q) /\ x.payload = v.payload
          /\ x.inbox = v.inbox /\ x.queue = v.queue
          /\ x.posted = Append(v.posted, e)
      BY PostedMore, Zenon
    <2>. HIDE DEF x
    <2>2. Held(x, kind) = Held(v, kind) + Same(e.kind, kind)
      BY <2>1, HeldPost
    <2>. QED
      BY <1>2, <2>1, <2>2
  <1>4. Answers \subseteq Q
    OBVIOUS
  <1>. HIDE DEF x, Q
  <1>5. /\ y \in Shapes(Q) /\ y.payload = TRUE
        /\ Held(y, kind) = Held(x, kind)
    BY <1>3, <1>4, HeldPending
  <1>. HIDE DEF y
  <1>6. /\ u.inbox = y.inbox /\ u.payload = FALSE /\ u.queue = y.queue
        /\ u.posted = y.posted
    BY <1>5, Zenon DEF Shapes
  <1>. HIDE DEF u
  <1>7. /\ Number(y.inbox, kind) \in Nat /\ Number(y.posted, kind) \in Nat
        /\ Len(y.queue) \in Nat /\ Held(v, kind) \in Nat
    BY <1>5, HeldType
  <1>8. Held(u, kind) = Held(v, kind)
    BY <1>3, <1>5, <1>6, <1>7 DEF Held, Kept, Same, ProjectionKinds
  <1>. QED
    BY <1>1, <1>8

LEMMA HeldProcess ==
  ASSUME NEW P, NEW v \in Shapes(P), Answers \subseteq P, v.payload = TRUE,
         NEW w, NEW kind \in ProjectionKinds
  PROVE  Held(ProcessScheduledChunk(w, v), kind) = Held(v, kind)
  <1>. DEFINE f == PostUrgentIfPending(v)
              next == IF v.progress + ChunkSize < Total
                      THEN v.progress + ChunkSize ELSE Total
              c == f.chunks + 1
              x == [f EXCEPT !.progress = next, !.chunks = c]
              y == [x EXCEPT !.yields = @ + 1, !.yielding = TRUE]
  <1>1. ProcessScheduledChunk(w, v) = IF next = Total THEN Complete(w, x)
                                      ELSE y
    BY DEF ProcessScheduledChunk
  <1>2. /\ f \in Shapes(P) /\ f.payload = TRUE
        /\ Held(f, kind) = Held(v, kind)
    BY HeldPending
  <1>3. next \in Nat /\ c \in Nat
    <2>1. v.progress \in Nat /\ f.chunks \in Nat
      BY <1>2 DEF Shapes
    <2>. HIDE DEF f
    <2>2. c \in Nat
      BY <2>1
    <2>3. v.progress + ChunkSize \in Nat /\ Total \in Nat
      BY <2>1, SchedulerAssumption
    <2>. QED
      BY <2>2, <2>3
  <1>. HIDE DEF f, next, c
  <1>4. /\ x \in Shapes(P) /\ x.payload = TRUE /\ x.inbox = f.inbox
        /\ x.queue = f.queue /\ x.posted = f.posted
    BY <1>2, <1>3, Zenon DEF Shapes
  <1>. HIDE DEF x
  <1>5. Held(x, kind) = Held(f, kind)
    BY <1>2, <1>4, HeldSame
  <1>6. Held(Complete(w, x), kind) = Held(x, kind)
    BY <1>4, HeldComplete
  <1>7. /\ y.inbox = x.inbox /\ y.payload = x.payload /\ y.queue = x.queue
        /\ y.posted = x.posted
    BY <1>4, Zenon DEF Shapes
  <1>. HIDE DEF y
  <1>8. Held(y, kind) = Held(x, kind)
    BY <1>7, HeldSame
  <1>. QED
    BY <1>1, <1>2, <1>5, <1>6, <1>8

\* A message is looked at: what was in the inbox is posted, or under way.
LEMMA HeldLooked ==
  ASSUME NEW P, NEW v \in Shapes(P), v.inbox # <<>>, NEW kind
  PROVE  LET x == Looked(v)
         IN /\ x \in Shapes(P) /\ x.payload = v.payload
            /\ Held(v, kind) = Held(x, kind) + Same(Head(v.inbox).kind, kind)
  <1>. DEFINE b == Tail(v.inbox)
              x == [v EXCEPT !.inbox = b]
  <1>1. /\ v.inbox \in Seq(UrgentAsks \cup {HeavyAsk})
        /\ Number(v.posted, kind) \in Nat
        /\ Kept(v.queue, v.payload, kind) \in Nat
    BY HeldType
  <1>2. /\ b \in Seq(UrgentAsks \cup {HeavyAsk})
        /\ Number(v.inbox, kind) = Number(b, kind)
                                   + Same(Head(v.inbox).kind, kind)
    BY <1>1, NumberTail
  <1>. HIDE DEF b
  <1>3. /\ x \in Shapes(P) /\ x.inbox = b /\ x.payload = v.payload
        /\ x.queue = v.queue /\ x.posted = v.posted
    BY <1>2, Zenon DEF Shapes
  <1>4. Looked(v) = x
    BY DEF Looked, b
  <1>. HIDE DEF x
  <1>5. Number(b, kind) \in Nat /\ Same(Head(v.inbox).kind, kind) \in Nat
    BY <1>2, NumberType DEF Same
  <1>6. Held(v, kind) = Held(x, kind) + Same(Head(v.inbox).kind, kind)
    BY <1>1, <1>2, <1>3, <1>5 DEF Held
  <1>. QED
    BY <1>3, <1>4, <1>6

LEMMA HeldOnHeavy ==
  ASSUME NEW P, NEW x \in Shapes(P), Answers \subseteq P,
         x.payload = FALSE, NEW w, NEW kind \in ProjectionKinds
  PROVE  Held(OnHeavy(w, x), kind) = Held(x, kind) + Same("heavy", kind)
  <1>1. CASE mode = "monolithic"
    <2>. DEFINE y == [x EXCEPT !.chunks = 1]
                e == HeavyResult(w, y)
                u == [y EXCEPT !.posted = Append(@, e)]
    <2>1. OnHeavy(w, x) = u
      BY <1>1 DEF OnHeavy
    <2>2. /\ y \in Shapes(P) /\ y.inbox = x.inbox /\ y.payload = x.payload
          /\ y.queue = x.queue /\ y.posted = x.posted
      BY Zenon DEF Shapes
    <2>3. e.kind = "heavy"
      BY DEF HeavyResult
    <2>. HIDE DEF y, e
    <2>4. Held(u, kind) = Held(y, kind) + Same(e.kind, kind)
      <3>1. /\ u.inbox = y.inbox /\ u.payload = y.payload
            /\ u.queue = y.queue /\ u.posted = Append(y.posted, e)
        <4>1. y \in Shapes(P)
          BY <2>2
        <4>. QED
          BY <4>1, PostedMore, Zenon
      <3>. HIDE DEF u
      <3>. QED
        BY <2>2, <3>1, HeldPost
    <2>5. Held(y, kind) = Held(x, kind)
      BY <2>2, HeldSame
    <2>. QED
      BY <2>1, <2>3, <2>4, <2>5
  <1>2. CASE mode # "monolithic"
    <2>. DEFINE y == [x EXCEPT !.payload = TRUE]
    <2>1. OnHeavy(w, x) = ProcessScheduledChunk(w, y)
      BY <1>2 DEF OnHeavy
    <2>2. /\ y \in Shapes(P) /\ y.inbox = x.inbox /\ y.payload = TRUE
          /\ y.queue = x.queue /\ y.posted = x.posted
      BY Zenon DEF Shapes
    <2>. HIDE DEF y
    <2>3. Held(ProcessScheduledChunk(w, y), kind) = Held(y, kind)
      BY <2>2, HeldProcess
    <2>4. /\ Number(x.inbox, kind) \in Nat /\ Number(x.posted, kind) \in Nat
          /\ Len(x.queue) \in Nat
      BY HeldType
    <2>5. Held(y, kind) = Held(x, kind) + Same("heavy", kind)
      <3>1. CASE kind = "urgent"
        BY <2>2, <2>4, <3>1 DEF Held, Kept, Same
      <3>2. CASE kind = "heavy"
        BY <2>2, <2>4, <3>2 DEF Held, Kept, Same
      <3>. QED
        BY <3>1, <3>2 DEF ProjectionKinds
    <2>. QED
      BY <2>1, <2>3, <2>5
  <1>. QED
    BY <1>1, <1>2

LEMMA HeldOnUrgent ==
  ASSUME NEW P, NEW x \in Shapes(P), Answers \subseteq P,
         NEW n \in Nat, NEW kind \in ProjectionKinds
  PROVE  Held(OnUrgent(x, n), kind) = Held(x, kind) + Same("urgent", kind)
  <1>. DEFINE a == Result("ack", n)
              e == Result("urgent", n)
              y == [x EXCEPT !.posted = Append(@, a)]
              Q == P \cup {a}
  <1>1. a.kind = "ack" /\ e.kind = "urgent"
    BY DEF Result
  <1>2. OnUrgent(x, n) =
          IF x.payload THEN [y EXCEPT !.queue = Append(@, n)]
          ELSE [y EXCEPT !.served = Append(@, n), !.posted = Append(@, e)]
    BY DEF OnUrgent
  <1>. HIDE DEF a, e
  <1>3. /\ y \in Shapes(Q) /\ y.payload = x.payload
        /\ Held(y, kind) = Held(x, kind)
    <2>1. /\ y \in Shapes(Q) /\ y.payload = x.payload
          /\ Held(y, kind) = Held(x, kind) + Same(a.kind, kind)
      <3>1. /\ y \in Shapes(Q) /\ y.inbox = x.inbox
            /\ y.payload = x.payload /\ y.queue = x.queue
            /\ y.posted = Append(x.posted, a)
        BY PostedMore, Zenon
      <3>. HIDE DEF y
      <3>. QED
        BY <3>1, HeldPost
    <2>2. Same(a.kind, kind) = 0
      BY <1>1 DEF Same, ProjectionKinds
    <2>3. Held(x, kind) \in Nat
      BY HeldType
    <2>. QED
      BY <2>1, <2>2, <2>3
  <1>. HIDE DEF y, Q
  <1>4. /\ y.queue \in Seq(Nat) /\ Len(y.queue) \in Nat
        /\ Number(y.inbox, kind) \in Nat /\ Number(y.posted, kind) \in Nat
        /\ y.served \in Seq(Nat)
    BY <1>3, HeldType DEF Shapes
  <1>5. CASE x.payload
    <2>. DEFINE q == Append(y.queue, n)
                u == [y EXCEPT !.queue = q]
    <2>1. q \in Seq(Nat) /\ Len(q) = Len(y.queue) + 1
      BY <1>4, AppendProperties
    <2>2. OnUrgent(x, n) = u
      BY <1>2, <1>5
    <2>. HIDE DEF q
    <2>3. /\ u.inbox = y.inbox /\ u.payload = y.payload /\ u.queue = q
          /\ u.posted = y.posted
      BY <1>3, Zenon DEF Shapes
    <2>. HIDE DEF u
    <2>4. Held(u, kind) = Held(y, kind) + Same("urgent", kind)
      <3>1. /\ Kept(y.queue, y.payload, kind) \in Nat
            /\ Kept(q, y.payload, kind) = Kept(y.queue, y.payload, kind)
                                          + Same("urgent", kind)
        <4>1. CASE kind = "urgent"
          BY <1>4, <2>1, <4>1 DEF Kept, Same
        <4>2. CASE kind = "heavy"
          BY <4>2 DEF Kept, Same
        <4>. QED
          BY <4>1, <4>2 DEF ProjectionKinds
      <3>2. Same("urgent", kind) \in Nat
        BY DEF Same
      <3>. QED
        BY <1>4, <2>3, <3>1, <3>2 DEF Held
    <2>. QED
      BY <1>3, <2>2, <2>4
  <1>6. CASE ~x.payload
    <2>. DEFINE s == Append(y.served, n)
                z == [y EXCEPT !.served = s]
                u == [z EXCEPT !.posted = Append(@, e)]
    <2>1. s \in Seq(Nat)
      BY <1>4, AppendProperties
    <2>. HIDE DEF s
    <2>2. /\ z \in Shapes(Q) /\ z.inbox = y.inbox /\ z.payload = y.payload
          /\ z.queue = y.queue /\ z.posted = y.posted
      BY <1>3, <2>1, Zenon DEF Shapes
    <2>3. OnUrgent(x, n) = u
      BY <1>2, <1>6 DEF s
    <2>. HIDE DEF z
    <2>4. Held(u, kind) = Held(z, kind) + Same(e.kind, kind)
      <3>1. /\ u.inbox = z.inbox /\ u.payload = z.payload
            /\ u.queue = z.queue /\ u.posted = Append(z.posted, e)
        BY <2>2, PostedMore, Zenon
      <3>. HIDE DEF u
      <3>. QED
        BY <2>2, <3>1, HeldPost
    <2>5. Held(z, kind) = Held(y, kind)
      BY <2>2, HeldSame
    <2>. QED
      BY <1>1, <1>3, <2>3, <2>4, <2>5
  <1>. QED
    BY <1>5, <1>6

LEMMA GoodShapes ==
  ASSUME NEW md, NEW v, Good(v, md)
  PROVE  v \in Shapes(Posts(md)) /\ Answers \subseteq Posts(md)
  BY Zenon DEF Good, WorkersOf, Shapes, Posts

LEMMA HeldHandled ==
  ASSUME NEW v, Good(v, mode), v.inbox # <<>>, NEW w,
         NEW kind \in ProjectionKinds
  PROVE  Held(IF Head(v.inbox).kind = "heavy" THEN OnHeavy(w, Looked(v))
              ELSE OnUrgent(Looked(v), Head(v.inbox).run), kind)
           = Held(v, kind)
  <1>. DEFINE P == Posts(mode)
              m == Head(v.inbox)
              x == Looked(v)
  <1>1. v \in Shapes(P) /\ Answers \subseteq P
    BY GoodShapes
  <1>2. m \in UrgentAsks \cup {HeavyAsk}
    BY <1>1, HeldType, AskedTail
  <1>. HIDE DEF P
  <1>3. /\ x \in Shapes(P) /\ x.payload = v.payload
        /\ Held(v, kind) = Held(x, kind) + Same(m.kind, kind)
    BY <1>1, HeldLooked
  <1>. HIDE DEF x
  <1>4. CASE m.kind = "heavy"
    <2>1. Waiting(v)
      <3>1. AllUrgent(v.inbox) => m \in UrgentAsks
        BY <1>1, HeldType, AskedTail
      <3>2. ~AllUrgent(v.inbox)
        BY <1>4, <3>1 DEF UrgentAsks
      <3>. QED
        BY <3>2, Zenon DEF Good, Ready, Done
    <2>2. x.payload = FALSE
      BY <1>3, <2>1 DEF Waiting
    <2>3. Held(OnHeavy(w, x), kind) = Held(x, kind) + Same("heavy", kind)
      BY <1>1, <1>3, <2>2, HeldOnHeavy
    <2>. QED
      BY <1>3, <1>4, <2>3 DEF x
  <1>5. CASE m.kind # "heavy"
    <2>1. m.kind = "urgent" /\ m.run \in Nat
      BY <1>2, <1>5 DEF UrgentAsks, HeavyAsk
    <2>2. Held(OnUrgent(x, m.run), kind) = Held(x, kind) + Same("urgent", kind)
      BY <1>1, <1>3, <2>1, HeldOnUrgent
    <2>. QED
      BY <1>3, <1>5, <2>1, <2>2 DEF x
  <1>. QED
    BY <1>4, <1>5

LEMMA HeldResumed ==
  ASSUME NEW v, Good(v, mode), v.yielding, NEW w,
         NEW kind \in ProjectionKinds
  PROVE  Held(ProcessScheduledChunk(w, [v EXCEPT !.yielding = FALSE]), kind)
           = Held(v, kind)
  <1>. DEFINE P == Posts(mode)
              x == [v EXCEPT !.yielding = FALSE]
  <1>1. v \in Shapes(P) /\ Answers \subseteq P
    BY GoodShapes
  <1>2. v.payload
    BY Zenon DEF Good, Waiting, Ready, Done
  <1>. HIDE DEF P
  <1>3. /\ x \in Shapes(P) /\ x.inbox = v.inbox /\ x.payload = v.payload
        /\ x.queue = v.queue /\ x.posted = v.posted
    BY <1>1, Zenon DEF Shapes
  <1>4. x.payload = TRUE
    BY <1>1, <1>2, <1>3, HeldType
  <1>. HIDE DEF x
  <1>5. Held(ProcessScheduledChunk(w, x), kind) = Held(x, kind)
    BY <1>1, <1>3, <1>4, HeldProcess
  <1>6. Held(x, kind) = Held(v, kind)
    BY <1>3, HeldSame
  <1>. QED
    BY <1>5, <1>6 DEF x
-----------------------------------------------------------------------------
(* Measured runs of the page.                                               *)

LEMMA OfRunType ==
  ASSUME PageInv, NEW w \in 1 .. runs, NEW kind
  PROVE  /\ Good(workers[w], mode) /\ outbox[w] \in Seq(Posts(mode))
         /\ Held(workers[w], kind) \in Nat
         /\ Number(outbox[w], kind) \in Nat /\ OfRun(w, kind) \in Nat
  <1>1. Good(workers[w], mode) /\ outbox[w] \in Seq(Posts(mode))
    BY ElementOfSeq DEF PageInv
  <1>2. Held(workers[w], kind) \in Nat
    BY <1>1, GoodShapes, HeldType
  <1>3. Number(outbox[w], kind) \in Nat
    BY <1>1, NumberType
  <1>. QED
    BY <1>1, <1>2, <1>3 DEF OfRun

LEMMA AtPageType ==
  ASSUME PageInv, MeasuredInv, NEW kind
  PROVE  /\ Len(timers) \in Nat /\ Number(pending, kind) \in Nat
         /\ AtPage(kind) \in Nat
  <1>1. Len(timers) \in Nat
    BY LenProperties DEF PageInv
  <1>2. Number(pending, kind) \in Nat
    BY NumberType DEF MeasuredInv
  <1>. QED
    BY <1>1, <1>2 DEF AtPage

\* A step that starts no run keeps what it makes no more of.
LEMMA NoMore ==
  ASSUME PageInv, MeasuredInv, runs' = runs, NEW kind \in ProjectionKinds,
         \A w \in 1 .. runs - 1 : OfRun(w, kind)' = OfRun(w, kind),
         runs > 0 => AtPage(kind)' + OfRun(runs, kind)'
                       <= AtPage(kind) + OfRun(runs, kind),
         AtPage(kind)' \in Nat,
         runs > 0 => OfRun(runs, kind)' \in Nat
  PROVE  AtMostOnce(kind)'
  <1>1. AtMostOnce(kind)
    BY DEF MeasuredInv
  <1>2. runs > 0 => runs \in 1 .. runs
    BY DEF PageInv
  <1>3. /\ runs > 0 => OfRun(runs, kind) \in Nat
        /\ AtPage(kind) \in Nat
    BY <1>2, OfRunType, AtPageType
  <1>4. \A w \in 1 .. runs - 1 : OfRun(w, kind)' = 0
    BY <1>1 DEF AtMostOnce
  <1>5. runs > 0 => AtPage(kind)' + OfRun(runs, kind)' <= 1
    BY <1>1, <1>3 DEF AtMostOnce
  <1>. QED
    BY <1>4, <1>5 DEF AtMostOnce

LEMMA WorkerMeasured ==
  ASSUME PageInv, MeasuredInv, NEW w \in 1 .. runs, NEW u, Good(u, mode),
         \A kind \in ProjectionKinds : Held(u, kind) = Held(workers[w], kind),
         Becomes(w, u)
  PROVE  MeasuredInv'
  <1>. DEFINE z == [u EXCEPT !.posted = <<>>]
  <1>1. u \in Shapes(Posts(mode))
    BY GoodShapes
  <1>2. /\ z.inbox = u.inbox /\ z.payload = u.payload /\ z.queue = u.queue
        /\ z.posted = <<>>
    BY <1>1, Zenon DEF Shapes
  <1>3. /\ workers' = [workers EXCEPT ![w] = z]
        /\ outbox' = [outbox EXCEPT ![w] = @ \o u.posted]
        /\ runs' = runs /\ UNCHANGED pageVars
    BY DEF Becomes
  <1>. HIDE DEF z
  <1>4. /\ \A x \in 1 .. runs :
             workers'[x] = IF x = w THEN z ELSE workers[x]
        /\ \A x \in 1 .. runs :
             outbox'[x] = IF x = w THEN outbox[w] \o u.posted ELSE outbox[x]
    <2>1. DOMAIN workers = 1 .. runs /\ DOMAIN outbox = 1 .. runs
      BY LenProperties DEF PageInv
    <2>. QED
      BY <1>3, <2>1
  <1>5. ASSUME NEW kind \in ProjectionKinds
        PROVE  AtMostOnce(kind)'
    <2>1. Held(z, kind) + Number(u.posted, kind) = Held(workers[w], kind)
      <3>1. Number(z.posted, kind) = 0
        BY <1>2, NumberNone
      <3>2. /\ Number(u.inbox, kind) \in Nat /\ Number(u.posted, kind) \in Nat
            /\ Kept(u.queue, u.payload, kind) \in Nat
        BY <1>1, HeldType
      <3>3. Held(z, kind) + Number(u.posted, kind) = Held(u, kind)
        BY <1>2, <3>1, <3>2 DEF Held
      <3>. QED
        BY <3>3
    <2>2. Number(outbox[w] \o u.posted, kind)
            = Number(outbox[w], kind) + Number(u.posted, kind)
      <3>1. outbox[w] \in Seq(Posts(mode)) /\ u.posted \in Seq(Posts(mode))
        BY <1>1, OfRunType, HeldType
      <3>. QED
        BY <3>1, NumberConcat
    <2>3. /\ Number(u.posted, kind) \in Nat /\ Number(outbox[w], kind) \in Nat
          /\ Held(workers[w], kind) \in Nat /\ Held(z, kind) \in Nat
      <3>1. Number(u.posted, kind) \in Nat
        BY <1>1, HeldType
      <3>2. Number(outbox[w], kind) \in Nat /\ Held(workers[w], kind) \in Nat
        BY OfRunType
      <3>3. z \in Shapes(Posts(mode))
        <4>1. <<>> \in Seq(Posts(mode))
          OBVIOUS
        <4>. QED
          BY <1>1, <4>1, Zenon DEF Shapes, z
      <3>. QED
        BY <3>1, <3>2, <3>3, HeldType
    <2>4. \A x \in 1 .. runs : OfRun(x, kind)' = OfRun(x, kind)
      <3>1. OfRun(w, kind)' = OfRun(w, kind)
        <4>1. workers'[w] = z /\ outbox'[w] = outbox[w] \o u.posted
          BY <1>4
        <4>2. OfRun(w, kind)'
                = Held(z, kind) + (Number(outbox[w], kind)
                                   + Number(u.posted, kind))
          BY <2>2, <4>1 DEF OfRun
        <4>. QED
          BY <2>1, <2>3, <4>2 DEF OfRun
      <3>2. ASSUME NEW x \in 1 .. runs, x # w
            PROVE  OfRun(x, kind)' = OfRun(x, kind)
        BY <1>4, <3>2 DEF OfRun
      <3>. QED
        BY <3>1, <3>2
    <2>5. AtPage(kind)' = AtPage(kind)
      BY <1>3 DEF pageVars, AtPage
    <2>6. AtPage(kind) \in Nat
      BY AtPageType
    <2>7. runs > 0 => runs \in 1 .. runs
      BY DEF PageInv
    <2>8. runs > 0 => OfRun(runs, kind) \in Nat
      BY <2>7, OfRunType
    <2>9. \A x \in 1 .. runs - 1 : x \in 1 .. runs
      BY DEF PageInv
    <2>. QED
      BY <1>3, <2>4, <2>5, <2>6, <2>7, <2>8, <2>9, NoMore
  <1>6. \A x \in 1 .. runs : workers'[x].posted = <<>>
    BY <1>2, <1>4 DEF MeasuredInv
  <1>. QED
    BY <1>3, <1>5, <1>6 DEF MeasuredInv, pageVars, UnderWay

LEMMA StartMeasured ==
  ASSUME PageInv, MeasuredInv, Measured, CaptureStart
  PROVE  MeasuredInv' /\ runs >= Len(ends) /\ ~(runs > Len(ends))
  <1>. PICK n : n = runs + 1
    OBVIOUS
  <1>1. /\ ~UnderWay /\ mounted /\ mounted' = mounted
        /\ runs' = n /\ committed' = {} /\ current' = n
        /\ pending' = [i \in DOMAIN pending |->
                        [pending[i] EXCEPT !.counted = FALSE]]
        /\ workers' = Append(workers, NewWorker)
        /\ outbox' = Append(outbox, <<>>)
        /\ timers' = Append(timers, n) /\ ends' = ends
    BY DEF CaptureStart, Measured, Cleared
  <1>2. /\ runs \in Nat /\ n \in Nat /\ n > 0
        /\ timers \in Seq(Nat) /\ Len(timers) \in Nat
        /\ Len(workers) = runs /\ Len(outbox) = runs
        /\ workers \in Seq(WorkersOf(mode))
        /\ outbox \in Seq(Seq(Posts(mode)))
    BY LenProperties DEF PageInv
  <1>3. runs > 0 => committed = ProjectionKinds /\ runs \in 1 .. runs
    BY <1>1, <1>2 DEF UnderWay
  <1>4. ASSUME NEW kind \in ProjectionKinds, runs > 0
        PROVE  /\ Number(pending, kind) = 0 /\ OfRun(runs, kind) = 0
               /\ kind = "urgent" => Len(timers) = 0
    <2>1. AtMostOnce(kind)
      BY DEF MeasuredInv
    <2>2. AtPage(kind) + OfRun(runs, kind) <= 1
      BY <1>4, <2>1 DEF AtMostOnce
    <2>3. /\ Number(pending, kind) \in Nat
          /\ OfRun(runs, kind) \in Nat
      BY <1>3, <1>4, AtPageType, OfRunType
    <2>4. AtPage(kind) = (IF kind = "urgent" THEN Len(timers) ELSE 0)
                           + Number(pending, kind) + 1
      BY <1>3, <1>4 DEF AtPage
    <2>. QED
      BY <1>2, <2>2, <2>3, <2>4
  <1>5. pending = <<>>
    <2>1. CASE runs = 0
      BY <2>1 DEF MeasuredInv
    <2>2. CASE runs > 0
      <3>1. pending \in Seq(Rows)
        BY DEF MeasuredInv
      <3>2. SUFFICES ASSUME pending # <<>> PROVE FALSE
        OBVIOUS
      <3>3. 1 \in DOMAIN pending /\ pending[1].kind \in ProjectionKinds
        <4>1. Len(pending) \in Nat \ {0} /\ DOMAIN pending = 1 .. Len(pending)
          BY <3>1, <3>2, LenProperties, EmptySeq
        <4>2. pending[1] \in Rows
          BY <3>1, <4>1, ElementOfSeq
        <4>3. pending[1].kind \in ProjectionKinds
          BY <4>2 DEF Rows
        <4>. QED
          BY <4>1, <4>3
      <3>4. Number(pending, pending[1].kind) > 0
        BY <3>1, <3>3, NumberType
      <3>. QED
        BY <1>4, <2>2, <3>3, <3>4
    <2>. QED
      BY <1>2, <2>1, <2>2
  <1>6. pending' = <<>>
    <2>1. DOMAIN pending = {}
      BY <1>5
    <2>. QED
      BY <1>1, <2>1
  <1>7. Len(timers) = 0
    <2>1. CASE runs = 0
      <3>1. timers = <<>>
        <4>1. DOMAIN timers = 1 .. Len(timers)
          BY <1>2, LenProperties
        <4>2. \A i \in DOMAIN timers : timers[i] \in 1 .. 0
          BY <2>1 DEF PageInv
        <4>3. 1 \notin DOMAIN timers
          BY <4>2
        <4>4. Len(timers) = 0
          BY <1>2, <4>1, <4>3
        <4>. QED
          BY <1>2, <4>4, EmptySeq
      <3>. QED
        BY <3>1
    <2>2. CASE runs > 0
      BY <1>4, <2>2 DEF ProjectionKinds
    <2>. QED
      BY <1>2, <2>1, <2>2
  <1>8. Len(timers') = 1
    BY <1>1, <1>2, <1>7, AppendProperties
  <1>9. /\ \A w \in 1 .. runs : /\ workers'[w] = workers[w]
                                /\ outbox'[w] = outbox[w]
        /\ workers'[n] = NewWorker /\ outbox'[n] = <<>>
    <2>1. NewWorker \in WorkersOf(mode) /\ <<>> \in Seq(Posts(mode))
      BY NewWorkerIsGood DEF Good
    <2>. QED
      BY <1>1, <1>2, <2>1, AppendProperties
  <1>10. ASSUME NEW kind \in ProjectionKinds
         PROVE  AtMostOnce(kind)'
    <2>1. AtMostOnce(kind)
      BY DEF MeasuredInv
    <2>2. ASSUME NEW w \in 1 .. n - 1
          PROVE  OfRun(w, kind)' = 0
      <3>1. w \in 1 .. runs
        BY <1>2, <2>2
      <3>2. OfRun(w, kind)' = OfRun(w, kind)
        BY <1>9, <3>1 DEF OfRun
      <3>3. CASE w = runs
        BY <1>2, <1>4, <3>1, <3>2, <3>3
      <3>4. CASE w # runs
        <4>1. w \in 1 .. runs - 1
          BY <1>2, <3>1, <3>4
        <4>. QED
          BY <2>1, <3>2, <4>1 DEF AtMostOnce
      <3>. QED
        BY <3>3, <3>4
    <2>3. OfRun(n, kind)' = Same("heavy", kind)
      <3>1. /\ NewWorker.inbox = <<HeavyAsk>> /\ NewWorker.payload = FALSE
            /\ NewWorker.queue = <<>> /\ NewWorker.posted = <<>>
        BY DEF NewWorker, HeavyAsk
      <3>2. Number(<<HeavyAsk>>, kind) = Same("heavy", kind)
        <4>1. HeavyAsk.kind = "heavy"
          BY DEF HeavyAsk
        <4>. QED
          BY <4>1, NumberOne
      <3>3. Kept(NewWorker.queue, NewWorker.payload, kind) = 0
        BY <3>1 DEF Kept
      <3>4. Same("heavy", kind) \in Nat
        BY DEF Same
      <3>5. Number(<<>>, kind) = 0
        BY NumberNone
      <3>6. Held(NewWorker, kind) = Same("heavy", kind)
        BY <3>1, <3>2, <3>3, <3>4, <3>5 DEF Held
      <3>. QED
        BY <1>9, <3>4, <3>5, <3>6 DEF OfRun
    <2>4. AtPage(kind)' = Same("urgent", kind)
      BY <1>1, <1>6, <1>8, NumberNone DEF AtPage, Same, ProjectionKinds
    <2>5. Same("urgent", kind) + Same("heavy", kind) = 1
      BY DEF Same, ProjectionKinds
    <2>. QED
      BY <1>1, <2>2, <2>3, <2>4, <2>5 DEF AtMostOnce
  <1>11. \A w \in 1 .. n : workers'[w].posted = <<>>
    <2>1. \A w \in 1 .. n : w \in 1 .. runs \/ w = n
      BY <1>2
    <2>2. NewWorker.posted = <<>>
      BY DEF NewWorker
    <2>. QED
      BY <1>9, <2>1, <2>2 DEF MeasuredInv
  <1>12. Len(ends) = runs /\ ends \in Seq(Nat)
    BY <1>1 DEF MeasuredInv
  <1>13. UnderWay'
    BY <1>1, <1>2 DEF UnderWay, ProjectionKinds
  <1>. QED
    <2>1. n - 1 = runs
      BY <1>2
    <2>2. <<>> \in Seq(Rows)
      OBVIOUS
    <2>3. MeasuredInv'
      BY <1>1, <1>2, <1>6, <1>10, <1>11, <1>12, <1>13, <2>1, <2>2
         DEF MeasuredInv
    <2>. QED
      BY <1>2, <1>12, <2>3

LEMMA DispatchMeasured ==
  ASSUME PageInv, MeasuredInv, DispatchUrgentRequest
  PROVE  MeasuredInv'
  <1>. DEFINE e == Result("urgent", Head(timers))
              z == [workers[current] EXCEPT !.inbox = Append(@, e)]
  <1>1. /\ timers # <<>> /\ timers' = Tail(timers)
        /\ workers' = IF current = 0 THEN workers
                      ELSE [workers EXCEPT ![current].inbox = Append(@, e)]
        /\ runs' = runs /\ outbox' = outbox
        /\ mounted' = mounted /\ current' = current /\ pending' = pending
        /\ committed' = committed /\ ends' = ends
    BY DEF DispatchUrgentRequest
  <1>2. /\ timers \in Seq(Nat) /\ runs \in Nat /\ DOMAIN workers = 1 .. runs
        /\ current \in {0, runs}
    BY LenProperties DEF PageInv, MeasuredInv
  <1>3. Len(timers') = Len(timers) - 1 /\ Len(timers) \in Nat \ {0}
    BY <1>1, <1>2, HeadTailProperties, LenProperties, EmptySeq
  <1>4. ASSUME NEW kind \in ProjectionKinds
        PROVE  AtPage(kind) = AtPage(kind)' + Same("urgent", kind)
               /\ AtPage(kind)' \in Nat
    <2>1. Number(pending, kind) \in Nat
      BY AtPageType
    <2>2. AtPage(kind)' = (IF kind = "urgent" THEN Len(timers') ELSE 0)
                            + Number(pending, kind)
                            + (IF kind \in committed THEN 1 ELSE 0)
      BY <1>1 DEF AtPage
    <2>. QED
      BY <1>3, <2>1, <2>2 DEF AtPage, Same, ProjectionKinds
  <1>5. CASE current = 0
    <2>1. workers' = workers
      BY <1>1, <1>5
    <2>2. ASSUME NEW kind \in ProjectionKinds
          PROVE  AtMostOnce(kind)'
      <3>1. \A w \in 1 .. runs : OfRun(w, kind)' = OfRun(w, kind)
        BY <1>1, <2>1 DEF OfRun
      <3>2. \A w \in 1 .. runs : OfRun(w, kind) \in Nat
        BY OfRunType
      <3>3. runs > 0 => runs \in 1 .. runs
        BY <1>2
      <3>4. Same("urgent", kind) \in Nat
        BY DEF Same
      <3>5. /\ AtPage(kind)' <= AtPage(kind) /\ AtPage(kind)' \in Nat
            /\ AtPage(kind) \in Nat
        BY <1>4, <3>4
      <3>6. /\ runs > 0 => AtPage(kind)' + OfRun(runs, kind)'
                             <= AtPage(kind) + OfRun(runs, kind)
            /\ runs > 0 => OfRun(runs, kind)' \in Nat
            /\ \A w \in 1 .. runs - 1 : OfRun(w, kind)' = OfRun(w, kind)
        BY <1>1, <1>2, <3>1, <3>2, <3>3, <3>5
      <3>. QED
        BY <1>1, <3>5, <3>6, NoMore
    <2>. QED
      BY <1>1, <2>1, <2>2 DEF MeasuredInv, UnderWay
  <1>6. CASE current # 0
    <2>1. /\ current = runs /\ runs \in 1 .. runs
          /\ Good(workers[runs], mode)
          /\ workers[runs] \in Shapes(Posts(mode))
      BY <1>2, <1>6, OfRunType, GoodShapes
    <2>2. /\ workers'[runs] = z
          /\ \A w \in 1 .. runs : w # runs => workers'[w] = workers[w]
      BY <1>1, <1>2, <1>6, <2>1
    <2>. DEFINE b == Append(workers[runs].inbox, e)
    <2>3. /\ workers[runs].inbox \in Seq(UrgentAsks \cup {HeavyAsk})
          /\ workers[runs].posted = <<>>
      BY <2>1, HeldType DEF MeasuredInv
    <2>4. e.kind = "urgent" /\ e \in UrgentAsks \cup {HeavyAsk}
      BY <1>1, <1>2, HeadTailProperties DEF Result, UrgentAsks
    <2>5. z = [workers[runs] EXCEPT !.inbox = b]
      BY <2>1
    <2>. HIDE DEF e, z
    <2>6. /\ b \in Seq(UrgentAsks \cup {HeavyAsk})
          /\ \A kind : Number(b, kind) = Number(workers[runs].inbox, kind)
                                         + Same("urgent", kind)
      BY <2>3, <2>4, AppendProperties, NumberAppend
    <2>. HIDE DEF b
    <2>7. /\ z \in Shapes(Posts(mode)) /\ z.inbox = b
          /\ z.payload = workers[runs].payload
          /\ z.queue = workers[runs].queue /\ z.posted = <<>>
      BY <2>1, <2>3, <2>5, <2>6, Zenon DEF Shapes
    <2>8. ASSUME NEW kind \in ProjectionKinds
          PROVE  AtMostOnce(kind)'
      <3>1. Held(z, kind) = Held(workers[runs], kind) + Same("urgent", kind)
        <4>1. /\ Number(workers[runs].inbox, kind) \in Nat
              /\ Number(workers[runs].posted, kind) \in Nat
              /\ Kept(workers[runs].queue, workers[runs].payload, kind) \in Nat
          BY <2>1, HeldType
        <4>2. Same("urgent", kind) \in Nat
          BY DEF Same
        <4>. QED
          BY <2>3, <2>6, <2>7, <4>1, <4>2 DEF Held
      <3>2. /\ Held(workers[runs], kind) \in Nat
            /\ Number(outbox[runs], kind) \in Nat
            /\ Same("urgent", kind) \in Nat
        BY <2>1, OfRunType DEF Same
      <3>3. OfRun(runs, kind)' = OfRun(runs, kind) + Same("urgent", kind)
        <4>1. workers'[runs'] = z /\ outbox'[runs'] = outbox[runs]
          BY <1>1, <2>2
        <4>2. OfRun(runs, kind)' = Held(z, kind) + Number(outbox[runs], kind)
          BY <4>1 DEF OfRun
        <4>. QED
          BY <3>1, <3>2, <4>2 DEF OfRun
      <3>4. OfRun(runs, kind) \in Nat
        BY <3>2 DEF OfRun
      <3>5. /\ AtPage(kind)' + OfRun(runs, kind)'
                 <= AtPage(kind) + OfRun(runs, kind)
            /\ OfRun(runs, kind)' \in Nat /\ AtPage(kind)' \in Nat
        BY <1>4, <3>2, <3>3, <3>4
      <3>6. \A w \in 1 .. runs - 1 : w \in 1 .. runs /\ w # runs
        BY <1>2
      <3>7. \A w \in 1 .. runs - 1 : OfRun(w, kind)' = OfRun(w, kind)
        BY <1>1, <2>2, <3>6 DEF OfRun
      <3>. QED
        BY <1>1, <3>5, <3>7, NoMore
    <2>9. \A w \in 1 .. runs : workers'[w].posted = <<>>
      BY <2>2, <2>7 DEF MeasuredInv
    <2>. QED
      BY <1>1, <2>8, <2>9 DEF MeasuredInv, UnderWay
  <1>. QED
    BY <1>5, <1>6

LEMMA ResultMeasured ==
  ASSUME PageInv, MeasuredInv, NEW w \in 1 .. runs, HandleWorkerMessage(w)
  PROVE  MeasuredInv'
  <1>. DEFINE m == Head(outbox[w])
              row == [kind |-> m.kind, run |-> m.run, counted |-> TRUE]
  <1>1. /\ outbox[w] # <<>> /\ outbox' = [outbox EXCEPT ![w] = Tail(@)]
        /\ mounted
        /\ pending' = IF m.kind = "ack" THEN pending
                      ELSE Append(pending, row)
        /\ workers' = workers /\ runs' = runs /\ mounted' = mounted
        /\ current' = current /\ timers' = timers
        /\ committed' = committed /\ ends' = ends
    <2>1. mounted
      BY DEF MeasuredInv, PageInv
    <2>. QED
      BY <2>1, Zenon DEF HandleWorkerMessage
  <1>2. /\ outbox[w] \in Seq(Posts(mode)) /\ runs \in Nat
        /\ DOMAIN outbox = 1 .. runs /\ pending \in Seq(Rows)
    BY OfRunType, LenProperties DEF PageInv, MeasuredInv
  <1>3. /\ m \in Posts(mode) /\ Tail(outbox[w]) \in Seq(Posts(mode))
        /\ \A kind : Number(outbox[w], kind) = Number(Tail(outbox[w]), kind)
                                               + Same(m.kind, kind)
    BY <1>1, <1>2, NumberTail
  <1>4. m.kind \in {"ack", "urgent", "heavy"} /\ m.run \in Nat
    BY <1>3 DEF Posts, Answers, HeavyAnswers
  <1>. HIDE DEF m
  <1>5. /\ outbox'[w] = Tail(outbox[w])
        /\ \A x \in 1 .. runs : x # w => outbox'[x] = outbox[x]
    BY <1>1, <1>2
  <1>6. pending' \in Seq(Rows)
    <2>1. CASE m.kind = "ack"
      BY <1>1, <1>2, <2>1
    <2>2. CASE m.kind # "ack"
      <3>1. row \in Rows
        BY <1>4, <2>2 DEF Rows, ProjectionKinds
      <3>. HIDE DEF row
      <3>. QED
        BY <1>1, <1>2, <2>2, <3>1, AppendProperties
    <2>. QED
      BY <2>1, <2>2
  <1>7. ASSUME NEW kind \in ProjectionKinds
        PROVE  AtMostOnce(kind)'
    <2>1. /\ Number(outbox[w], kind) \in Nat
          /\ Number(Tail(outbox[w]), kind) \in Nat
          /\ Held(workers[w], kind) \in Nat /\ OfRun(w, kind) \in Nat
          /\ Same(m.kind, kind) \in Nat
      BY <1>3, OfRunType, NumberType DEF Same
    <2>2. Number(pending', kind) = Number(pending, kind) + Same(m.kind, kind)
      <3>1. CASE m.kind = "ack"
        <4>1. Same(m.kind, kind) = 0
          BY <3>1 DEF Same, ProjectionKinds
        <4>2. Number(pending, kind) \in Nat
          BY AtPageType
        <4>. QED
          BY <1>1, <3>1, <4>1, <4>2
      <3>2. CASE m.kind # "ack"
        <4>1. row.kind = m.kind
          OBVIOUS
        <4>. HIDE DEF row
        <4>. QED
          BY <1>1, <1>2, <3>2, <4>1, NumberAppend
      <3>. QED
        BY <3>1, <3>2
    <2>3. AtPage(kind)' = AtPage(kind) + Same(m.kind, kind)
      <3>1. Number(pending, kind) \in Nat /\ Len(timers) \in Nat
        BY AtPageType
      <3>. DEFINE t == IF kind = "urgent" THEN Len(timers) ELSE 0
                  c == IF kind \in committed THEN 1 ELSE 0
      <3>2. t \in Nat /\ c \in Nat
        BY <3>1
      <3>3. /\ AtPage(kind) = t + Number(pending, kind) + c
            /\ AtPage(kind)' = t + Number(pending', kind) + c
        BY <1>1 DEF AtPage
      <3>. HIDE DEF t, c
      <3>. QED
        BY <2>1, <2>2, <3>1, <3>2, <3>3
    <2>4. OfRun(w, kind) = OfRun(w, kind)' + Same(m.kind, kind)
          /\ OfRun(w, kind)' \in Nat
      BY <1>1, <1>3, <1>5, <2>1 DEF OfRun
    <2>5. \A x \in 1 .. runs : x # w => OfRun(x, kind)' = OfRun(x, kind)
      BY <1>1, <1>5 DEF OfRun
    <2>6. AtPage(kind) \in Nat /\ AtPage(kind)' \in Nat
      BY <2>1, <2>3, AtPageType
    <2>7. CASE w = runs
      <3>1. /\ AtPage(kind)' + OfRun(runs, kind)'
                 <= AtPage(kind) + OfRun(runs, kind)
            /\ OfRun(runs, kind)' \in Nat
        BY <1>1, <2>1, <2>3, <2>4, <2>6, <2>7
      <3>2. \A x \in 1 .. runs - 1 : x \in 1 .. runs /\ x # w
        BY <1>2, <2>7
      <3>. QED
        BY <1>1, <2>5, <2>6, <3>1, <3>2, NoMore
    <2>8. CASE w # runs
      <3>1. w \in 1 .. runs - 1 /\ runs \in 1 .. runs
        BY <1>2, <2>8
      <3>2. OfRun(w, kind) = 0
        BY <3>1 DEF MeasuredInv, AtMostOnce
      <3>3. OfRun(w, kind)' = OfRun(w, kind) /\ Same(m.kind, kind) = 0
        BY <2>1, <2>4, <3>2
      <3>4. OfRun(runs, kind)' = OfRun(runs, kind) /\ OfRun(runs, kind) \in Nat
        <4>1. OfRun(runs, kind)' = OfRun(runs, kind)
          BY <1>1, <1>5, <2>8, <3>1 DEF OfRun
        <4>2. OfRun(runs, kind) \in Nat
          BY <3>1, OfRunType
        <4>. QED
          BY <4>1, <4>2
      <3>5. AtPage(kind)' = AtPage(kind)
        BY <2>3, <2>6, <3>3
      <3>6. \A x \in 1 .. runs - 1 : OfRun(x, kind)' = OfRun(x, kind)
        <4>1. \A x \in 1 .. runs - 1 : x \in 1 .. runs
          BY <1>2
        <4>. QED
          BY <2>5, <3>3, <4>1
      <3>7. AtPage(kind)' + OfRun(runs, kind)'
              <= AtPage(kind) + OfRun(runs, kind)
        BY <2>6, <3>4, <3>5
      <3>. QED
        BY <1>1, <2>6, <3>4, <3>6, <3>7, NoMore
    <2>. QED
      BY <2>7, <2>8
  <1>8. runs > 0
    BY <1>2
  <1>. QED
    BY <1>1, <1>6, <1>7, <1>8 DEF MeasuredInv, UnderWay

(* What is rendered is of kinds not committed before, and ends the run when *)
(* they are all in.                                                         *)
LEMMA RenderMeasured ==
  ASSUME PageInv, MeasuredInv, RenderRows
  PROVE  /\ MeasuredInv'
         /\ runs > Len(ends) /\ runs' = runs
         /\ \E some \in (SUBSET (ProjectionKinds \ committed)) \ {{}} :
              /\ committed' = committed \cup some
              /\ ends' = IF committed' = ProjectionKinds
                         THEN Append(ends, runs) ELSE ends
  <1>. DEFINE taken == {c \in Range(pending) : c.counted}
              some == {c.kind : c \in taken}
  <1>1. /\ pending # <<>> /\ pending' = <<>>
        /\ committed' = committed \cup some
        /\ IF taken # {} /\ committed' = ProjectionKinds
           THEN current' = 0 /\ ends' = Append(ends, runs)
           ELSE UNCHANGED <<current, ends>>
        /\ runs' = runs /\ mounted' = mounted /\ workers' = workers
        /\ outbox' = outbox /\ timers' = timers
    BY DEF RenderRows
  <1>2. /\ runs \in Nat /\ pending \in Seq(Rows)
        /\ committed \subseteq ProjectionKinds /\ ends \in Seq(Nat)
        /\ Len(ends) = IF UnderWay THEN runs - 1 ELSE runs
        /\ runs # 0
    BY <1>1 DEF PageInv, MeasuredInv
  <1>3. taken = Range(pending) /\ taken # {} /\ some # {}
        /\ some \subseteq ProjectionKinds
        /\ \A k \in some : \E i \in DOMAIN pending : pending[i].kind = k
    <2>1. Len(pending) \in Nat \ {0} /\ DOMAIN pending = 1 .. Len(pending)
      BY <1>1, <1>2, LenProperties, EmptySeq
    <2>2. \A i \in DOMAIN pending : pending[i] \in Rows
      BY <1>2, <2>1, ElementOfSeq
    <2>3. \A i \in DOMAIN pending : pending[i].counted
                                    /\ pending[i].kind \in ProjectionKinds
      BY <2>2 DEF Rows
    <2>4. taken = Range(pending)
      BY <2>3 DEF Range
    <2>5. pending[1] \in Range(pending)
      BY <2>1 DEF Range
    <2>6. \A k \in some : \E i \in DOMAIN pending : pending[i].kind = k
      BY DEF Range
    <2>7. pending[1].kind \in some
      BY <2>4, <2>5
    <2>. QED
      BY <2>3, <2>4, <2>5, <2>6, <2>7
  <1>. HIDE DEF taken, some
  <1>4. /\ runs \in 1 .. runs
        /\ \A kind \in ProjectionKinds :
             /\ AtMostOnce(kind) /\ Number(pending, kind) \in Nat
             /\ Len(timers) \in Nat /\ OfRun(runs, kind) \in Nat
    BY <1>2, AtPageType, OfRunType DEF MeasuredInv
  <1>5. \A kind \in some : /\ kind \in ProjectionKinds
                           /\ Number(pending, kind) > 0
    BY <1>2, <1>3, NumberType
  <1>6. ASSUME NEW kind \in ProjectionKinds
        PROVE  /\ AtMostOnce(kind)'
               /\ kind \in some => kind \notin committed
    <2>. DEFINE t == IF kind = "urgent" THEN Len(timers) ELSE 0
                c == IF kind \in committed THEN 1 ELSE 0
                d == IF kind \in committed' THEN 1 ELSE 0
                p == Number(pending, kind)
                r == OfRun(runs, kind)
    <2>1. t \in Nat /\ p \in Nat /\ r \in Nat /\ c \in {0, 1} /\ d \in {0, 1}
      BY <1>4
    <2>2. AtPage(kind) = t + p + c
      BY DEF AtPage
    <2>3. AtPage(kind)' = t + 0 + d
      BY <1>1, NumberNone DEF AtPage
    <2>4. t + p + c + r <= 1
      BY <1>2, <1>4, <2>2 DEF AtMostOnce
    <2>5. d <= p + c /\ (kind \in some => p > 0)
      BY <1>1, <1>4, <1>5
    <2>6. OfRun(runs, kind)' = r
      BY <1>1 DEF OfRun
    <2>7. kind \in some => kind \notin committed
      <3>1. kind \in committed => c = 1
        OBVIOUS
      <3>. HIDE DEF t, c, d, p, r
      <3>. QED
        BY <2>1, <2>4, <2>5, <3>1
    <2>8. \A w \in 1 .. runs - 1 : OfRun(w, kind)' = OfRun(w, kind)
      BY <1>1 DEF OfRun
    <2>. HIDE DEF t, c, d, p
    <2>9. /\ AtPage(kind)' + OfRun(runs, kind)'
               <= AtPage(kind) + OfRun(runs, kind)
          /\ AtPage(kind)' \in Nat /\ OfRun(runs, kind)' \in Nat
      BY <2>1, <2>2, <2>3, <2>5, <2>6
    <2>10. AtMostOnce(kind)'
      BY <1>1, <2>8, <2>9, NoMore
    <2>. QED
      BY <2>7, <2>10
  <1>7. some \in (SUBSET (ProjectionKinds \ committed)) \ {{}}
    <2>1. \A kind \in some : kind \notin committed
      BY <1>5, <1>6
    <2>2. some \subseteq ProjectionKinds \ committed /\ some # {}
      BY <1>3, <2>1
    <2>. QED
      BY <2>2
  <1>8. UnderWay
    <2>1. committed # ProjectionKinds
      BY <1>7
    <2>. QED
      BY <1>2, <2>1 DEF UnderWay
  <1>9. Len(ends) = runs - 1 /\ runs > Len(ends)
    BY <1>2, <1>8
  <1>10. ends' = IF committed' = ProjectionKinds
                 THEN Append(ends, runs) ELSE ends
    BY <1>1, <1>3
  <1>11. /\ ends' \in Seq(Nat)
         /\ Len(ends') = IF committed' = ProjectionKinds
                         THEN runs ELSE runs - 1
    BY <1>2, <1>9, <1>10, AppendProperties
  <1>12. /\ committed' \subseteq ProjectionKinds /\ current' \in {0, runs}
         /\ UnderWay' <=> committed' # ProjectionKinds
    BY <1>1, <1>2, <1>3 DEF MeasuredInv, UnderWay
  <1>13. <<>> \in Seq(Rows)
    OBVIOUS
  <1>14. MeasuredInv'
    BY <1>1, <1>2, <1>6, <1>11, <1>12, <1>13 DEF MeasuredInv
  <1>. QED
    BY <1>1, <1>7, <1>9, <1>10, <1>14

LEMMA MeasuredStep ==
  ASSUME PageInv, Measured => MeasuredInv, [SchedulerNext]_schedulerVars
  PROVE  /\ Measured' => MeasuredInv'
         /\ [Promised!Next]_(Promised!runVars)
  <1>1. Measured' <=> Measured
    BY DEF Measured, SchedulerNext, schedulerVars, Mount, CaptureStart,
           DispatchUrgentRequest, RenderRows, WorkerStep, HandleMessage,
           YieldReturns, Becomes, HandleWorkerMessage
  <1>2. CASE ~Measured
    BY <1>1, <1>2 DEF Promised!runVars
  <1>3. CASE Measured
    <2>1. MeasuredInv
      BY <1>3
    <2>2. CASE CaptureStart
      <3>1. /\ MeasuredInv' /\ ~(runs > Len(ends)) /\ runs' = runs + 1
            /\ runs < MaxRuns /\ committed' = {} /\ ends' = ends
        BY <1>3, <2>1, <2>2, StartMeasured DEF CaptureStart, Cleared
      <3>2. Promised!Start
        BY <1>1, <1>3, <3>1 DEF Promised!Start, Promised!UnderWay
      <3>. QED
        BY <3>1, <3>2 DEF Promised!Next
    <2>3. CASE RenderRows
      <3>1. /\ MeasuredInv'
            /\ runs > Len(ends) /\ runs' = runs
            /\ \E some \in (SUBSET (ProjectionKinds \ committed)) \ {{}} :
                 /\ committed' = committed \cup some
                 /\ ends' = IF committed' = ProjectionKinds
                            THEN Append(ends, runs) ELSE ends
        BY <2>1, <2>3, RenderMeasured
      <3>2. Promised!UnderWay
        BY <1>3, <3>1 DEF Promised!UnderWay
      <3>3. PICK some \in (SUBSET (ProjectionKinds \ committed)) \ {{}} :
              /\ committed' = committed \cup some
              /\ ends' = IF committed' = ProjectionKinds
                         THEN Append(ends, runs) ELSE ends
        BY <3>1
      <3>4. Measured'
        BY <1>1, <1>3
      <3>. DEFINE c == IF Measured THEN committed ELSE {}
                  e == IF Measured THEN ends ELSE <<>>
                  r == IF Measured THEN runs ELSE 0
      <3>5. /\ c = committed /\ e = ends /\ r = runs
            /\ c' = committed' /\ e' = ends' /\ r' = runs'
        BY <1>3, <3>4
      <3>6. /\ \E any \in (SUBSET (ProjectionKinds \ c)) \ {{}} :
                 /\ c' = c \cup any
                 /\ e' = IF c' = ProjectionKinds THEN Append(e, r) ELSE e
            /\ r' = r
        <4>. HIDE DEF c, e, r
        <4>. QED
          BY <3>1, <3>3, <3>5
      <3>7. Promised!Commit
        BY <3>2, <3>6 DEF Promised!Commit
      <3>. QED
        BY <3>1, <3>7 DEF Promised!Next
    <2>4. CASE ~CaptureStart /\ ~RenderRows
      <3>1. /\ runs' = runs /\ committed' = committed /\ ends' = ends
        BY <2>4 DEF SchedulerNext, schedulerVars, pageVars, Mount,
           DispatchUrgentRequest, WorkerStep, HandleMessage, YieldReturns,
           Becomes, HandleWorkerMessage
      <3>2. UNCHANGED Promised!runVars
        BY <1>1, <3>1 DEF Promised!runVars
      <3>3. MeasuredInv'
        <4>1. CASE Mount \/ UNCHANGED schedulerVars
          <5>1. /\ workers' = workers /\ outbox' = outbox
                /\ timers' = timers /\ pending' = pending
                /\ current' = current /\ mounted' \in {mounted, TRUE}
            BY <4>1 DEF Mount, schedulerVars, pageVars
          <5>. QED
            BY <2>1, <3>1, <5>1 DEF MeasuredInv, AtMostOnce, OfRun, AtPage,
                                    UnderWay
        <4>2. CASE DispatchUrgentRequest
          BY <2>1, <4>2, DispatchMeasured
        <4>3. ASSUME NEW w \in 1 .. runs, HandleWorkerMessage(w)
              PROVE  MeasuredInv'
          BY <2>1, <4>3, ResultMeasured
        <4>4. ASSUME NEW w \in 1 .. runs, HandleMessage(w)
              PROVE  MeasuredInv'
          <5>. DEFINE v == workers[w]
                      u == IF Head(v.inbox).kind = "heavy"
                           THEN OnHeavy(w, Looked(v))
                           ELSE OnUrgent(Looked(v), Head(v.inbox).run)
          <5>1. Becomes(w, u) /\ v.inbox # <<>> /\ Good(u, mode)
            BY <4>4, HandledIsGood, Zenon
          <5>2. Good(v, mode)
            BY DEF PageInv
          <5>3. \A kind \in ProjectionKinds : Held(u, kind) = Held(v, kind)
            BY <5>1, <5>2, HeldHandled
          <5>. HIDE DEF u
          <5>. QED
            BY <2>1, <5>1, <5>3, WorkerMeasured
        <4>5. ASSUME NEW w \in 1 .. runs, YieldReturns(w)
              PROVE  MeasuredInv'
          <5>. DEFINE v == workers[w]
                      u == ProcessScheduledChunk(w,
                             [v EXCEPT !.yielding = FALSE])
          <5>1. Becomes(w, u) /\ v.yielding /\ Good(u, mode)
            BY <4>5, ResumedIsGood, Zenon
          <5>2. Good(v, mode)
            BY DEF PageInv
          <5>3. \A kind \in ProjectionKinds : Held(u, kind) = Held(v, kind)
            BY <5>1, <5>2, HeldResumed
          <5>. HIDE DEF u
          <5>. QED
            BY <2>1, <5>1, <5>3, WorkerMeasured
        <4>. QED
          BY <2>4, <4>1, <4>2, <4>3, <4>4, <4>5 DEF SchedulerNext, WorkerStep
      <3>. QED
        BY <3>2, <3>3
    <2>. QED
      BY <2>2, <2>3, <2>4
  <1>. QED
    BY <1>2, <1>3

(***************************************************************************)
(* Driven as the measurements drive it, every step of the page is one of a *)
(* measured run or none: no run starts before the one before it has ended, *)
(* no kind is committed twice, and a run ends when both are in             *)
(* (p1_worker_scheduler_projection_baseline.html, lines 1022-1060 and      *)
(* 1090-1144).  That runs do end needs fairness.                           *)
(***************************************************************************)
THEOREM StepsOfMeasuredRuns ==
  SchedulerSpec => Promised!Init /\ [][Promised!Next]_(Promised!runVars)
  <1>1. SchedulerInit => Promised!Init /\ (Measured => MeasuredInv)
    <2>. SUFFICES ASSUME SchedulerInit
                  PROVE  Promised!Init /\ (Measured => MeasuredInv)
      OBVIOUS
    <2>1. /\ runs = 0 /\ current = 0 /\ pending = <<>> /\ committed = {}
          /\ ends = <<>>
      BY DEF SchedulerInit
    <2>2. Promised!Init
      BY <2>1 DEF Promised!Init
    <2>3. ~UnderWay
      BY <2>1 DEF UnderWay
    <2>4. \A kind \in ProjectionKinds : AtMostOnce(kind)
      BY <2>1 DEF AtMostOnce
    <2>5. <<>> \in Seq(Rows) /\ <<>> \in Seq(Nat) /\ Len(<<>>) = 0
      OBVIOUS
    <2>. QED
      BY <2>1, <2>2, <2>3, <2>4, <2>5 DEF MeasuredInv
  <1>2. /\ PageInv /\ (Measured => MeasuredInv)
        /\ [SchedulerNext]_schedulerVars
        => /\ (Measured => MeasuredInv)'
           /\ [Promised!Next]_(Promised!runVars)
    BY MeasuredStep
  <1>. QED
    BY <1>1, <1>2, PageInvariant, PTL DEF SchedulerSpec
=============================================================================
