---------------------------- MODULE PolicyProofs ----------------------------
(***************************************************************************)
(* Proofs about the pure policies: what FirstFailure returns, for a table  *)
(* of any length, and which answers the projection and admission policies  *)
(* give, for every projection, snapshot, limits and bounds.                *)
(***************************************************************************)
EXTENDS ProjectionPolicy, AdmissionPolicy, FiniteSetTheorems,
        SequenceTheorems, WellFoundedInduction, TLAPS

(***************************************************************************)
(* A set of indices that is not empty has a least element: the one with    *)
(* the least initial segment.  The library's theorem on least numbers      *)
(* takes an operator as a parameter, so the least index is found through   *)
(* the well-founded order of finite sets.                                  *)
(***************************************************************************)
LEMMA LeastIndex ==
  ASSUME NEW n \in Nat, NEW T \in SUBSET (1 .. n), T # {}
  PROVE  \E i \in T : \A j \in T : i <= j
  <1>. DEFINE segments == { 1 .. i : i \in T }
              S == FiniteSubsetsOf(1 .. n)
              R == StrictSubsetOrdering(1 .. n)
  <1>1. IsWellFoundedOn(R, S)
    BY FS_StrictSubsetOrderingWellFounded
  <1>2. segments \subseteq S /\ segments # {}
    <2>1. ASSUME NEW i \in T PROVE 1 .. i \in S
      <3>1. 1 .. i \subseteq 1 .. n /\ i \in Int /\ 1 \in Int
        OBVIOUS
      <3>2. IsFiniteSet(1 .. i)
        BY <3>1, FS_Interval
      <3>. QED
        BY <3>1, <3>2 DEF FiniteSubsetsOf
    <2>. QED
      BY <2>1
  <1>3. \E x \in segments : \A y \in segments : ~ (<<y, x>> \in R)
    <2>. HIDE DEF segments, S, R
    <2>. QED
      BY <1>1, <1>2, WFMin
  <1>4. PICK i \in T : \A j \in T : ~ (<<1 .. j, 1 .. i>> \in R)
    BY <1>3
  <1>5. ASSUME NEW j \in T, j < i
        PROVE  FALSE
    <2>1. /\ 1 .. j \subseteq 1 .. i /\ 1 .. i \subseteq 1 .. n
          /\ i \in 1 .. i /\ i \notin 1 .. j
      BY <1>5
    <2>2. 1 .. j # 1 .. i
      BY <2>1
    <2>3. <<1 .. j, 1 .. i>> \in R
      BY <2>1, <2>2 DEF StrictSubsetOrdering
    <2>. QED
      BY <1>4, <2>3
  <1>. QED
    BY <1>5

(***************************************************************************)
(* A table that does not pass has a first row that fails.                  *)
(***************************************************************************)
LEMMA FirstFailureRow ==
  ASSUME NEW table, Len(table) \in Nat, ~AllPass(table)
  PROVE  \E i \in 1 .. Len(table) :
           /\ FirstFailure(table) = table[i]
           /\ ~table[i].passed
           /\ \A j \in 1 .. i - 1 : table[j].passed
  <1>. DEFINE failing == { i \in 1 .. Len(table) : ~table[i].passed }
  <1>1. failing # {} /\ failing \in SUBSET (1 .. Len(table))
    BY DEF AllPass
  <1>2. PICK i \in failing : \A j \in failing : i <= j
    BY <1>1, LeastIndex
  <1>3. i \in Nat /\ \A j \in failing : ~ (j < i)
    BY <1>1, <1>2
  <1>4. \A j \in 1 .. i - 1 : table[j].passed
    BY <1>3
  <1>. QED
    BY <1>4 DEF FirstFailure
-----------------------------------------------------------------------------
(* Sequences of rows                                                       *)

LEMMA ConcatAt ==
  ASSUME NEW S, NEW s \in Seq(S), NEW t \in Seq(S)
  PROVE  /\ s \o t \in Seq(S)
         /\ Len(s) \in Nat /\ Len(t) \in Nat
         /\ Len(s \o t) = Len(s) + Len(t)
         /\ \A i \in 1 .. Len(s) : (s \o t)[i] = s[i]
         /\ \A i \in 1 .. Len(t) : (s \o t)[Len(s) + i] = t[i]
  BY ConcatProperties

\* What three tables in a row hold, wherever the first two end.
LEMMA ThreeTables ==
  ASSUME NEW S, NEW a \in Seq(S), NEW b \in Seq(S), NEW c \in Seq(S)
  PROVE  LET abc == (a \o b) \o c
             ab == Len(a) + Len(b)
         IN /\ abc \in Seq(S)
            /\ Len(a) \in Nat /\ Len(b) \in Nat /\ Len(c) \in Nat
            /\ Len(abc) = ab + Len(c)
            /\ \A i \in 1 .. Len(a) : abc[i] = a[i]
            /\ \A i \in 1 .. Len(b) : abc[Len(a) + i] = b[i]
            /\ \A i \in 1 .. Len(c) : abc[ab + i] = c[i]
  <1>. DEFINE d == a \o b
  <1>1. /\ d \in Seq(S)
        /\ Len(a) \in Nat /\ Len(b) \in Nat
        /\ Len(d) = Len(a) + Len(b)
        /\ \A i \in 1 .. Len(a) : d[i] = a[i]
        /\ \A i \in 1 .. Len(b) : d[Len(a) + i] = b[i]
    BY ConcatAt
  <1>. HIDE DEF d
  <1>2. d \in Seq(S)
    BY <1>1
  <1>3. /\ d \o c \in Seq(S)
        /\ Len(c) \in Nat
        /\ Len(d \o c) = Len(d) + Len(c)
        /\ \A i \in 1 .. Len(d) : (d \o c)[i] = d[i]
        /\ \A i \in 1 .. Len(c) : (d \o c)[Len(d) + i] = c[i]
    BY <1>2, ConcatAt
  <1>. DEFINE abc == d \o c
  <1>4. /\ abc \in Seq(S)
        /\ Len(abc) = Len(a) + Len(b) + Len(c)
        /\ \A i \in 1 .. Len(d) : abc[i] = d[i]
        /\ \A i \in 1 .. Len(c) : abc[Len(a) + Len(b) + i] = c[i]
    BY <1>1, <1>3
  <1>. HIDE DEF abc
  <1>5. \A i \in 1 .. Len(a) : abc[i] = a[i]
    <2>1. \A i \in 1 .. Len(a) : i \in 1 .. Len(d)
      BY <1>1
    <2>. QED
      BY <1>1, <1>4, <2>1
  <1>6. \A i \in 1 .. Len(b) : abc[Len(a) + i] = b[i]
    <2>1. \A i \in 1 .. Len(b) : Len(a) + i \in 1 .. Len(d)
      BY <1>1
    <2>. QED
      BY <1>1, <1>4, <2>1
  <1>. QED
    BY <1>1, <1>3, <1>4, <1>5, <1>6 DEF abc, d

\* A table with a last row that always fails, for what passes all others.
LEMMA EndedTable ==
  ASSUME NEW S, NEW table \in Seq(S), NEW end \in S, ~end.passed
  PROVE  /\ AllPass(table) => FirstFailure(table \o <<end>>) = end
         /\ ~AllPass(table) =>
              \E i \in 1 .. Len(table) :
                /\ FirstFailure(table \o <<end>>) = table[i]
                /\ ~table[i].passed
                /\ \A j \in 1 .. i - 1 : table[j].passed
  <1>. DEFINE n == Len(table)
              ended == table \o <<end>>
  <1>1. /\ <<end>> \in Seq(S) /\ Len(<<end>>) = 1 /\ <<end>>[1] = end
    OBVIOUS
  <1>2. /\ n \in Nat /\ Len(ended) = n + 1
        /\ \A i \in 1 .. n : ended[i] = table[i]
        /\ ended[n + 1] = end
    BY <1>1, ConcatAt
  <1>. HIDE DEF ended, n
  <1>3. ~AllPass(ended) /\ Len(ended) \in Nat
    BY <1>2 DEF AllPass
  <1>4. PICK i \in 1 .. Len(ended) :
          /\ FirstFailure(ended) = ended[i]
          /\ ~ended[i].passed
          /\ \A j \in 1 .. i - 1 : ended[j].passed
    BY <1>3, FirstFailureRow
  <1>5. ASSUME AllPass(table) PROVE FirstFailure(ended) = end
    <2>1. i \notin 1 .. n
      BY <1>2, <1>4, <1>5 DEF AllPass, n
    <2>. QED
      BY <1>2, <1>4, <2>1
  <1>6. ASSUME ~AllPass(table)
        PROVE  \E k \in 1 .. n : /\ FirstFailure(ended) = table[k]
                                 /\ ~table[k].passed
                                 /\ \A j \in 1 .. k - 1 : table[j].passed
    <2>1. PICK k \in 1 .. n : ~table[k].passed
      BY <1>6 DEF AllPass, n
    <2>2. i <= k /\ k <= n
      BY <1>2, <1>4, <2>1
    <2>3. i \in 1 .. n
      BY <1>2, <1>4, <2>2
    <2>. QED
      BY <1>2, <1>4, <2>3
  <1>. QED
    BY <1>5, <1>6 DEF ended, n
-----------------------------------------------------------------------------
(* projection-policy.ts                                                    *)

FailureRow == [passed : BOOLEAN, error : RuntimeError]

LEMMA RowTuples ==
  ASSUME NEW S, NEW a \in S, NEW b \in S, NEW c \in S, NEW d \in S,
         NEW e \in S
  PROVE  /\ <<a>> \in Seq(S) /\ Len(<<a>>) = 1
         /\ <<a, b, c>> \in Seq(S) /\ Len(<<a, b, c>>) = 3
         /\ <<a, b, c, d, e>> \in Seq(S) /\ Len(<<a, b, c, d, e>>) = 5
  OBVIOUS

\* The nine checks of shouldCommitProjection, whatever it is asked.
LEMMA CommitRows ==
  ASSUME NEW p, NEW current, NEW bounds
  PROVE  LET table == CommitTable(p, current, bounds) IN
         /\ table \in Seq(FailureRow) /\ Len(table) = 9
         /\ \A i \in 1 .. 5 : table[i] = BoundsTable(p, bounds)[i]
         /\ table[6] = ChecksumTable(p, bounds)[1]
         /\ \A i \in 1 .. 3 :
              table[6 + i] = VersionTable(p, current, bounds)[i]
  <1>. DEFINE a == BoundsTable(p, bounds)
              b == ChecksumTable(p, bounds)
              c == VersionTable(p, current, bounds)
              table == (a \o b) \o c
  <1>1. a \in Seq(FailureRow) /\ Len(a) = 5
    BY RowTuples
    DEF FailureRow, BoundsTable, RuntimeError, NoDuplicateBlocks,
        RangeIsShown
  <1>2. b \in Seq(FailureRow) /\ Len(b) = 1
    BY RowTuples DEF FailureRow, ChecksumTable, RuntimeError
  <1>3. c \in Seq(FailureRow) /\ Len(c) = 3
    BY RowTuples
    DEF FailureRow, VersionTable, RuntimeError, IsStaleProjection
  <1>. HIDE DEF a, b, c
  <1>3a. a \in Seq(FailureRow) /\ b \in Seq(FailureRow)
           /\ c \in Seq(FailureRow)
    BY <1>1, <1>2, <1>3
  <1>4. /\ table \in Seq(FailureRow)
        /\ Len(table) = Len(a) + Len(b) + Len(c)
        /\ \A i \in 1 .. Len(a) : table[i] = a[i]
        /\ \A i \in 1 .. Len(b) : table[Len(a) + i] = b[i]
        /\ \A i \in 1 .. Len(c) : table[Len(a) + Len(b) + i] = c[i]
    BY SMTT(30), <1>3a, ThreeTables
  <1>. HIDE DEF table
  <1>5. Len(table) = 9 /\ \A i \in 1 .. 5 : table[i] = a[i]
    BY <1>1, <1>2, <1>3, <1>4
  <1>6. table[6] = b[1]
    <2>1. 1 \in 1 .. Len(b) /\ Len(a) + 1 = 6
      BY <1>1, <1>2
    <2>. QED
      BY <1>4, <2>1
  <1>7. \A i \in 1 .. 3 : table[6 + i] = c[i]
    BY <1>1, <1>2, <1>3, <1>4
  <1>. QED
    BY <1>4, <1>5, <1>6, <1>7 DEF CommitTable, table, a, b, c

\* The error is that of the first check that fails.
LEMMA ProjectionErrorRow ==
  ASSUME NEW p, NEW current, NEW bounds, bounds # NoBounds
  PROVE  LET table == CommitTable(p, current, bounds) IN
         /\ AllPass(table) => ProjectionError(p, current, bounds) = "none"
         /\ ~AllPass(table) =>
              \E i \in 1 .. 9 :
                /\ ProjectionError(p, current, bounds) = table[i].error
                /\ table[i].error \in RuntimeError
                /\ ~table[i].passed
                /\ \A j \in 1 .. i - 1 : table[j].passed
  <1>. DEFINE Row == [passed : BOOLEAN, error : RuntimeError \cup {"none"}]
              table == CommitTable(p, current, bounds)
              end == [passed |-> FALSE, error |-> "none"]
  <1>1. table \in Seq(FailureRow) /\ Len(table) = 9
    BY CommitRows
  <1>2. ProjectionError(p, current, bounds)
          = FirstFailure(table \o <<end>>).error
    BY DEF ProjectionError
  <1>. HIDE DEF table
  <1>3. /\ \A i \in 1 .. 9 : table[i].error \in RuntimeError
        /\ table \in Seq(Row)
    <2>1. \A i \in 1 .. 9 : table[i] \in FailureRow
      BY <1>1, ElementOfSeq
    <2>2. FailureRow \subseteq Row
      BY DEF FailureRow
    <2>. QED
      BY <1>1, <2>1, <2>2, SeqMonotonic DEF FailureRow
  <1>4. end \in Row /\ ~end.passed /\ end.error = "none"
    OBVIOUS
  <1>. HIDE DEF end, Row
  <1>5. /\ AllPass(table) => FirstFailure(table \o <<end>>) = end
        /\ ~AllPass(table) =>
             \E i \in 1 .. Len(table) :
               /\ FirstFailure(table \o <<end>>) = table[i]
               /\ ~table[i].passed
               /\ \A j \in 1 .. i - 1 : table[j].passed
    BY <1>3, <1>4, EndedTable
  <1>. QED
    BY <1>1, <1>2, <1>3, <1>4, <1>5 DEF table

\* A projection that is refused is refused with an error.
LEMMA ProjectionErrorType ==
  ASSUME NEW p, NEW current, NEW bounds
  PROVE  /\ ProjectionError(p, current, bounds) \in RuntimeError \cup {"none"}
         /\ ProjectionError(p, current, bounds) = "none"
              <=> ShouldCommitProjection(p, current, bounds)
  <1>1. CASE bounds = NoBounds
    BY <1>1 DEF ProjectionError, ShouldCommitProjection, RuntimeError
  <1>2. CASE bounds # NoBounds
    <2>1. "none" \notin RuntimeError
      BY DEF RuntimeError
    <2>. QED
      BY <1>2, <2>1, ProjectionErrorRow DEF ShouldCommitProjection
  <1>. QED
    BY <1>1, <1>2

\* The checks that do not depend on the session's version.
FormPasses(p, bounds) ==
  /\ \A i \in 1 .. 5 : BoundsTable(p, bounds)[i].passed
  /\ ChecksumTable(p, bounds)[1].passed

VersionPasses(p, current, bounds) ==
  \A i \in 1 .. 3 : VersionTable(p, current, bounds)[i].passed

LEMMA CommitPasses ==
  ASSUME NEW p, NEW current, NEW bounds
  PROVE  AllPass(CommitTable(p, current, bounds)) <=>
           FormPasses(p, bounds) /\ VersionPasses(p, current, bounds)
  <1>. DEFINE table == CommitTable(p, current, bounds)
              a == BoundsTable(p, bounds)
              b == ChecksumTable(p, bounds)
              c == VersionTable(p, current, bounds)
  <1>1. /\ Len(table) = 9
        /\ \A i \in 1 .. 5 : table[i] = a[i]
        /\ table[6] = b[1]
        /\ \A i \in 1 .. 3 : table[6 + i] = c[i]
    BY CommitRows
  <1>. HIDE DEF table, a, b, c
  <1>2. ASSUME AllPass(table)
        PROVE  /\ \A i \in 1 .. 5 : a[i].passed
               /\ b[1].passed
               /\ \A i \in 1 .. 3 : c[i].passed
    <2>1. \A i \in 1 .. 9 : table[i].passed
      BY <1>1, <1>2 DEF AllPass
    <2>2. \A i \in 1 .. 3 : table[6 + i].passed
      BY <2>1
    <2>. QED
      BY <1>1, <2>1, <2>2
  <1>3. ASSUME /\ \A i \in 1 .. 5 : a[i].passed
               /\ b[1].passed
               /\ \A i \in 1 .. 3 : c[i].passed
        PROVE  AllPass(table)
    <2>1. ASSUME NEW i \in 1 .. 9 PROVE table[i].passed
      <3>1. CASE i \in 1 .. 5
        BY <1>1, <1>3, <3>1
      <3>2. CASE i = 6
        BY <1>1, <1>3, <3>2
      <3>3. CASE i > 6
        <4>1. i - 6 \in 1 .. 3 /\ 6 + (i - 6) = i
          BY <3>3
        <4>. QED
          BY <1>1, <1>3, <4>1
      <3>. QED
        BY <3>1, <3>2, <3>3
    <2>. QED
      BY <1>1, <2>1 DEF AllPass
  <1>. QED
    BY <1>2, <1>3 DEF FormPasses, VersionPasses, table, a, b, c

\* What passing the versions means.
LEMMA VersionMeaning ==
  ASSUME NEW p, NEW current, NEW bounds
  PROVE  VersionPasses(p, current, bounds) <=>
           /\ p.session_version <= current
           /\ p.session_version < current =>
                /\ bounds.allow_stale_compatible
                /\ p.stale_status = "compatible"
           /\ ~(p.session_version < current) => p.stale_status # "stale"
  <1>. DEFINE c == VersionTable(p, current, bounds)
  <1>1. c[1].passed <=> p.session_version <= current
    BY DEF VersionTable
  <1>2. c[2].passed <=>
          (p.session_version < current =>
             /\ bounds.allow_stale_compatible
             /\ p.stale_status = "compatible")
    BY DEF VersionTable, IsStaleProjection
  <1>3. c[3].passed <=>
          (~(p.session_version < current) => p.stale_status # "stale")
    BY DEF VersionTable, IsStaleProjection
  <1>. HIDE DEF c
  <1>4. (\A i \in 1 .. 3 : c[i].passed) <=>
          c[1].passed /\ c[2].passed /\ c[3].passed
    BY SMT
  <1>. QED
    BY <1>1, <1>2, <1>3, <1>4 DEF VersionPasses, c

\* Staleness is reported only when nothing else is wrong.
LEMMA StaleIsTheOnlyFault ==
  ASSUME NEW p, NEW current, NEW bounds, p.form = "ok",
         ProjectionError(p, current, bounds) = "StaleProjectionRejected"
  PROVE  bounds # NoBounds /\ FormPasses(p, bounds)
  <1>. DEFINE table == CommitTable(p, current, bounds)
              a == BoundsTable(p, bounds)
              b == ChecksumTable(p, bounds)
  <1>1. bounds # NoBounds
    BY DEF ProjectionError
  <1>2. ~AllPass(table)
    BY <1>1, ProjectionErrorRow
  <1>3. PICK i \in 1 .. 9 :
          /\ table[i].error = "StaleProjectionRejected"
          /\ ~table[i].passed
          /\ \A j \in 1 .. i - 1 : table[j].passed
    BY <1>1, <1>2, ProjectionErrorRow
  <1>4. /\ \A j \in 1 .. 5 : table[j] = a[j]
        /\ table[6] = b[1]
    BY CommitRows
  <1>5. a[2].passed
    BY DEF BoundsTable
  <1>6. /\ a[1].error # "StaleProjectionRejected"
        /\ a[3].error # "StaleProjectionRejected"
        /\ a[4].error # "StaleProjectionRejected"
        /\ a[5].error # "StaleProjectionRejected"
    BY DEF BoundsTable
  <1>7. b[1].error # "StaleProjectionRejected"
    BY DEF ChecksumTable
  <1>. HIDE DEF table, a, b
  <1>8. i > 6
    BY <1>3, <1>4, <1>5, <1>6, <1>7
  <1>9. \A j \in 1 .. 6 : table[j].passed
    BY <1>3, <1>8
  <1>. QED
    BY <1>1, <1>4, <1>9 DEF FormPasses, a, b

\* What a projection that may be shown has passed.
LEMMA ShownProjection ==
  ASSUME NEW p, NEW current, NEW bounds,
         ProjectionError(p, current, bounds) = "none"
  PROVE  /\ bounds # NoBounds
         /\ p.session_version <= current
         /\ p.session_version < current => p.stale_status = "compatible"
  <1>. DEFINE table == CommitTable(p, current, bounds)
              last == VersionTable(p, current, bounds)
  <1>1. bounds # NoBounds /\ AllPass(table)
    BY ProjectionErrorType DEF ShouldCommitProjection
  <1>2. Len(table) = 9 /\ \A i \in 1 .. 3 : table[6 + i] = last[i]
    BY CommitRows
  <1>. HIDE DEF table, last
  <1>3. \A i \in 1 .. 3 : last[i].passed
    <2>1. \A i \in 1 .. 3 : table[6 + i].passed
      BY <1>1, <1>2 DEF AllPass
    <2>. QED
      BY <1>2, <2>1
  <1>4. last[1].passed /\ last[2].passed
    BY <1>3
  <1>. QED
    BY <1>1, <1>4 DEF last, VersionTable, IsStaleProjection
-----------------------------------------------------------------------------
(* backpressure-policy.ts                                                  *)

SnapshotType ==
  [pending_transactions : Nat, pending_bytes : Nat,
   largest_pending_projection_bytes : Nat,
   uncommitted_projection_count : Nat]

LimitsType ==
  [max_pending_transactions : Nat, max_pending_bytes : Nat,
   max_projection_result_bytes : Nat, max_uncommitted_projection_count : Nat]

\* A refusal, of a lane or of the load as a whole, comes with throttling.
LEMMA RefusedIsThrottled ==
  ASSUME NEW snapshot \in SnapshotType, NEW limits \in LimitsType,
         \/ \E l \in Lane :
              ~CanAdmitTransaction(LaneOnly(l), snapshot, limits)
         \/ ~EvaluateBackpressure(snapshot, limits)
  PROVE  ShouldThrottleBackground(snapshot, limits)
  <1>1. CASE ~EvaluateBackpressure(snapshot, limits)
    BY <1>1
    DEF EvaluateBackpressure, ShouldThrottleBackground, SnapshotType,
        LimitsType
  <1>2. ASSUME NEW l \in Lane,
               ~CanAdmitTransaction(LaneOnly(l), snapshot, limits)
        PROVE  ShouldThrottleBackground(snapshot, limits)
    BY <1>2
    DEF CanAdmitTransaction, LaneOnly, ProjectionFits, RoomForTransaction,
        RoomForBytes, RoomForProjection, ShouldThrottleBackground,
        SnapshotType, LimitsType
  <1>. QED
    BY <1>1, <1>2
=============================================================================
