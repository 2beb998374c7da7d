-------------------------- MODULE MainThreadProofs --------------------------
(***************************************************************************)
(* Proofs about what surrounds the engine: the check of payloads, the      *)
(* admission policies under a load that comes and goes, the main thread    *)
(* that shows projections, and the records of transactions, for every      *)
(* payload, load and limit, every projection and bounds, and however many  *)
(* records are kept and marked.                                            *)
(***************************************************************************)
EXTENDS AdmissionLoad, MainProjection, TransactionLifecycle, Serialization,
        PolicyProofs, FunctionTheorems

(***************************************************************************)
(* The inductive invariant of the walk over a payload.  Every call in      *)
(* progress is for the value its caller is at (FrameOK); what it has       *)
(* passed is done (Done): it ends as deep as the objects that are not      *)
(* being visited allow, and everything in it fits; and its bytes are those *)
(* of the items passed, written out.  The definitions are given the call   *)
(* they are about: heap, root and options.                                 *)
(***************************************************************************)
WithinOf(o, size, name) == o[name] = NoLimit \/ size <= o[name]

FitsOf(h, o, v) ==
  IF v \in Leaf THEN v.fault = "none" /\ WithinOf(o, v.raw, "max_string_bytes")
  ELSE \/ /\ h[v].kind = "array"
          /\ WithinOf(o, Len(h[v].items), "max_array_length")
       \/ /\ h[v].kind = "object"
          /\ WithinOf(o, Len(h[v].items), "max_object_keys")

FitsAt(h, o, v, depth) ==
  FitsOf(h, o, v) /\ WithinOf(o, depth, "max_depth")

Done(h, o, v, depth) ==
  \A n \in 0 .. MaxPath :
    /\ n > Cardinality(Ref) - depth => Levels(h)[n][v] = {}
    /\ \A x \in Levels(h)[n][v] : FitsAt(h, o, x, depth + n)

FrameType == [ref : Ref, next : Nat \ {0}, bytes : Nat]

\* The value a call is at
ValueAt(h, f) == h[f.ref].items[f.next].value

\* The k-th call in progress
FrameOK(h, r, o, fs, k) ==
  /\ fs[k].next <= Len(h[fs[k].ref].items) + 1
  /\ k = 1 => fs[k].ref = r
  /\ k > 1 => /\ fs[k - 1].next <= Len(h[fs[k - 1].ref].items)
              /\ fs[k].ref = ValueAt(h, fs[k - 1])
  /\ FitsAt(h, o, fs[k].ref, k - 1)
  /\ \A i \in 1 .. fs[k].next - 1 : Done(h, o, h[fs[k].ref].items[i].value, k)
  /\ fs[k].bytes =
       2 + SumOfFirst(ItemSizes(h[fs[k].ref], Sizes(h)[MaxPath]),
                      fs[k].next - 1)

FramesOK(h, r, o, fs) ==
  /\ fs \in Seq(FrameType)
  /\ \A k \in 1 .. Len(fs) : FrameOK(h, r, o, fs, k)
  /\ \A j, k \in 1 .. Len(fs) : fs[j].ref = fs[k].ref => j = k

RefsOf(fs) == { fs[k].ref : k \in 1 .. Len(fs) }

LimitsGiven(o) == \A name \in LimitName : o[name] # BadLimit

\* IsSerializable and VerdictIsThatOfTheTree, of a call given
Serializable(h, r, o) ==
  /\ LimitsGiven(o)
  /\ Levels(h)[MaxPath][r] = {}
  /\ \A n \in 0 .. MaxPath : \A v \in Levels(h)[n][r] : FitsAt(h, o, v, n)
  /\ WithinOf(o, Sizes(h)[MaxPath][r], "max_total_bytes")

VerdictOK(h, r, o, given) ==
  given \notin {Pending, Thrown} =>
    /\ given.valid <=> Serializable(h, r, o)
    /\ given.valid => given.byte_size = Sizes(h)[MaxPath][r]

WalkIInv ==
  /\ heap \in [Ref -> Node]
  /\ root \in Value
  /\ FramesOK(heap, root, options, frames)
  /\ seen = RefsOf(frames)
  /\ VerdictOK(heap, root, options, verdict)

-----------------------------------------------------------------------------
(* Induction over numbers, and functions that go on step by step.          *)

LEMMA UpTo ==
  ASSUME NEW N \in Nat, NEW P \in SUBSET (0 .. N), 0 \in P,
         \A k \in 0 .. N - 1 : k \in P => k + 1 \in P
  PROVE  P = 0 .. N
  <1>. DEFINE T == (0 .. N) \ P
  <1>. SUFFICES ASSUME T # {} PROVE FALSE
    OBVIOUS
  <1>1. PICK n \in T : \A m \in T : n <= m
    <2>1. T \in SUBSET (1 .. N)
      OBVIOUS
    <2>. HIDE DEF T
    <2>. QED
      BY <2>1, LeastIndex
  <1>2. n - 1 \in 0 .. N - 1 /\ n - 1 \notin T /\ n - 1 + 1 = n
    <2>1. n # 0 /\ n \in 0 .. N
      OBVIOUS
    <2>2. n - 1 \in 0 .. N - 1 /\ n - 1 + 1 = n /\ ~(n <= n - 1)
      BY <2>1
    <2>. QED
      BY <1>1, <2>2
  <1>3. n - 1 \in P
    BY <1>2
  <1>. QED
    BY <1>2, <1>3

GoesOn(N, V, a, F, g) ==
  /\ g \in [0 .. N -> V] /\ g[0] = a
  /\ \A n \in 1 .. N : g[n] = F[<<g[n - 1], n>>]

LEMMA StepByStep ==
  ASSUME NEW N \in Nat, NEW V, NEW a \in V, NEW F \in [V \X (1 .. N) -> V]
  PROVE  \E g : GoesOn(N, V, a, F, g)
  <1>. DEFINE Up(k, g) == /\ g \in [0 .. k -> V]
                          /\ g[0] = a
                          /\ \A n \in 1 .. k : g[n] = F[<<g[n - 1], n>>]
              P == {k \in 0 .. N : \E g : Up(k, g)}
  <1>1. 0 \in P
    <2>1. Up(0, [n \in 0 .. 0 |-> a])
      OBVIOUS
    <2>. HIDE DEF Up
    <2>. QED
      BY <2>1
  <1>2. ASSUME NEW k \in 0 .. N - 1, k \in P
        PROVE  k + 1 \in P
    <2>1. PICK g : Up(k, g)
      BY <1>2
    <2>. DEFINE h == [n \in 0 .. k + 1 |->
                        IF n <= k THEN g[n] ELSE F[<<g[k], k + 1>>]]
    <2>2. F[<<g[k], k + 1>>] \in V
      <3>1. g[k] \in V /\ k + 1 \in 1 .. N
        BY <2>1
      <3>. QED
        BY <3>1
    <2>3. h \in [0 .. k + 1 -> V]
      BY <2>1, <2>2
    <2>4. \A n \in 0 .. k : h[n] = g[n]
      BY <2>1
    <2>5. h[k + 1] = F[<<g[k], k + 1>>]
      OBVIOUS
    <2>. HIDE DEF h
    <2>6. h[0] = a
      BY <2>1, <2>4
    <2>7. ASSUME NEW n \in 1 .. k + 1
          PROVE  h[n] = F[<<h[n - 1], n>>]
      <3>1. CASE n = k + 1
        <4>1. n - 1 = k
          BY <3>1
        <4>. QED
          BY <2>4, <2>5, <3>1, <4>1
      <3>2. CASE n # k + 1
        <4>1. n \in 1 .. k /\ n - 1 \in 0 .. k /\ n \in 0 .. k
          BY <3>2
        <4>. QED
          BY <2>1, <2>4, <4>1
      <3>. QED
        BY <3>1, <3>2
    <2>8. Up(k + 1, h)
      BY <2>3, <2>6, <2>7
    <2>. HIDE DEF Up
    <2>9. k + 1 \in 0 .. N
      OBVIOUS
    <2>. QED
      BY <2>8, <2>9
  <1>3. P = 0 .. N
    <2>1. P \in SUBSET (0 .. N)
      OBVIOUS
    <2>2. 0 \in P /\ \A k \in 0 .. N - 1 : k \in P => k + 1 \in P
      BY <1>1, <1>2
    <2>. HIDE DEF P
    <2>. QED
      BY <2>1, <2>2, UpTo
  <1>4. N \in P
    <2>1. N \in 0 .. N
      OBVIOUS
    <2>. HIDE DEF P
    <2>. QED
      BY <1>3, <2>1
  <1>. QED
    BY <1>4 DEF GoesOn

-----------------------------------------------------------------------------
(* Payloads, their levels and their sizes.                                 *)

LEMMA PayloadSizes ==
  /\ Cardinality(Ref) \in Nat
  /\ MaxPath \in Nat /\ MaxPath = Cardinality(Ref) + 1
  /\ Ref \cap Leaf = {}
  /\ \A v \in Leaf : v.raw \in Nat /\ v.bytes \in Nat
  <1>1. Cardinality(Ref) \in Nat
    BY PayloadAssumption, FS_CardinalityType
  <1>. QED
    BY <1>1, PayloadAssumption DEF MaxPath, LeafType

LEMMA ItemsOf ==
  ASSUME NEW h \in [Ref -> Node], NEW v \in Ref
  PROVE  /\ h[v].items \in Seq(Item) /\ Len(h[v].items) \in Nat
         /\ h[v].kind \in {"array", "object", "other"}
         /\ \A i \in 1 .. Len(h[v].items) :
              /\ h[v].items[i].value \in Value
              /\ h[v].items[i].value \in Elements(h, v)
              /\ ItemBytes(h[v], i) \in Nat
  <1>1. h[v] \in Node
    OBVIOUS
  <1>2. h[v].items \in Seq(Item) /\ h[v].kind \in {"array", "object", "other"}
    BY <1>1 DEF Node
  <1>3. Len(h[v].items) \in Nat
    BY <1>2
  <1>4. ASSUME NEW i \in 1 .. Len(h[v].items)
        PROVE  /\ h[v].items[i].value \in Value
               /\ h[v].items[i].value \in Elements(h, v)
               /\ ItemBytes(h[v], i) \in Nat
    <2>1. h[v].items[i] \in Item
      BY <1>2, <1>3
    <2>2. h[v].items[i].value \in Value /\ h[v].items[i].key_bytes \in Nat
      BY <2>1 DEF Item
    <2>. QED
      BY <2>2 DEF Elements, ItemBytes
  <1>. QED
    BY <1>2, <1>3, <1>4

LEMMA ElementsOf ==
  ASSUME NEW h \in [Ref -> Node], NEW v \in Value
  PROVE  /\ Elements(h, v) \in SUBSET Value
         /\ v \in Leaf => Elements(h, v) = {}
         /\ \A e \in Elements(h, v) :
              \E i \in 1 .. Len(h[v].items) : e = h[v].items[i].value
  <1>1. CASE v \in Ref
    <2>1. v \notin Leaf
      BY <1>1, PayloadSizes
    <2>. QED
      BY <1>1, <2>1, ItemsOf DEF Elements
  <1>2. CASE v \notin Ref
    BY <1>2 DEF Elements
  <1>. QED
    BY <1>1, <1>2

LEMMA LevelsUnfold ==
  ASSUME NEW h \in [Ref -> Node]
  PROVE  /\ Levels(h) \in [0 .. MaxPath -> [Value -> SUBSET Value]]
         /\ \A v \in Value : Levels(h)[0][v] = {v}
         /\ \A n \in 1 .. MaxPath : \A v \in Value :
              Levels(h)[n][v] =
                UNION { Levels(h)[n - 1][e] : e \in Elements(h, v) }
  <1>. DEFINE N == MaxPath
              V == [Value -> SUBSET Value]
              a == [v \in Value |-> {v}]
              Next(l) == [v \in Value |->
                            UNION { l[e] : e \in Elements(h, v) }]
              F == [s \in V \X (1 .. N) |-> Next(s[1])]
  <1>1. N \in Nat
    BY PayloadSizes
  <1>2. ASSUME NEW l \in V
        PROVE  Next(l) \in V
    <2>1. ASSUME NEW v \in Value
          PROVE  UNION { l[e] : e \in Elements(h, v) } \in SUBSET Value
      <3>1. \A e \in Elements(h, v) : l[e] \in SUBSET Value
        BY ElementsOf
      <3>. QED
        BY <3>1
    <2>. QED
      BY <2>1
  <1>3. F \in [V \X (1 .. N) -> V]
    <2>. HIDE DEF N, V, Next
    <2>. QED
      BY <1>2
  <1>4. PICK g \in [0 .. N -> V] :
          g[0] = a /\ \A n \in 1 .. N : g[n] = F[<<g[n - 1], n>>]
    <2>1. a \in V
      OBVIOUS
    <2>2. \E g : GoesOn(N, V, a, F, g)
      <3>. HIDE DEF F, N, V, a
      <3>. QED
        BY <1>1, <1>3, <2>1, StepByStep
    <2>. QED
      BY <2>2 DEF GoesOn
  <1>5. ASSUME NEW n \in 1 .. N
        PROVE  g[n] = Next(g[n - 1])
    <2>1. g[n - 1] \in V
      <3>1. n - 1 \in 0 .. N
        BY <1>1
      <3>. HIDE DEF N, V
      <3>. QED
        BY <3>1
    <2>2. <<g[n - 1], n>> \in V \X (1 .. N)
      BY <2>1
    <2>. HIDE DEF N, V, Next
    <2>. QED
      BY <1>4, <2>2
  <1>6. g = [n \in 0 .. N |->
               [v \in Value |->
                  IF n = 0 THEN {v}
                  ELSE UNION { g[n - 1][e] : e \in Elements(h, v) }]]
    <2>1. ASSUME NEW n \in 0 .. N
          PROVE  g[n] = [v \in Value |->
                           IF n = 0 THEN {v}
                           ELSE UNION { g[n - 1][e] : e \in Elements(h, v) }]
      <3>1. CASE n = 0
        BY <1>4, <3>1
      <3>2. CASE n # 0
        <4>1. n \in 1 .. N
          BY <1>1, <3>2
        <4>2. g[n] = Next(g[n - 1])
          BY <1>5, <4>1
        <4>. QED
          BY <3>2, <4>2
      <3>. QED
        BY <3>1, <3>2
    <2>. HIDE DEF N, V
    <2>. QED
      BY <2>1
  <1>. DEFINE L == CHOOSE level :
                level = [n \in 0 .. MaxPath |->
                           [v \in Value |->
                              IF n = 0 THEN {v}
                              ELSE UNION { level[n - 1][e] :
                                           e \in Elements(h, v) }]]
  <1>7. Levels(h) = L
    BY DEF Levels
  <1>8. L = [n \in 0 .. N |->
               [v \in Value |->
                  IF n = 0 THEN {v}
                  ELSE UNION { L[n - 1][e] : e \in Elements(h, v) }]]
    <2>. HIDE DEF V, F, Next, a
    <2>. QED
      BY <1>6
  <1>. HIDE DEF L
  <1>9. ASSUME NEW n \in 1 .. N
        PROVE  L[n] = Next(L[n - 1])
    <2>1. n \in 0 .. N /\ n # 0
      BY <1>1
    <2>. QED
      BY <1>8, <2>1
  <1>10. ASSUME NEW n \in 0 .. N
        PROVE  L[n] \in V
    <2>. DEFINE P == {k \in 0 .. N : L[k] \in V}
    <2>1. 0 \in P
      <3>1. L[0] = [v \in Value |-> {v}] /\ 0 \in 0 .. N
        BY <1>1, <1>8
      <3>. QED
        BY <3>1
    <2>2. ASSUME NEW k \in 0 .. N - 1, k \in P
          PROVE  k + 1 \in P
      <3>1. k + 1 \in 1 .. N /\ k + 1 \in 0 .. N /\ k + 1 - 1 = k
        BY <1>1
      <3>2. L[k + 1] = Next(L[k])
        <4>. HIDE DEF N, Next
        <4>. QED
          BY <1>9, <3>1
      <3>3. L[k] \in V
        BY <2>2
      <3>4. Next(L[k]) \in V
        <4>. HIDE DEF V, Next
        <4>. QED
          BY <1>2, <3>3
      <3>. HIDE DEF V, Next
      <3>. QED
        BY <3>1, <3>2, <3>4
    <2>3. P = 0 .. N
      <3>. HIDE DEF N, V
      <3>. QED
        BY <1>1, <2>1, <2>2, UpTo
    <2>. HIDE DEF N, V
    <2>. QED
      BY <2>3
  <1>. QED
    <2>1. L \in [0 .. N -> V]
      <3>1. L = [n \in 0 .. N |-> L[n]]
        <4>. HIDE DEF N
        <4>. QED
          BY <1>8
      <3>. HIDE DEF N, V
      <3>. QED
        BY <1>10, <3>1
    <2>2. \A v \in Value : L[0][v] = {v}
      BY <1>1, <1>8
    <2>3. ASSUME NEW n \in 1 .. MaxPath, NEW v \in Value
          PROVE  L[n][v] = UNION { L[n - 1][e] : e \in Elements(h, v) }
      <3>1. L[n] = Next(L[n - 1])
        BY <1>9
      <3>. QED
        BY <3>1
    <2>. QED
      BY <1>7, <2>1, <2>2, <2>3

LEMMA SumUnfold ==
  ASSUME NEW s \in Seq(Nat)
  PROVE  /\ SumOfFirst(s, 0) = 0
         /\ \A k \in 1 .. Len(s) :
              SumOfFirst(s, k) = SumOfFirst(s, k - 1) + s[k]
         /\ \A k \in 0 .. Len(s) : SumOfFirst(s, k) \in Nat
  <1>. DEFINE N == Len(s)
              F == [t \in Nat \X (1 .. N) |-> t[1] + s[t[2]]]
  <1>1. N \in Nat /\ \A k \in 1 .. N : s[k] \in Nat
    OBVIOUS
  <1>2. F \in [Nat \X (1 .. N) -> Nat]
    <2>. HIDE DEF N
    <2>. QED
      BY <1>1
  <1>3. PICK g \in [0 .. N -> Nat] :
          g[0] = 0 /\ \A n \in 1 .. N : g[n] = F[<<g[n - 1], n>>]
    <2>1. \E g : GoesOn(N, Nat, 0, F, g)
      <3>. HIDE DEF F, N
      <3>. QED
        BY <1>1, <1>2, StepByStep
    <2>. QED
      BY <2>1 DEF GoesOn
  <1>4. ASSUME NEW n \in 1 .. N
        PROVE  g[n] = g[n - 1] + s[n]
    <2>1. g[n - 1] \in Nat
      <3>1. n - 1 \in 0 .. N
        BY <1>1
      <3>. HIDE DEF N
      <3>. QED
        BY <3>1
    <2>2. <<g[n - 1], n>> \in Nat \X (1 .. N)
      BY <2>1
    <2>. HIDE DEF N
    <2>. QED
      BY <1>3, <2>2
  <1>5. g = [i \in 0 .. N |-> IF i = 0 THEN 0 ELSE g[i - 1] + s[i]]
    <2>1. ASSUME NEW i \in 0 .. N
          PROVE  g[i] = IF i = 0 THEN 0 ELSE g[i - 1] + s[i]
      <3>1. i = 0 \/ i \in 1 .. N
        BY <1>1
      <3>. QED
        BY <1>3, <1>4, <3>1
    <2>. HIDE DEF N, F
    <2>. QED
      BY <2>1
  <1>. DEFINE S == CHOOSE sum :
                sum = [i \in 0 .. Len(s) |->
                         IF i = 0 THEN 0 ELSE sum[i - 1] + s[i]]
  <1>6. \A k : SumOfFirst(s, k) = S[k]
    BY DEF SumOfFirst
  <1>7. S = [i \in 0 .. N |-> IF i = 0 THEN 0 ELSE S[i - 1] + s[i]]
    <2>. HIDE DEF F
    <2>. QED
      BY <1>5
  <1>. HIDE DEF S
  <1>8. S[0] = 0 /\ \A k \in 1 .. N : S[k] = S[k - 1] + s[k]
    <2>1. 0 \in 0 .. N /\ \A k \in 1 .. N : k \in 0 .. N /\ k # 0
      BY <1>1
    <2>. HIDE DEF N, F
    <2>. QED
      BY <1>7, <2>1
  <1>9. \A k \in 0 .. N : S[k] \in Nat
    <2>. DEFINE P == {k \in 0 .. N : S[k] \in Nat}
    <2>1. 0 \in P
      BY <1>1, <1>8
    <2>2. ASSUME NEW k \in 0 .. N - 1, k \in P
          PROVE  k + 1 \in P
      <3>1. k + 1 \in 1 .. N /\ k + 1 \in 0 .. N /\ k + 1 - 1 = k
        BY <1>1
      <3>2. S[k + 1] = S[k] + s[k + 1] /\ s[k + 1] \in Nat
        <4>. HIDE DEF N
        <4>. QED
          BY <1>1, <1>8, <3>1
      <3>. QED
        BY <2>2, <3>1, <3>2
    <2>3. P = 0 .. N
      <3>. HIDE DEF N
      <3>. QED
        BY <1>1, <2>1, <2>2, UpTo
    <2>. QED
      BY <2>3
  <1>. QED
    BY <1>6, <1>8, <1>9

LEMMA ItemSizesType ==
  ASSUME NEW h \in [Ref -> Node], NEW v \in Ref, NEW size \in [Value -> Nat]
  PROVE  /\ ItemSizes(h[v], size) \in Seq(Nat)
         /\ Len(ItemSizes(h[v], size)) = Len(h[v].items)
         /\ \A i \in 1 .. Len(h[v].items) :
              ItemSizes(h[v], size)[i] =
                ItemBytes(h[v], i) + size[h[v].items[i].value]
  <1>. DEFINE n == Len(h[v].items)
              Bytes(i) == ItemBytes(h[v], i) + size[h[v].items[i].value]
  <1>1. n \in Nat
    BY ItemsOf
  <1>2. \A i \in 1 .. n : Bytes(i) \in Nat
    BY ItemsOf
  <1>3. ItemSizes(h[v], size) = [i \in 1 .. n |-> Bytes(i)]
    BY DEF ItemSizes
  <1>. HIDE DEF n, Bytes
  <1>4. ItemSizes(h[v], size) \in Seq(Nat) /\ Len(ItemSizes(h[v], size)) = n
    BY <1>1, <1>2, <1>3
  <1>5. \A i \in 1 .. n : ItemSizes(h[v], size)[i] = Bytes(i)
    BY <1>3
  <1>. QED
    BY <1>4, <1>5 DEF n, Bytes

\* What a node takes when its items take what size says
NodeSize(h, v, size) ==
  2 + SumOfFirst(ItemSizes(h[v], size), Len(h[v].items))

LEMMA NodeSizeType ==
  ASSUME NEW h \in [Ref -> Node], NEW v \in Ref, NEW size \in [Value -> Nat]
  PROVE  NodeSize(h, v, size) \in Nat
  <1>1. Len(h[v].items) \in Nat
    BY ItemsOf
  <1>2. SumOfFirst(ItemSizes(h[v], size), Len(h[v].items)) \in Nat
    <2>. DEFINE s == ItemSizes(h[v], size)  n == Len(h[v].items)
    <2>1. s \in Seq(Nat) /\ n = Len(s) /\ n \in 0 .. Len(s)
      BY <1>1, ItemSizesType
    <2>. HIDE DEF s, n
    <2>2. SumOfFirst(s, n) \in Nat
      BY <2>1, SumUnfold
    <2>. QED
      BY <2>2 DEF s, n
  <1>. QED
    BY <1>2 DEF NodeSize

LEMMA SizesUnfold ==
  ASSUME NEW h \in [Ref -> Node]
  PROVE  /\ Sizes(h) \in [0 .. MaxPath -> [Value -> Nat]]
         /\ \A n \in 0 .. MaxPath : \A v \in Leaf : Sizes(h)[n][v] = v.bytes
         /\ \A n \in 1 .. MaxPath : \A v \in Ref :
              Sizes(h)[n][v] = NodeSize(h, v, Sizes(h)[n - 1])
  <1>. DEFINE N == MaxPath
              V == [Value -> Nat]
              a == [v \in Value |-> IF v \in Leaf THEN v.bytes ELSE 0]
              Next(size) == [v \in Value |->
                               IF v \in Leaf THEN v.bytes
                               ELSE NodeSize(h, v, size)]
              F == [s \in V \X (1 .. N) |-> Next(s[1])]
  <1>1. N \in Nat
    BY PayloadSizes
  <1>2. ASSUME NEW size \in V
        PROVE  Next(size) \in V
    <2>1. ASSUME NEW v \in Value
          PROVE  (IF v \in Leaf THEN v.bytes ELSE NodeSize(h, v, size)) \in Nat
      <3>1. CASE v \in Leaf
        BY <3>1, PayloadSizes
      <3>2. CASE v \notin Leaf
        BY <3>2, NodeSizeType DEF Value
      <3>. QED
        BY <3>1, <3>2
    <2>. QED
      BY <2>1
  <1>3. F \in [V \X (1 .. N) -> V]
    <2>. HIDE DEF N, V, Next
    <2>. QED
      BY <1>2
  <1>4. PICK g \in [0 .. N -> V] :
          g[0] = a /\ \A n \in 1 .. N : g[n] = F[<<g[n - 1], n>>]
    <2>1. a \in V
      BY PayloadSizes
    <2>2. \E g : GoesOn(N, V, a, F, g)
      <3>. HIDE DEF F, N, V, a
      <3>. QED
        BY <1>1, <1>3, <2>1, StepByStep
    <2>. QED
      BY <2>2 DEF GoesOn
  <1>5. ASSUME NEW n \in 1 .. N
        PROVE  g[n] = Next(g[n - 1])
    <2>1. g[n - 1] \in V
      <3>1. n - 1 \in 0 .. N
        BY <1>1
      <3>. HIDE DEF N, V
      <3>. QED
        BY <3>1
    <2>2. <<g[n - 1], n>> \in V \X (1 .. N)
      BY <2>1
    <2>. HIDE DEF N, V, Next
    <2>. QED
      BY <1>4, <2>2
  <1>6. g = [n \in 0 .. N |->
               [v \in Value |->
                  IF v \in Leaf THEN v.bytes
                  ELSE IF n = 0 THEN 0
                  ELSE 2 + SumOfFirst(ItemSizes(h[v], g[n - 1]),
                                      Len(h[v].items))]]
    <2>1. ASSUME NEW n \in 0 .. N
          PROVE  g[n] = [v \in Value |->
                           IF v \in Leaf THEN v.bytes
                           ELSE IF n = 0 THEN 0
                           ELSE 2 + SumOfFirst(ItemSizes(h[v], g[n - 1]),
                                               Len(h[v].items))]
      <3>1. CASE n = 0
        BY <1>4, <3>1
      <3>2. CASE n # 0
        <4>1. n \in 1 .. N
          BY <1>1, <3>2
        <4>2. g[n] = Next(g[n - 1])
          BY <1>5, <4>1
        <4>. QED
          BY <3>2, <4>2 DEF NodeSize
      <3>. QED
        BY <3>1, <3>2
    <2>. HIDE DEF N, V
    <2>. QED
      BY <2>1
  <1>. DEFINE L == CHOOSE size :
                size = [n \in 0 .. MaxPath |->
                          [v \in Value |->
                             IF v \in Leaf THEN v.bytes
                             ELSE IF n = 0 THEN 0
                             ELSE 2 + SumOfFirst(ItemSizes(h[v], size[n - 1]),
                                                 Len(h[v].items))]]
  <1>7. Sizes(h) = L
    BY DEF Sizes
  <1>8. L = [n \in 0 .. N |->
               [v \in Value |->
                  IF v \in Leaf THEN v.bytes
                  ELSE IF n = 0 THEN 0
                  ELSE 2 + SumOfFirst(ItemSizes(h[v], L[n - 1]),
                                      Len(h[v].items))]]
    <2>. HIDE DEF V, F, Next, a
    <2>. QED
      BY <1>6
  <1>. HIDE DEF L
  <1>9. L[0] = a /\ \A n \in 1 .. N : L[n] = Next(L[n - 1])
    <2>1. 0 \in 0 .. N
      BY <1>1
    <2>2. L[0] = a
      BY <1>8, <2>1
    <2>3. ASSUME NEW n \in 1 .. N
          PROVE  L[n] = Next(L[n - 1])
      <3>1. n \in 0 .. N /\ n # 0
        BY <1>1
      <3>. QED
        BY <1>8, <3>1 DEF NodeSize
    <2>. QED
      BY <2>2, <2>3
  <1>10. ASSUME NEW n \in 0 .. N
        PROVE  L[n] \in V
    <2>. DEFINE P == {k \in 0 .. N : L[k] \in V}
    <2>1. 0 \in P
      <3>1. 0 \in 0 .. N /\ a \in V
        BY <1>1, PayloadSizes
      <3>. HIDE DEF V, N, Next, a
      <3>. QED
        BY <1>9, <3>1
    <2>2. ASSUME NEW k \in 0 .. N - 1, k \in P
          PROVE  k + 1 \in P
      <3>1. k + 1 \in 1 .. N /\ k + 1 \in 0 .. N /\ k + 1 - 1 = k
        BY <1>1
      <3>2. L[k + 1] = Next(L[k])
        <4>. HIDE DEF N, Next
        <4>. QED
          BY <1>9, <3>1
      <3>3. Next(L[k]) \in V
        <4>1. L[k] \in V
          BY <2>2
        <4>. HIDE DEF V, Next
        <4>. QED
          BY <1>2, <4>1
      <3>. HIDE DEF V, Next
      <3>. QED
        BY <3>1, <3>2, <3>3
    <2>3. P = 0 .. N
      <3>. HIDE DEF N, V
      <3>. QED
        BY <1>1, <2>1, <2>2, UpTo
    <2>. HIDE DEF N, V
    <2>. QED
      BY <2>3
  <1>11. L \in [0 .. N -> V]
    <2>1. L = [n \in 0 .. N |-> L[n]]
      <3>. HIDE DEF N
      <3>. QED
        BY <1>8
    <2>. HIDE DEF N, V
    <2>. QED
      BY <1>10, <2>1
  <1>12. ASSUME NEW n \in 0 .. MaxPath, NEW v \in Leaf
         PROVE  L[n][v] = v.bytes
    <2>1. n = 0 \/ n \in 1 .. N
      BY <1>1
    <2>2. v \in Value
      BY DEF Value
    <2>3. a[v] = v.bytes /\ \A size : Next(size)[v] = v.bytes
      BY <2>2
    <2>. HIDE DEF a, Next, N
    <2>. QED
      BY <1>9, <2>1, <2>3
  <1>13. ASSUME NEW n \in 1 .. MaxPath, NEW v \in Ref
         PROVE  L[n][v] = NodeSize(h, v, L[n - 1])
    <2>1. v \in Value /\ v \notin Leaf
      BY PayloadSizes DEF Value
    <2>2. \A size : Next(size)[v] = NodeSize(h, v, size)
      BY <2>1
    <2>. HIDE DEF Next, N
    <2>3. L[n] = Next(L[n - 1])
      BY <1>9 DEF N
    <2>. QED
      BY <2>2, <2>3
  <1>. QED
    BY <1>7, <1>11, <1>12, <1>13

LEMMA LevelOf ==
  ASSUME NEW h \in [Ref -> Node], NEW n \in 0 .. MaxPath, NEW v \in Value
  PROVE  Levels(h)[n][v] \in SUBSET Value
  <1>1. Levels(h)[n] \in [Value -> SUBSET Value]
    BY LevelsUnfold
  <1>. QED
    BY <1>1

\* What is one step further down from what is n steps below is n + 1 below.
LEMMA LevelsExtend ==
  ASSUME NEW h \in [Ref -> Node], NEW m \in 0 .. MaxPath - 1,
         NEW v \in Value, NEW x \in Levels(h)[m][v], NEW e \in Elements(h, x)
  PROVE  e \in Levels(h)[m + 1][v]
  <1>. DEFINE N == MaxPath - 1
              P == {n \in 0 .. N :
                      \A u \in Value : \A y \in Levels(h)[n][u] :
                        \A z \in Elements(h, y) : z \in Levels(h)[n + 1][u]}
  <1>1. N \in Nat /\ MaxPath \in Nat
    BY PayloadSizes
  <1>2. 0 \in P
    <2>1. ASSUME NEW u \in Value, NEW y \in Levels(h)[0][u],
                 NEW z \in Elements(h, y)
          PROVE  z \in Levels(h)[0 + 1][u]
      <3>1. y = u /\ z \in Value
        BY LevelsUnfold, ElementsOf
      <3>2. Levels(h)[0][z] = {z}
        BY <3>1, LevelsUnfold
      <3>3. 1 \in 1 .. MaxPath /\ 1 - 1 = 0 /\ 0 + 1 = 1
        BY <1>1
      <3>4. Levels(h)[1][u] =
              UNION { Levels(h)[1 - 1][d] : d \in Elements(h, u) }
        BY <3>3, LevelsUnfold
      <3>. QED
        BY <3>1, <3>2, <3>3, <3>4
    <2>. QED
      BY <1>1, <2>1
  <1>3. ASSUME NEW k \in 0 .. N - 1, k \in P
        PROVE  k + 1 \in P
    <2>. DEFINE l == k + 1  j == k + 2
    <2>1. /\ l \in 1 .. MaxPath /\ l - 1 = k /\ j \in 1 .. MaxPath
          /\ j - 1 = l /\ l + 1 = j /\ l \in 0 .. N
      BY <1>1
    <2>2. \A u \in Value : \A y \in Levels(h)[k][u] :
            \A z \in Elements(h, y) : z \in Levels(h)[l][u]
      BY <1>3
    <2>. HIDE DEF l, j, N
    <2>3. ASSUME NEW u \in Value, NEW y \in Levels(h)[l][u],
                 NEW z \in Elements(h, y)
          PROVE  z \in Levels(h)[j][u]
      <3>1. Levels(h)[l][u] =
              UNION { Levels(h)[k][d] : d \in Elements(h, u) }
        BY <2>1, LevelsUnfold
      <3>2. PICK d \in Elements(h, u) : y \in Levels(h)[k][d]
        BY <3>1
      <3>3. d \in Value
        BY ElementsOf
      <3>4. z \in Levels(h)[l][d]
        BY <2>2, <3>2, <3>3
      <3>5. Levels(h)[j][u] =
              UNION { Levels(h)[l][c] : c \in Elements(h, u) }
        BY <2>1, LevelsUnfold
      <3>. QED
        BY <3>4, <3>5
    <2>4. l \in P
      BY <2>1, <2>3
    <2>. QED
      BY <2>4 DEF l
  <1>4. P = 0 .. N
    <2>. HIDE DEF N
    <2>. QED
      BY <1>1, <1>2, <1>3, UpTo
  <1>. QED
    BY <1>4

\* Written out as deep as it is, a value is written out.
LEMMA SizeIsStable ==
  ASSUME NEW h \in [Ref -> Node], NEW m \in 0 .. MaxPath - 1,
         NEW v \in Value, Levels(h)[m][v] = {}
  PROVE  Sizes(h)[m + 1][v] = Sizes(h)[m][v]
  <1>. DEFINE N == MaxPath - 1
              P == {n \in 0 .. N :
                      \A u \in Value : Levels(h)[n][u] = {} =>
                        Sizes(h)[n + 1][u] = Sizes(h)[n][u]}
  <1>1. N \in Nat /\ MaxPath \in Nat
    BY PayloadSizes
  <1>2. 0 \in P
    <2>1. \A u \in Value : Levels(h)[0][u] # {}
      BY LevelsUnfold
    <2>. QED
      BY <1>1, <2>1
  <1>3. ASSUME NEW k \in 0 .. N - 1, k \in P
        PROVE  k + 1 \in P
    <2>. DEFINE l == k + 1  j == k + 2
    <2>1. /\ k \in 0 .. MaxPath /\ l \in 0 .. MaxPath /\ j \in 0 .. MaxPath
          /\ l \in 1 .. MaxPath /\ l - 1 = k /\ j \in 1 .. MaxPath
          /\ j - 1 = l /\ l + 1 = j /\ l \in 0 .. N
      BY <1>1
    <2>2. \A u \in Value : Levels(h)[k][u] = {} =>
            Sizes(h)[l][u] = Sizes(h)[k][u]
      BY <1>3
    <2>. HIDE DEF l, j, N
    <2>3. ASSUME NEW u \in Value, Levels(h)[l][u] = {}
          PROVE  Sizes(h)[j][u] = Sizes(h)[l][u]
      <3>1. CASE u \in Leaf
        BY <2>1, <3>1, SizesUnfold
      <3>2. CASE u \in Ref
        <4>1. /\ Sizes(h)[j][u] = NodeSize(h, u, Sizes(h)[l])
              /\ Sizes(h)[l][u] = NodeSize(h, u, Sizes(h)[k])
          BY <2>1, <3>2, SizesUnfold
        <4>2. Levels(h)[l][u] =
                UNION { Levels(h)[l - 1][d] : d \in Elements(h, u) }
          <5>1. l \in 1 .. MaxPath
            BY <2>1
          <5>2. \A w \in Value :
                  Levels(h)[l][w] =
                    UNION { Levels(h)[l - 1][d] : d \in Elements(h, w) }
            BY <5>1, LevelsUnfold
          <5>. QED
            BY <5>2
        <4>3. ASSUME NEW d \in Elements(h, u)
              PROVE  d \in Value /\ Sizes(h)[l][d] = Sizes(h)[k][d]
          <5>1. d \in Value
            BY ElementsOf
          <5>2. Levels(h)[k][d] = {}
            BY <2>1, <2>3, <4>2
          <5>. QED
            BY <2>2, <5>1, <5>2
        <4>4. \A i \in 1 .. Len(h[u].items) :
                Sizes(h)[l][h[u].items[i].value] =
                  Sizes(h)[k][h[u].items[i].value]
          BY <3>2, <4>3, ItemsOf
        <4>5. ItemSizes(h[u], Sizes(h)[l]) = ItemSizes(h[u], Sizes(h)[k])
          BY <4>4 DEF ItemSizes
        <4>. QED
          BY <4>1, <4>5 DEF NodeSize
      <3>. QED
        BY <3>1, <3>2 DEF Value
    <2>4. l \in P
      BY <2>1, <2>3
    <2>. QED
      BY <2>4 DEF l
  <1>4. P = 0 .. N
    <2>. HIDE DEF N
    <2>. QED
      BY <1>1, <1>2, <1>3, UpTo
  <1>. QED
    BY <1>4

-----------------------------------------------------------------------------
(* Values that are done.                                                   *)

LEMMA LeafIsDone ==
  ASSUME NEW h \in [Ref -> Node], NEW o, NEW v \in Leaf, NEW depth \in Nat,
         depth <= Cardinality(Ref), FitsAt(h, o, v, depth)
  PROVE  Done(h, o, v, depth)
  <1>1. v \in Value /\ Elements(h, v) = {}
    BY ElementsOf DEF Value
  <1>2. \A n \in 1 .. MaxPath : Levels(h)[n][v] = {}
    BY <1>1, LevelsUnfold
  <1>3. Levels(h)[0][v] = {v} /\ depth + 0 = depth
    BY <1>1, LevelsUnfold
  <1>4. ASSUME NEW n \in 0 .. MaxPath
        PROVE  /\ n > Cardinality(Ref) - depth => Levels(h)[n][v] = {}
               /\ \A x \in Levels(h)[n][v] : FitsAt(h, o, x, depth + n)
    <2>1. CASE n = 0
      BY <1>3, <2>1, PayloadSizes
    <2>2. CASE n # 0
      <3>1. n \in 1 .. MaxPath
        BY <2>2, PayloadSizes
      <3>. QED
        BY <1>2, <3>1
    <2>. QED
      BY <2>1, <2>2
  <1>. QED
    BY <1>4 DEF Done

\* A node is done when its items are, one step deeper.
LEMMA NodeIsDone ==
  ASSUME NEW h \in [Ref -> Node], NEW o, NEW v \in Ref, NEW depth \in Nat,
         depth < Cardinality(Ref), FitsAt(h, o, v, depth),
         \A i \in 1 .. Len(h[v].items) :
           Done(h, o, h[v].items[i].value, depth + 1)
  PROVE  Done(h, o, v, depth)
  <1>1. v \in Value
    BY DEF Value
  <1>2. \A e \in Elements(h, v) : e \in Value /\ Done(h, o, e, depth + 1)
    BY <1>1, ElementsOf
  <1>3. Levels(h)[0][v] = {v} /\ depth + 0 = depth
    BY <1>1, LevelsUnfold
  <1>4. ASSUME NEW n \in 0 .. MaxPath
        PROVE  /\ n > Cardinality(Ref) - depth => Levels(h)[n][v] = {}
               /\ \A x \in Levels(h)[n][v] : FitsAt(h, o, x, depth + n)
    <2>1. CASE n = 0
      BY <1>3, <2>1, PayloadSizes
    <2>2. CASE n # 0
      <3>. DEFINE k == n - 1
      <3>1. /\ n \in 1 .. MaxPath /\ k \in 0 .. MaxPath
            /\ (depth + 1) + k = depth + n
            /\ n > Cardinality(Ref) - depth =>
                 k > Cardinality(Ref) - (depth + 1)
        BY <2>2, PayloadSizes
      <3>2. Levels(h)[n][v] =
              UNION { Levels(h)[k][e] : e \in Elements(h, v) }
        BY <1>1, <3>1, LevelsUnfold
      <3>. HIDE DEF k
      <3>3. \A e \in Elements(h, v) :
              /\ n > Cardinality(Ref) - depth => Levels(h)[k][e] = {}
              /\ \A x \in Levels(h)[k][e] : FitsAt(h, o, x, depth + n)
        <4>1. ASSUME NEW e \in Elements(h, v)
              PROVE  /\ k > Cardinality(Ref) - (depth + 1) =>
                          Levels(h)[k][e] = {}
                     /\ \A x \in Levels(h)[k][e] :
                          FitsAt(h, o, x, (depth + 1) + k)
          BY <1>2, <3>1 DEF Done
        <4>. QED
          BY <3>1, <4>1
      <3>. QED
        BY <3>2, <3>3
    <2>. QED
      BY <2>1, <2>2
  <1>. QED
    BY <1>4 DEF Done

\* Written out one step less deep, a node whose items are done is as long.
LEMMA NodeIsWritten ==
  ASSUME NEW h \in [Ref -> Node], NEW o, NEW v \in Ref, NEW depth \in Nat,
         \A i \in 1 .. Len(h[v].items) :
           Done(h, o, h[v].items[i].value, depth + 1)
  PROVE  Sizes(h)[MaxPath][v] = NodeSize(h, v, Sizes(h)[MaxPath])
  <1>. DEFINE N == MaxPath - 1
  <1>1. /\ MaxPath \in Nat /\ MaxPath \in 1 .. MaxPath
        /\ N \in 0 .. MaxPath - 1 /\ N \in 0 .. MaxPath /\ N + 1 = MaxPath
        /\ N > Cardinality(Ref) - (depth + 1)
    BY PayloadSizes
  <1>2. Sizes(h)[MaxPath][v] = NodeSize(h, v, Sizes(h)[N])
    BY <1>1, SizesUnfold
  <1>. HIDE DEF N
  <1>3. ASSUME NEW i \in 1 .. Len(h[v].items)
        PROVE  Sizes(h)[MaxPath][h[v].items[i].value] =
                 Sizes(h)[N][h[v].items[i].value]
    <2>. DEFINE e == h[v].items[i].value
    <2>1. e \in Value
      BY ItemsOf
    <2>2. Levels(h)[N][e] = {}
      BY <1>1 DEF Done
    <2>. HIDE DEF e
    <2>3. Sizes(h)[N + 1][e] = Sizes(h)[N][e]
      BY <1>1, <2>1, <2>2, SizeIsStable
    <2>. QED
      BY <1>1, <2>3 DEF e
  <1>4. ItemSizes(h[v], Sizes(h)[MaxPath]) = ItemSizes(h[v], Sizes(h)[N])
    BY <1>3 DEF ItemSizes
  <1>. QED
    BY <1>2, <1>4 DEF NodeSize

-----------------------------------------------------------------------------
(* Calls in progress.                                                      *)

\* The value the walk is at, if it is not leaving a node.
AtValue(h, fs) ==
  fs = <<>> \/ fs[Len(fs)].next <= Len(h[fs[Len(fs)].ref].items)
ValueOf(h, r, fs) == IF fs = <<>> THEN r ELSE ValueAt(h, fs[Len(fs)])

LEMMA FrameTypes ==
  ASSUME NEW h, NEW r, NEW o, NEW fs, FramesOK(h, r, o, fs)
  PROVE  /\ fs \in Seq(FrameType) /\ Len(fs) \in Nat
         /\ fs # <<>> => Len(fs) \in 1 .. Len(fs)
         /\ \A k \in 1 .. Len(fs) :
              /\ fs[k] \in FrameType
              /\ fs[k].ref \in Ref /\ fs[k].ref \in Value
              /\ fs[k].next \in Nat \ {0} /\ fs[k].bytes \in Nat
              /\ FrameOK(h, r, o, fs, k)
  <1>1. /\ fs \in Seq(FrameType)
        /\ \A k \in 1 .. Len(fs) : FrameOK(h, r, o, fs, k)
    BY DEF FramesOK
  <1>2. Len(fs) \in Nat /\ \A k \in 1 .. Len(fs) : fs[k] \in FrameType
    BY <1>1
  <1>3. fs # <<>> => Len(fs) \in 1 .. Len(fs)
    BY <1>1
  <1>4. ASSUME NEW k \in 1 .. Len(fs)
        PROVE  /\ fs[k].ref \in Ref /\ fs[k].ref \in Value
               /\ fs[k].next \in Nat \ {0} /\ fs[k].bytes \in Nat
    BY <1>2 DEF FrameType, Value
  <1>. QED
    BY <1>1, <1>2, <1>3, <1>4

\* No object is visited twice at a time, so there are no more calls.
LEMMA CallsAreFew ==
  ASSUME NEW h, NEW r, NEW o, NEW fs, FramesOK(h, r, o, fs)
  PROVE  Len(fs) <= Cardinality(Ref)
  <1>. DEFINE f == [k \in 1 .. Len(fs) |-> fs[k].ref]
              n == Len(fs)
  <1>1. n \in Nat /\ \A k \in 1 .. n : fs[k].ref \in Ref
    BY FrameTypes
  <1>2. f \in Injection(1 .. n, Ref)
    <2>1. \A j, k \in 1 .. n : f[j] = f[k] => j = k
      BY DEF FramesOK
    <2>2. f \in [1 .. n -> Ref]
      BY <1>1
    <2>. QED
      BY <2>1, <2>2, Fun_IsInj
  <1>3. IsFiniteSet(Ref)
    BY PayloadAssumption
  <1>4. Cardinality(1 .. n) = n
    <2>1. 1 \in Int /\ n \in Int
      BY <1>1
    <2>. HIDE DEF n
    <2>. QED
      BY <1>1, <2>1, FS_Interval
  <1>5. Cardinality(1 .. n) <= Cardinality(Ref)
    <2>. HIDE DEF f, n
    <2>. QED
      BY <1>2, <1>3, FS_Injection
  <1>. QED
    BY <1>4, <1>5

LEMMA CallsReached ==
  ASSUME NEW h \in [Ref -> Node], NEW r \in Value, NEW o, NEW fs,
         FramesOK(h, r, o, fs), NEW m \in 1 .. Len(fs)
  PROVE  fs[m].ref \in Levels(h)[m - 1][r]
  <1>. DEFINE N == Len(fs) - 1
              P == {k \in 0 .. N : fs[k + 1].ref \in Levels(h)[k][r]}
  <1>1. /\ Len(fs) \in Nat /\ N \in Nat /\ Len(fs) <= Cardinality(Ref)
        /\ Cardinality(Ref) \in Nat /\ MaxPath = Cardinality(Ref) + 1
    BY FrameTypes, CallsAreFew, PayloadSizes
  <1>2. 0 \in P
    <2>1. 1 \in 1 .. Len(fs) /\ 0 + 1 = 1 /\ 0 \in 0 .. N
      BY <1>1
    <2>2. fs[1].ref = r
      BY <2>1, FrameTypes DEF FrameOK
    <2>. QED
      BY <2>1, <2>2, LevelsUnfold
  <1>3. ASSUME NEW k \in 0 .. N - 1, k \in P
        PROVE  k + 1 \in P
    <2>. DEFINE l == k + 1  j == k + 2
    <2>1. /\ l \in 1 .. Len(fs) /\ j \in 1 .. Len(fs) /\ j > 1 /\ j - 1 = l
          /\ l + 1 = j /\ k + 1 = l /\ l \in 0 .. N /\ k \in 0 .. MaxPath - 1
      BY <1>1
    <2>2. fs[l].ref \in Levels(h)[k][r]
      BY <1>3
    <2>. HIDE DEF l, j, N
    <2>3. /\ fs[l].next <= Len(h[fs[l].ref].items)
          /\ fs[j].ref = ValueAt(h, fs[l])
          /\ fs[l].next \in Nat \ {0} /\ fs[l].ref \in Ref
      BY <2>1, FrameTypes DEF FrameOK
    <2>4. fs[j].ref \in Elements(h, fs[l].ref)
      <3>1. fs[l].next \in 1 .. Len(h[fs[l].ref].items)
        BY <2>3, ItemsOf
      <3>. QED
        BY <2>3, <3>1, ItemsOf DEF ValueAt
    <2>5. fs[j].ref \in Levels(h)[k + 1][r]
      BY <2>1, <2>2, <2>4, LevelsExtend
    <2>. QED
      BY <2>1, <2>5
  <1>4. P = 0 .. N
    <2>. HIDE DEF N
    <2>. QED
      BY <1>1, <1>2, <1>3, UpTo
  <1>. QED
    <2>1. m - 1 \in 0 .. N /\ m - 1 + 1 = m
      BY <1>1
    <2>2. m - 1 \in P
      BY <1>4, <2>1
    <2>. QED
      BY <2>1, <2>2

LEMMA ValueIsElement ==
  ASSUME NEW h \in [Ref -> Node], NEW r, NEW o, NEW fs,
         FramesOK(h, r, o, fs), fs # <<>>, AtValue(h, fs)
  PROVE  /\ fs[Len(fs)].next \in 1 .. Len(h[fs[Len(fs)].ref].items)
         /\ ValueOf(h, r, fs) \in Elements(h, fs[Len(fs)].ref)
         /\ ValueOf(h, r, fs) \in Value
  <1>. DEFINE f == fs[Len(fs)]
  <1>1. f.ref \in Ref /\ f.next \in Nat \ {0}
    BY FrameTypes
  <1>2. f.next <= Len(h[f.ref].items)
    BY DEF AtValue
  <1>3. f.next \in 1 .. Len(h[f.ref].items)
    BY <1>1, <1>2, ItemsOf
  <1>4. ValueOf(h, r, fs) = h[f.ref].items[f.next].value
    BY DEF ValueOf, ValueAt
  <1>. HIDE DEF f
  <1>5. /\ ValueOf(h, r, fs) \in Elements(h, f.ref)
        /\ ValueOf(h, r, fs) \in Value
    BY <1>1, <1>3, <1>4, ItemsOf
  <1>. QED
    BY <1>3, <1>5 DEF f

\* The value the walk is at is in the payload, as deep as there are calls.
LEMMA ValueReached ==
  ASSUME NEW h \in [Ref -> Node], NEW r \in Value, NEW o, NEW fs,
         FramesOK(h, r, o, fs), AtValue(h, fs)
  PROVE  /\ ValueOf(h, r, fs) \in Value
         /\ Len(fs) \in 0 .. MaxPath
         /\ ValueOf(h, r, fs) \in Levels(h)[Len(fs)][r]
  <1>. DEFINE d == Len(fs)
  <1>1. d \in 0 .. MaxPath - 1 /\ d \in 0 .. MaxPath /\ d \in Nat
    BY FrameTypes, CallsAreFew, PayloadSizes
  <1>2. CASE fs = <<>>
    <2>1. Len(fs) = 0 /\ ValueOf(h, r, fs) = r
      BY <1>2 DEF ValueOf
    <2>. QED
      BY <1>1, <2>1, LevelsUnfold
  <1>3. CASE fs # <<>>
    <2>1. d \in 1 .. Len(fs) /\ d - 1 \in 0 .. MaxPath - 1 /\ d - 1 + 1 = d
      <3>1. d \in 1 .. Len(fs)
        BY <1>3, FrameTypes
      <3>2. MaxPath \in Nat
        BY PayloadSizes
      <3>. QED
        BY <1>1, <3>1, <3>2
    <2>2. fs[d].ref \in Levels(h)[d - 1][r]
      <3>. HIDE DEF d
      <3>. QED
        BY <2>1, CallsReached
    <2>3. ValueOf(h, r, fs) \in Elements(h, fs[d].ref)
      BY <1>3, ValueIsElement
    <2>4. ValueOf(h, r, fs) \in Levels(h)[d - 1 + 1][r]
      <3>. HIDE DEF d
      <3>. QED
        BY <2>1, <2>2, <2>3, LevelsExtend
    <2>. QED
      BY <1>1, <1>3, <2>1, <2>4, ValueIsElement
  <1>. QED
    BY <1>2, <1>3

\* A value that is being visited already is on a cycle, which has no end.
LEMMA CycleHasNoEnd ==
  ASSUME NEW h \in [Ref -> Node], NEW r \in Value, NEW o, NEW fs,
         FramesOK(h, r, o, fs), AtValue(h, fs),
         ValueOf(h, r, fs) \in RefsOf(fs)
  PROVE  Levels(h)[MaxPath][r] # {}
  <1>. DEFINE d == Len(fs)
              P == {n \in 0 .. MaxPath :
                      \A k \in 1 .. d : Levels(h)[n][fs[k].ref] # {}}
  <1>1. MaxPath \in Nat /\ d \in Nat
    BY PayloadSizes, FrameTypes
  <1>2. PICK c \in 1 .. d : ValueOf(h, r, fs) = fs[c].ref
    BY DEF RefsOf
  <1>3. fs # <<>> /\ 1 \in 1 .. d
    BY <1>1, <1>2
  <1>4. ASSUME NEW k \in 1 .. d
        PROVE  \E j \in 1 .. d : fs[j].ref \in Elements(h, fs[k].ref)
    <2>1. CASE k = d
      BY <1>2, <1>3, <2>1, ValueIsElement
    <2>2. CASE k # d
      <3>. DEFINE j == k + 1
      <3>1. j \in 1 .. d /\ j > 1 /\ j - 1 = k
        BY <1>1, <2>2
      <3>. HIDE DEF j
      <3>2. /\ fs[k].next <= Len(h[fs[k].ref].items)
            /\ fs[j].ref = ValueAt(h, fs[k])
            /\ fs[k].next \in Nat \ {0} /\ fs[k].ref \in Ref
        BY <3>1, FrameTypes DEF FrameOK
      <3>3. fs[k].next \in 1 .. Len(h[fs[k].ref].items)
        BY <3>2, ItemsOf
      <3>4. fs[j].ref \in Elements(h, fs[k].ref)
        BY <3>2, <3>3, ItemsOf DEF ValueAt
      <3>. QED
        BY <3>1, <3>4
    <2>. QED
      BY <2>1, <2>2
  <1>5. \A k \in 1 .. d : fs[k].ref \in Value
    BY FrameTypes
  <1>6. 0 \in P
    <2>1. \A k \in 1 .. d : Levels(h)[0][fs[k].ref] = {fs[k].ref}
      <3>. HIDE DEF d
      <3>. QED
        BY <1>5, LevelsUnfold
    <2>. QED
      BY <1>1, <2>1
  <1>7. ASSUME NEW n \in 0 .. MaxPath - 1, n \in P
        PROVE  n + 1 \in P
    <2>. DEFINE l == n + 1
    <2>1. l \in 1 .. MaxPath /\ l \in 0 .. MaxPath /\ l - 1 = n
      BY <1>1
    <2>2. \A k \in 1 .. d : Levels(h)[n][fs[k].ref] # {}
      BY <1>7
    <2>. HIDE DEF l, d
    <2>3. ASSUME NEW k \in 1 .. d
          PROVE  Levels(h)[l][fs[k].ref] # {}
      <3>1. PICK j \in 1 .. d : fs[j].ref \in Elements(h, fs[k].ref)
        BY <1>4
      <3>2. Levels(h)[n][fs[j].ref] # {}
        BY <2>2
      <3>3. Levels(h)[l][fs[k].ref] =
              UNION { Levels(h)[l - 1][e] : e \in Elements(h, fs[k].ref) }
        <4>1. fs[k].ref \in Value
          BY <1>5
        <4>. QED
          BY <2>1, <4>1, LevelsUnfold
      <3>. QED
        BY <2>1, <3>1, <3>2, <3>3
    <2>4. l \in P
      BY <2>1, <2>3 DEF d
    <2>. QED
      BY <2>4 DEF l
  <1>8. P = 0 .. MaxPath
    BY <1>1, <1>6, <1>7, UpTo
  <1>9. fs[1].ref = r
    BY <1>3, FrameTypes DEF FrameOK
  <1>10. MaxPath \in P
    BY <1>1, <1>8
  <1>. QED
    BY <1>3, <1>9, <1>10

LEMMA FrameAdvances ==
  ASSUME NEW f \in FrameType, NEW b \in Nat, NEW w \in Nat
  PROVE  LET g == [f EXCEPT !.next = @ + 1, !.bytes = @ + w + b]
         IN /\ g \in FrameType /\ g.ref = f.ref /\ g.next = f.next + 1
            /\ g.bytes = f.bytes + w + b
  <1>. DEFINE n == f.next + 1
              c == f.bytes + w + b
              g == [f EXCEPT !.next = @ + 1, !.bytes = @ + w + b]
  <1>1. n \in Nat \ {0} /\ c \in Nat
    BY DEF FrameType
  <1>2. g = [f EXCEPT !.next = n, !.bytes = c]
    OBVIOUS
  <1>. HIDE DEF n, c, g
  <1>3. g = [ref |-> f.ref, next |-> n, bytes |-> c] /\ f.ref \in Ref
    <2>1. PICK x \in Ref, y \in Nat \ {0}, z \in Nat :
            f = [ref |-> x, next |-> y, bytes |-> z]
      BY DEF FrameType
    <2>. QED
      BY <1>2, <2>1
  <1>4. g \in FrameType /\ g.ref = f.ref /\ g.next = n /\ g.bytes = c
    BY <1>1, <1>3 DEF FrameType
  <1>. QED
    BY <1>4 DEF n, c, g

LEMMA LastReplaced ==
  ASSUME NEW S, NEW fs \in Seq(S), fs # <<>>, NEW g \in S,
         NEW gs, gs = [fs EXCEPT ![Len(fs)] = g]
  PROVE  /\ gs \in Seq(S) /\ Len(gs) = Len(fs) /\ gs[Len(fs)] = g
         /\ \A k \in 1 .. Len(fs) : k # Len(fs) => gs[k] = fs[k]
  OBVIOUS

\* A visit that returns: the value its caller is at has been passed.
LEMMA CallReturns ==
  ASSUME NEW h \in [Ref -> Node], NEW r \in Value, NEW o, NEW fs,
         FramesOK(h, r, o, fs), fs # <<>>, AtValue(h, fs),
         NEW v, v = ValueOf(h, r, fs), Done(h, o, v, Len(fs)),
         NEW f, f = fs[Len(fs)],
         NEW g \in FrameType, g.ref = f.ref, g.next = f.next + 1,
         g.bytes = f.bytes + Sizes(h)[MaxPath][v]
                     + ItemBytes(h[f.ref], f.next),
         NEW gs \in Seq(FrameType), Len(gs) = Len(fs), gs[Len(fs)] = g,
         \A k \in 1 .. Len(fs) : k # Len(fs) => gs[k] = fs[k]
  PROVE  FramesOK(h, r, o, gs) /\ RefsOf(gs) = RefsOf(fs)
  <1>. DEFINE d == Len(fs)
              size == Sizes(h)[MaxPath]
              s == ItemSizes(h[f.ref], size)
              items == h[f.ref].items
              b == ItemBytes(h[f.ref], f.next)
              w == size[v]
  <1>1. /\ d \in Nat /\ d \in 1 .. d /\ f.ref \in Ref
        /\ f.next \in Nat \ {0} /\ f.bytes \in Nat
        /\ f \in FrameType /\ FrameOK(h, r, o, fs, d)
        /\ fs \in Seq(FrameType) /\ fs[d] = f
    BY FrameTypes
  <1>2. size \in [Value -> Nat]
    <2>1. MaxPath \in 0 .. MaxPath
      BY PayloadSizes
    <2>. QED
      BY <2>1, SizesUnfold
  <1>3. /\ f.next \in 1 .. Len(items) /\ v = items[f.next].value
        /\ v \in Value /\ Len(items) \in Nat
        /\ b \in Nat /\ w \in Nat
    <2>1. f.next \in 1 .. Len(items) /\ v \in Value
      BY ValueIsElement
    <2>2. v = items[f.next].value
      BY DEF ValueOf, ValueAt
    <2>3. w \in Nat
      <3>. HIDE DEF size
      <3>. QED
        BY <1>2, <2>1
    <2>. QED
      BY <1>1, <2>1, <2>2, <2>3, ItemsOf
  <1>4. /\ s \in Seq(Nat) /\ Len(s) = Len(items) /\ s[f.next] = b + w
    <2>1. /\ \A i \in 1 .. Len(items) :
               s[i] = ItemBytes(h[f.ref], i) + size[items[i].value]
          /\ s \in Seq(Nat) /\ Len(s) = Len(items)
      <3>. HIDE DEF size
      <3>. QED
        BY <1>1, <1>2, ItemSizesType
    <2>. HIDE DEF s, size, items
    <2>. QED
      BY <1>3, <2>1
  <1>5. /\ f.bytes = 2 + SumOfFirst(s, f.next - 1)
        /\ \A i \in 1 .. f.next - 1 : Done(h, o, items[i].value, d)
    BY <1>1 DEF FrameOK
  <1>6. Done(h, o, v, d)
    OBVIOUS
  <1>7. g.ref = f.ref /\ g.next = f.next + 1 /\ g.bytes = f.bytes + w + b
    OBVIOUS
  <1>. HIDE DEF d, size, s, items, b, w
  <1>8. g.bytes = 2 + SumOfFirst(s, g.next - 1)
    <2>1. /\ f.next \in 1 .. Len(s) /\ f.next - 1 \in 0 .. Len(s)
          /\ g.next - 1 = f.next
      <3>1. f.next \in Nat \ {0} /\ g.next = f.next + 1
        BY <1>1, <1>7
      <3>2. f.next \in 1 .. Len(s) /\ Len(s) \in Nat
        BY <1>3, <1>4
      <3>3. g.next - 1 = f.next
        BY <3>1
      <3>. QED
        BY <3>1, <3>2, <3>3
    <2>2. /\ SumOfFirst(s, f.next) = SumOfFirst(s, f.next - 1) + s[f.next]
          /\ SumOfFirst(s, f.next - 1) \in Nat
      BY <1>4, <2>1, SumUnfold
    <2>. QED
      BY <1>3, <1>4, <1>5, <1>7, <2>1, <2>2
  <1>9. /\ gs \in Seq(FrameType) /\ Len(gs) = d /\ gs[d] = g
        /\ \A k \in 1 .. d : k # d => gs[k] = fs[k]
        /\ \A k \in 1 .. d : gs[k].ref = fs[k].ref
    <2>1. /\ gs \in Seq(FrameType) /\ Len(gs) = d /\ gs[d] = g
          /\ \A k \in 1 .. d : k # d => gs[k] = fs[k]
      BY DEF d
    <2>. QED
      BY <1>1, <1>7, <2>1
  <1>10. ASSUME NEW k \in 1 .. d
         PROVE  FrameOK(h, r, o, gs, k)
    <2>1. FrameOK(h, r, o, fs, k)
      BY FrameTypes DEF d
    <2>2. k > 1 => k - 1 \in 1 .. d /\ k - 1 # d
      BY <1>1
    <2>3. CASE k # d
      <3>1. gs[k] = fs[k] /\ (k > 1 => gs[k - 1] = fs[k - 1])
        BY <1>9, <2>2, <2>3
      <3>. QED
        BY <2>1, <3>1 DEF FrameOK
    <2>4. CASE k = d
      <3>1. gs[k] = g /\ (k > 1 => gs[k - 1] = fs[k - 1])
        BY <1>9, <2>2, <2>4
      <3>2. /\ k = 1 => g.ref = r
            /\ k > 1 => /\ fs[k - 1].next <= Len(h[fs[k - 1].ref].items)
                        /\ g.ref = ValueAt(h, fs[k - 1])
            /\ FitsAt(h, o, g.ref, k - 1)
        BY <1>1, <1>7, <2>1, <2>4 DEF FrameOK
      <3>3. g.next <= Len(items) + 1
        BY <1>3, <1>7
      <3>4. \A i \in 1 .. g.next - 1 : i \in 1 .. f.next - 1 \/ i = f.next
        BY <1>1, <1>7
      <3>5. \A i \in 1 .. g.next - 1 : Done(h, o, items[i].value, k)
        BY <1>3, <1>5, <1>6, <2>4, <3>4
      <3>. QED
        BY <1>7, <1>8, <3>1, <3>2, <3>3, <3>5 DEF FrameOK, items, s, size
    <2>. QED
      BY <2>3, <2>4
  <1>11. \A j, k \in 1 .. d : gs[j].ref = gs[k].ref => j = k
    BY <1>9 DEF FramesOK, d
  <1>12. RefsOf(gs) = RefsOf(fs)
    BY <1>9 DEF RefsOf, d
  <1>. QED
    BY <1>9, <1>10, <1>11, <1>12 DEF FramesOK

\* A visit of a node that is not being visited.
LEMMA CallEnters ==
  ASSUME NEW h \in [Ref -> Node], NEW r \in Value, NEW o, NEW fs,
         FramesOK(h, r, o, fs), AtValue(h, fs),
         NEW v \in Ref, v = ValueOf(h, r, fs), v \notin RefsOf(fs),
         FitsAt(h, o, v, Len(fs)),
         NEW g, g = [ref |-> v, next |-> 1, bytes |-> 2]
  PROVE  /\ FramesOK(h, r, o, Append(fs, g))
         /\ RefsOf(Append(fs, g)) = RefsOf(fs) \cup {v}
  <1>. DEFINE d == Len(fs)
              gs == Append(fs, g)
  <1>1. fs \in Seq(FrameType) /\ d \in Nat /\ g \in FrameType
    <2>1. g \in FrameType
      BY DEF FrameType
    <2>. QED
      BY <2>1, FrameTypes
  <1>2. /\ gs \in Seq(FrameType) /\ Len(gs) = d + 1 /\ gs[d + 1] = g
        /\ \A k \in 1 .. d : gs[k] = fs[k]
    BY <1>1
  <1>. HIDE DEF gs
  <1>3. \A k \in 1 .. d + 1 : k \in 1 .. d \/ k = d + 1
    BY <1>1
  <1>4. ASSUME NEW k \in 1 .. d + 1
        PROVE  FrameOK(h, r, o, gs, k)
    <2>1. CASE k \in 1 .. d
      <3>1. FrameOK(h, r, o, fs, k)
        BY <2>1, FrameTypes
      <3>2. gs[k] = fs[k] /\ (k > 1 => gs[k - 1] = fs[k - 1])
        BY <1>1, <1>2, <2>1
      <3>. QED
        BY <3>1, <3>2 DEF FrameOK
    <2>2. CASE k = d + 1
      <3>1. gs[k] = g /\ k - 1 = d
        BY <1>1, <1>2, <2>2
      <3>2. g.next <= Len(h[v].items) + 1
        BY ItemsOf
      <3>3. k = 1 => v = r
        BY <1>1, <2>2 DEF ValueOf
      <3>4. ASSUME k > 1
            PROVE  /\ gs[k - 1].next <= Len(h[gs[k - 1].ref].items)
                   /\ v = ValueAt(h, gs[k - 1])
        <4>1. d \in 1 .. d /\ fs # <<>>
          BY <1>1, <3>1, <3>4
        <4>2. gs[k - 1] = fs[d]
          BY <1>2, <3>1, <4>1
        <4>. QED
          BY <4>1, <4>2 DEF AtValue, ValueOf
      <3>5. SumOfFirst(ItemSizes(h[v], Sizes(h)[MaxPath]), 0) = 0
        <4>1. Sizes(h)[MaxPath] \in [Value -> Nat]
          <5>1. MaxPath \in 0 .. MaxPath
            BY PayloadSizes
          <5>. QED
            BY <5>1, SizesUnfold
        <4>. DEFINE s == ItemSizes(h[v], Sizes(h)[MaxPath])
        <4>2. s \in Seq(Nat)
          BY <4>1, ItemSizesType
        <4>. HIDE DEF s
        <4>3. SumOfFirst(s, 0) = 0
          BY <4>2, SumUnfold
        <4>. QED
          BY <4>3 DEF s
      <3>. QED
        BY <3>1, <3>2, <3>3, <3>4, <3>5 DEF FrameOK
    <2>. QED
      BY <1>3, <2>1, <2>2
  <1>5. ASSUME NEW j \in 1 .. d + 1, NEW k \in 1 .. d + 1,
               gs[j].ref = gs[k].ref
        PROVE  j = k
    <2>1. \A i \in 1 .. d : gs[i].ref # v
      BY <1>2 DEF RefsOf
    <2>2. gs[d + 1].ref = v
      BY <1>2
    <2>3. CASE j \in 1 .. d /\ k \in 1 .. d
      BY <1>2, <1>5, <2>3 DEF FramesOK
    <2>4. CASE j = d + 1 \/ k = d + 1
      BY <1>3, <1>5, <2>1, <2>2, <2>4
    <2>. QED
      BY <1>3, <2>3, <2>4
  <1>6. RefsOf(gs) = RefsOf(fs) \cup {v}
    <2>1. RefsOf(gs) \subseteq RefsOf(fs) \cup {v}
      BY <1>2, <1>3 DEF RefsOf
    <2>2. RefsOf(fs) \subseteq RefsOf(gs)
      <3>1. \A k \in 1 .. d : k \in 1 .. d + 1
        BY <1>1
      <3>. QED
        BY <1>2, <3>1 DEF RefsOf
    <2>3. v \in RefsOf(gs)
      <3>1. d + 1 \in 1 .. d + 1
        BY <1>1
      <3>. QED
        BY <1>2, <3>1 DEF RefsOf
    <2>. QED
      BY <2>1, <2>2, <2>3
  <1>. QED
    BY <1>2, <1>4, <1>5, <1>6 DEF FramesOK, gs

\* The calls around the innermost one, which is for the value they are at.
LEMMA CallLeaves ==
  ASSUME NEW h \in [Ref -> Node], NEW r \in Value, NEW o, NEW fs,
         FramesOK(h, r, o, fs), fs # <<>>
  PROVE  LET gs == SubSeq(fs, 1, Len(fs) - 1)
         IN /\ FramesOK(h, r, o, gs) /\ Len(gs) = Len(fs) - 1
            /\ AtValue(h, gs)
            /\ ValueOf(h, r, gs) = fs[Len(fs)].ref
            /\ RefsOf(gs) = RefsOf(fs) \ {fs[Len(fs)].ref}
  <1>. DEFINE d == Len(fs) - 1
              gs == SubSeq(fs, 1, Len(fs) - 1)
  <1>1. fs \in Seq(FrameType) /\ d \in Nat /\ Len(fs) = d + 1
    BY FrameTypes
  <1>2. /\ gs \in Seq(FrameType) /\ Len(gs) = d
        /\ \A k \in 1 .. d : gs[k] = fs[k]
    <2>1. gs = SubSeq(fs, 1, d)
      OBVIOUS
    <2>. HIDE DEF d
    <2>. QED
      BY <1>1, <2>1, SubSeqProperties
  <1>. HIDE DEF d, gs
  <1>3. /\ \A k \in 1 .. d : k \in 1 .. Len(fs)
        /\ \A k \in 1 .. Len(fs) : k \in 1 .. d \/ k = d + 1
        /\ d + 1 \in 1 .. Len(fs)
    BY <1>1
  <1>4. ASSUME NEW k \in 1 .. d
        PROVE  FrameOK(h, r, o, gs, k)
    <2>1. FrameOK(h, r, o, fs, k)
      BY <1>3, FrameTypes
    <2>2. gs[k] = fs[k] /\ (k > 1 => gs[k - 1] = fs[k - 1])
      BY <1>1, <1>2
    <2>. QED
      BY <2>1, <2>2 DEF FrameOK
  <1>5. \A j, k \in 1 .. d : gs[j].ref = gs[k].ref => j = k
    BY <1>2, <1>3 DEF FramesOK
  <1>6. AtValue(h, gs) /\ ValueOf(h, r, gs) = fs[d + 1].ref
    <2>1. FrameOK(h, r, o, fs, d + 1)
      BY <1>3, FrameTypes
    <2>2. CASE d = 0
      <3>1. gs = <<>>
        <4>1. gs \in Seq(FrameType) /\ Len(gs) = 0
          BY <1>2, <2>2
        <4>. QED
          BY <4>1, EmptySeq
      <3>. QED
        BY <2>1, <2>2, <3>1 DEF AtValue, ValueOf, FrameOK
    <2>3. CASE d # 0
      <3>1. /\ gs # <<>> /\ d + 1 > 1 /\ (d + 1) - 1 = d
            /\ gs[Len(gs)] = fs[d]
        BY <1>1, <1>2, <2>3
      <3>. QED
        BY <2>1, <2>3, <3>1 DEF AtValue, ValueOf, FrameOK
    <2>. QED
      BY <2>2, <2>3
  <1>7. RefsOf(gs) = RefsOf(fs) \ {fs[d + 1].ref}
    <2>1. \A k \in 1 .. d : fs[k].ref # fs[d + 1].ref
      <3>1. \A k \in 1 .. d : k # d + 1
        BY <1>1
      <3>. QED
        BY <1>3, <3>1 DEF FramesOK
    <2>2. RefsOf(gs) = {fs[k].ref : k \in 1 .. d}
      BY <1>2 DEF RefsOf
    <2>3. RefsOf(fs) = {fs[k].ref : k \in 1 .. d} \cup {fs[d + 1].ref}
      BY <1>3 DEF RefsOf
    <2>. QED
      BY <2>1, <2>2, <2>3
  <1>. QED
    BY <1>1, <1>2, <1>4, <1>5, <1>6, <1>7 DEF FramesOK, gs

\* A node all of whose items have been passed is done, and its bytes are its
\* own.
LEMMA CallIsDone ==
  ASSUME NEW h \in [Ref -> Node], NEW r \in Value, NEW o, NEW fs,
         FramesOK(h, r, o, fs), fs # <<>>, ~AtValue(h, fs),
         NEW f, f = fs[Len(fs)]
  PROVE  /\ Done(h, o, f.ref, Len(fs) - 1)
         /\ f.bytes = Sizes(h)[MaxPath][f.ref]
  <1>. DEFINE d == Len(fs) - 1
  <1>1. /\ d \in Nat /\ d + 1 = Len(fs) /\ d < Cardinality(Ref)
        /\ f.ref \in Ref /\ f.next \in Nat \ {0}
        /\ FrameOK(h, r, o, fs, Len(fs))
    <2>1. Len(fs) <= Cardinality(Ref) /\ Cardinality(Ref) \in Nat
      BY CallsAreFew, PayloadSizes
    <2>2. Len(fs) \in 1 .. Len(fs) /\ Len(fs) \in Nat
      BY FrameTypes
    <2>. QED
      BY <2>1, <2>2, FrameTypes
  <1>2. Len(h[f.ref].items) \in Nat
    BY <1>1, ItemsOf
  <1>3. f.next - 1 = Len(h[f.ref].items)
    <2>1. f.next <= Len(h[f.ref].items) + 1
      BY <1>1 DEF FrameOK
    <2>2. ~(f.next <= Len(h[f.ref].items))
      BY DEF AtValue
    <2>. QED
      BY <1>1, <1>2, <2>1, <2>2
  <1>4. /\ FitsAt(h, o, f.ref, d)
        /\ \A i \in 1 .. Len(h[f.ref].items) :
             Done(h, o, h[f.ref].items[i].value, d + 1)
        /\ f.bytes = NodeSize(h, f.ref, Sizes(h)[MaxPath])
    BY <1>1, <1>3 DEF FrameOK, NodeSize
  <1>. HIDE DEF d
  <1>5. Done(h, o, f.ref, d)
    BY <1>1, <1>4, NodeIsDone
  <1>6. Sizes(h)[MaxPath][f.ref] = NodeSize(h, f.ref, Sizes(h)[MaxPath])
    BY <1>1, <1>4, NodeIsWritten
  <1>. QED
    BY <1>4, <1>5, <1>6 DEF d

-----------------------------------------------------------------------------
(* Verdicts.                                                               *)

LEMMA SerializableIs ==
  ASSUME heap \in [Ref -> Node], root \in Value
  PROVE  /\ IsSerializable <=> Serializable(heap, root, options)
         /\ TreeBytes = Sizes(heap)[MaxPath][root]
  <1>1. ASSUME NEW v \in Value
        PROVE  Fits(v) <=> FitsOf(heap, options, v)
    <2>1. CASE v \in Leaf
      BY <2>1 DEF Fits, FitsOf, Within, WithinOf
    <2>2. CASE v \notin Leaf
      <3>1. heap[v].kind \in {"array", "object", "other"}
        BY <2>2, ItemsOf DEF Value
      <3>. QED
        BY <2>2, <3>1 DEF Fits, FitsOf, Within, WithinOf
    <2>. QED
      BY <2>1, <2>2
  <1>2. \A size, name : Within(size, name) <=> WithinOf(options, size, name)
    BY DEF Within, WithinOf
  <1>3. \A n \in 0 .. MaxPath : \A v \in Levels(heap)[n][root] : v \in Value
    BY LevelOf
  <1>4. \A n \in 0 .. MaxPath : \A v \in Levels(heap)[n][root] :
          (Fits(v) /\ Within(n, "max_depth")) <=>
            FitsAt(heap, options, v, n)
    BY <1>1, <1>2, <1>3 DEF FitsAt
  <1>5. TreeBytes = Sizes(heap)[MaxPath][root]
    BY DEF TreeBytes
  <1>6. Acyclic <=> Levels(heap)[MaxPath][root] = {}
    BY DEF Acyclic
  <1>. QED
    BY <1>2, <1>4, <1>5, <1>6 DEF IsSerializable, Serializable, LimitsGiven

LEMMA InvalidIs ==
  ASSUME NEW h, NEW r, NEW o, NEW reason, ~Serializable(h, r, o)
  PROVE  VerdictOK(h, r, o, Invalid(reason))
  <1>1. Invalid(reason).valid = FALSE
    BY DEF Invalid
  <1>. QED
    BY <1>1 DEF VerdictOK

\* A payload that is done, as a whole, is serializable up to its size.
LEMMA WholeIsDone ==
  ASSUME NEW h \in [Ref -> Node], NEW r \in Value, NEW o,
         LimitsGiven(o), Done(h, o, r, 0)
  PROVE  Serializable(h, r, o) <=>
           WithinOf(o, Sizes(h)[MaxPath][r], "max_total_bytes")
  <1>1. Levels(h)[MaxPath][r] = {}
    <2>1. MaxPath \in 0 .. MaxPath /\ MaxPath > Cardinality(Ref) - 0
      BY PayloadSizes
    <2>. QED
      BY <2>1 DEF Done
  <1>2. ASSUME NEW n \in 0 .. MaxPath, NEW v \in Levels(h)[n][r]
        PROVE  FitsAt(h, o, v, n)
    <2>1. FitsAt(h, o, v, 0 + n) /\ 0 + n = n
      BY PayloadSizes DEF Done
    <2>. QED
      BY <2>1
  <1>. QED
    BY <1>1, <1>2 DEF Serializable

\* The value the walk is at does not fit or is on a cycle.
LEMMA FaultDecides ==
  ASSUME NEW h \in [Ref -> Node], NEW r \in Value, NEW o, NEW fs,
         FramesOK(h, r, o, fs), AtValue(h, fs),
         NEW v, v = ValueOf(h, r, fs),
         v \in RefsOf(fs) \/ ~FitsAt(h, o, v, Len(fs))
  PROVE  ~Serializable(h, r, o)
  <1>1. CASE v \in RefsOf(fs)
    BY <1>1, CycleHasNoEnd DEF Serializable
  <1>2. CASE ~FitsAt(h, o, v, Len(fs))
    <2>1. Len(fs) \in 0 .. MaxPath /\ v \in Levels(h)[Len(fs)][r]
      BY ValueReached
    <2>. QED
      BY <1>2, <2>1 DEF Serializable
  <1>. QED
    BY <1>1, <1>2

LEMMA TwoRows ==
  ASSUME NEW x, NEW a, NEW b
  PROVE  AllPass(<<x>> \o <<a, b>>) <=> x.passed /\ a.passed /\ b.passed
  <1>. DEFINE S == {x, a, b}  s == <<x>>  t == <<a, b>>
  <1>1. /\ s \in Seq(S) /\ Len(s) = 1 /\ s[1] = x
        /\ t \in Seq(S) /\ Len(t) = 2 /\ t[1] = a /\ t[2] = b
    OBVIOUS
  <1>. HIDE DEF S, s, t
  <1>2. /\ Len(s \o t) = Len(s) + Len(t)
        /\ \A i \in 1 .. Len(s) : (s \o t)[i] = s[i]
        /\ \A i \in 1 .. Len(t) : (s \o t)[Len(s) + i] = t[i]
    <2>1. s \in Seq(S) /\ t \in Seq(S)
      BY <1>1
    <2>. QED
      BY <2>1, ConcatAt
  <1>3. /\ Len(s \o t) = 3 /\ (s \o t)[1] = x
        /\ (s \o t)[2] = a /\ (s \o t)[3] = b
    BY <1>1, <1>2
  <1>4. \A i \in 1 .. 3 : i = 1 \/ i = 2 \/ i = 3
    OBVIOUS
  <1>5. AllPass(s \o t) <=> x.passed /\ a.passed /\ b.passed
    BY <1>3, <1>4 DEF AllPass
  <1>. QED
    BY <1>5 DEF s, t

LEMMA FourRows ==
  ASSUME NEW x, NEW a, NEW b, NEW c, NEW d
  PROVE  AllPass(<<x>> \o <<a, b, c, d>>) <=>
           x.passed /\ a.passed /\ b.passed /\ c.passed /\ d.passed
  <1>. DEFINE S == {x, a, b, c, d}  s == <<x>>  t == <<a, b, c, d>>
  <1>1. /\ s \in Seq(S) /\ Len(s) = 1 /\ s[1] = x
        /\ t \in Seq(S) /\ Len(t) = 4
        /\ t[1] = a /\ t[2] = b /\ t[3] = c /\ t[4] = d
    OBVIOUS
  <1>. HIDE DEF S, s, t
  <1>2. /\ Len(s \o t) = Len(s) + Len(t)
        /\ \A i \in 1 .. Len(s) : (s \o t)[i] = s[i]
        /\ \A i \in 1 .. Len(t) : (s \o t)[Len(s) + i] = t[i]
    <2>1. s \in Seq(S) /\ t \in Seq(S)
      BY <1>1
    <2>. QED
      BY <2>1, ConcatAt
  <1>3. /\ Len(s \o t) = 5 /\ (s \o t)[1] = x
        /\ (s \o t)[2] = a /\ (s \o t)[3] = b
        /\ (s \o t)[4] = c /\ (s \o t)[5] = d
    BY <1>1, <1>2
  <1>4. \A i \in 1 .. 5 : i = 1 \/ i = 2 \/ i = 3 \/ i = 4 \/ i = 5
    OBVIOUS
  <1>5. AllPass(s \o t) <=>
          x.passed /\ a.passed /\ b.passed /\ c.passed /\ d.passed
    BY <1>3, <1>4 DEF AllPass
  <1>. QED
    BY <1>5 DEF s, t

\* What passes the checks of a visit fits and is not being visited.
LEMMA VisitPasses ==
  ASSUME heap \in [Ref -> Node], NEW v \in Value,
         seen = RefsOf(frames), FramesOK(heap, root, options, frames)
  PROVE  AllPass(VisitTable(v)) <=>
           /\ FitsAt(heap, options, v, Len(frames))
           /\ v \notin RefsOf(frames)
  <1>1. \A passed, reason : Row(passed, reason).passed = passed
    BY DEF Row
  <1>2. \A size, name : Within(size, name) <=> WithinOf(options, size, name)
    BY DEF Within, WithinOf
  <1>3. CASE v \in Ref
    <2>1. v \notin Leaf
      BY <1>3, PayloadSizes
    <2>. DEFINE n == heap[v]
    <2>2. n.kind \in {"array", "object", "other"}
      BY <1>3, ItemsOf
    <2>3. AllPass(VisitTable(v)) <=>
            /\ Within(Len(frames), "max_depth")
            /\ v \notin seen
            /\ n.kind # "other"
            /\ n.kind = "array" => Within(Len(n.items), "max_array_length")
            /\ n.kind = "object" => Within(Len(n.items), "max_object_keys")
      <3>. DEFINE x == Row(Within(Len(frames), "max_depth"),
                           "max-depth-exceeded")
                  a == Row(v \notin seen, "cyclic-reference")
                  b == Row(n.kind # "other", "non-plain-object")
                  c == Row(n.kind = "array" =>
                             Within(Len(n.items), "max_array_length"),
                           "max-array-length-exceeded")
                  d == Row(n.kind = "object" =>
                             Within(Len(n.items), "max_object_keys"),
                           "max-object-keys-exceeded")
      <3>1. VisitTable(v) = <<x>> \o <<a, b, c, d>>
        BY <1>3 DEF VisitTable, NodeTable, Depth
      <3>2. /\ x.passed = Within(Len(frames), "max_depth")
            /\ a.passed = (v \notin seen)
            /\ b.passed = (n.kind # "other")
            /\ c.passed = (n.kind = "array" =>
                             Within(Len(n.items), "max_array_length"))
            /\ d.passed = (n.kind = "object" =>
                             Within(Len(n.items), "max_object_keys"))
        BY DEF Row
      <3>. HIDE DEF x, a, b, c, d
      <3>3. AllPass(VisitTable(v)) <=>
              x.passed /\ a.passed /\ b.passed /\ c.passed /\ d.passed
        BY <3>1, FourRows
      <3>. QED
        BY <3>2, <3>3
    <2>. HIDE DEF n
    <2>4. FitsOf(heap, options, v) <=>
            /\ n.kind # "other"
            /\ n.kind = "array" => Within(Len(n.items), "max_array_length")
            /\ n.kind = "object" => Within(Len(n.items), "max_object_keys")
      BY <1>2, <2>1, <2>2 DEF FitsOf, n
    <2>. QED
      BY <1>2, <2>3, <2>4 DEF FitsAt
  <1>4. CASE v \notin Ref
    <2>1. v \in Leaf /\ v \notin RefsOf(frames)
      BY <1>4, FrameTypes DEF Value, RefsOf
    <2>2. AllPass(VisitTable(v)) <=>
            /\ Within(Len(frames), "max_depth")
            /\ v.fault = "none"
            /\ Within(v.raw, "max_string_bytes")
      <3>. DEFINE x == Row(Within(Len(frames), "max_depth"),
                           "max-depth-exceeded")
                  a == Row(v.fault = "none", v.fault)
                  b == Row(Within(v.raw, "max_string_bytes"),
                           "max-string-bytes-exceeded")
      <3>1. VisitTable(v) = <<x>> \o <<a, b>>
        BY <1>4 DEF VisitTable, LeafTable, Depth
      <3>2. /\ x.passed = Within(Len(frames), "max_depth")
            /\ a.passed = (v.fault = "none")
            /\ b.passed = Within(v.raw, "max_string_bytes")
        BY DEF Row
      <3>. HIDE DEF x, a, b
      <3>3. AllPass(VisitTable(v)) <=> x.passed /\ a.passed /\ b.passed
        BY <3>1, TwoRows
      <3>. QED
        BY <3>2, <3>3
    <2>3. FitsOf(heap, options, v) <=>
            v.fault = "none" /\ Within(v.raw, "max_string_bytes")
      BY <1>2, <2>1 DEF FitsOf
    <2>. QED
      BY <1>2, <2>1, <2>2, <2>3 DEF FitsAt
  <1>. QED
    BY <1>3, <1>4

\* A visit that returns, to its caller or from the whole walk.
LEMMA WalkReturns ==
  ASSUME heap \in [Ref -> Node], root \in Value, LimitsGiven(options),
         VerdictOK(heap, root, options, verdict),
         NEW below, FramesOK(heap, root, options, below),
         AtValue(heap, below),
         NEW v, v = ValueOf(heap, root, below),
         Done(heap, options, v, Len(below)),
         NEW bytes, bytes = Sizes(heap)[MaxPath][v],
         Return(below, bytes)
  PROVE  /\ FramesOK(heap, root, options, frames')
         /\ RefsOf(frames') = RefsOf(below)
         /\ VerdictOK(heap, root, options, verdict')
  <1>1. CASE below = <<>>
    <2>1. /\ frames' = below
          /\ verdict' = IF Within(bytes, "max_total_bytes") THEN Valid(bytes)
                        ELSE Invalid("max-total-bytes-exceeded")
      BY <1>1 DEF Return
    <2>2. v = root /\ Len(below) = 0
      BY <1>1 DEF ValueOf
    <2>3. Serializable(heap, root, options) <=>
            Within(bytes, "max_total_bytes")
      <3>1. Done(heap, options, root, 0)
        BY <2>2
      <3>2. Within(bytes, "max_total_bytes") <=>
              WithinOf(options, Sizes(heap)[MaxPath][root], "max_total_bytes")
        BY <2>2 DEF Within, WithinOf
      <3>. QED
        BY <3>1, <3>2, WholeIsDone
    <2>4. CASE Within(bytes, "max_total_bytes")
      <3>1. /\ verdict'.valid = TRUE
            /\ verdict'.byte_size = Sizes(heap)[MaxPath][root]
        BY <2>1, <2>2, <2>4 DEF Valid
      <3>. QED
        BY <2>1, <2>3, <2>4, <3>1 DEF VerdictOK
    <2>5. CASE ~Within(bytes, "max_total_bytes")
      BY <2>1, <2>3, <2>5, InvalidIs
    <2>. QED
      BY <2>4, <2>5
  <1>2. CASE below # <<>>
    <2>. DEFINE d == Len(below)
                f == below[d]
                b == ItemBytes(heap[f.ref], f.next)
                g == [f EXCEPT !.next = @ + 1, !.bytes = @ + bytes + b]
                gs == [below EXCEPT ![d] = g]
    <2>1. frames' = gs /\ verdict' = verdict
      BY <1>2 DEF Return
    <2>2. f \in FrameType /\ f.ref \in Ref
      BY <1>2, FrameTypes
    <2>3. b \in Nat
      <3>1. f.next \in 1 .. Len(heap[f.ref].items)
        BY <1>2, ValueIsElement
      <3>. HIDE DEF f
      <3>. QED
        BY <2>2, <3>1, ItemsOf
    <2>4. bytes \in Nat
      <3>1. v \in Value
        BY ValueReached
      <3>2. Sizes(heap)[MaxPath] \in [Value -> Nat]
        <4>1. MaxPath \in 0 .. MaxPath
          BY PayloadSizes
        <4>. QED
          BY <4>1, SizesUnfold
      <3>. QED
        BY <3>1, <3>2
    <2>. HIDE DEF f, b
    <2>5. /\ g \in FrameType /\ g.ref = f.ref /\ g.next = f.next + 1
          /\ g.bytes = f.bytes + bytes + b
      BY <2>2, <2>3, <2>4, FrameAdvances
    <2>. HIDE DEF g
    <2>6. /\ gs \in Seq(FrameType) /\ Len(gs) = d /\ gs[d] = g
          /\ \A k \in 1 .. d : k # d => gs[k] = below[k]
      <3>1. below \in Seq(FrameType)
        BY FrameTypes
      <3>. QED
        BY <1>2, <2>5, <3>1, LastReplaced
    <2>. HIDE DEF gs
    <2>7. g.bytes = f.bytes + Sizes(heap)[MaxPath][v]
                      + ItemBytes(heap[f.ref], f.next)
      BY <2>5 DEF b
    <2>8. FramesOK(heap, root, options, gs) /\ RefsOf(gs) = RefsOf(below)
      BY <1>2, <2>5, <2>6, <2>7, CallReturns DEF f
    <2>. QED
      BY <2>1, <2>8
  <1>. QED
    BY <1>1, <1>2

\* Where the walk is, in the words of the module
LEMMA WhereItIs ==
  ASSUME FramesOK(heap, root, options, frames)
  PROVE  /\ HasNext <=> AtValue(heap, frames)
         /\ Current = ValueOf(heap, root, frames)
         /\ frames # <<>> => Top = frames[Len(frames)]
  BY DEF HasNext, AtValue, Current, ValueOf, ValueAt, Top, Depth

LEMMA WalkBegins == WalkInit => WalkIInv
  <1>. SUFFICES ASSUME WalkInit PROVE WalkIInv
    OBVIOUS
  <1>1. heap \in [Ref -> Node] /\ root \in Value
    BY PayloadAssumption DEF WalkInit
  <1>2. frames = <<>> /\ seen = {} /\ verdict = Pending
    BY DEF WalkInit
  <1>3. FramesOK(heap, root, options, frames) /\ RefsOf(frames) = {}
    <2>1. frames \in Seq(FrameType) /\ 1 .. Len(frames) = {}
      BY <1>2
    <2>. QED
      BY <2>1 DEF FramesOK, RefsOf
  <1>. QED
    BY <1>1, <1>2, <1>3 DEF WalkIInv, VerdictOK

LEMMA WalkGoesOn == WalkIInv /\ [WalkNext]_walkVars => WalkIInv'
  <1>. SUFFICES ASSUME WalkIInv, [WalkNext]_walkVars PROVE WalkIInv'
    OBVIOUS
  <1>. DEFINE v == ValueOf(heap, root, frames)
              OK(fs, sn, given) ==
                /\ FramesOK(heap, root, options, fs)
                /\ sn = RefsOf(fs)
                /\ VerdictOK(heap, root, options, given)
  <1>1. /\ heap \in [Ref -> Node] /\ root \in Value
        /\ OK(frames, seen, verdict)
    BY DEF WalkIInv
  <1>2. /\ HasNext <=> AtValue(heap, frames)
        /\ Current = v
        /\ frames # <<>> => Top = frames[Len(frames)]
    BY <1>1, WhereItIs
  <1>3. HasNext => v \in Value
    BY <1>1, <1>2, ValueReached
  <1>4. HasNext =>
          (AllPass(VisitTable(v)) <=>
             /\ FitsAt(heap, options, v, Len(frames))
             /\ v \notin RefsOf(frames))
    BY <1>1, <1>3, VisitPasses
  <1>5. Walking => LimitsGiven(options)
    BY DEF Walking, LimitsGiven
  <1>6. SUFFICES ASSUME heap' = heap, root' = root, options' = options
                 PROVE  OK(frames', seen', verdict')
    <2>1. heap' = heap /\ root' = root /\ options' = options
      BY DEF WalkNext, RefuseLimits, Refuse, VisitLeaf, EnterObject,
             Overflow, LeaveObject, walkVars
    <2>2. OK(frames', seen', verdict')
      BY <1>6, <2>1
    <2>. QED
      BY <1>1, <2>1, <2>2 DEF WalkIInv
  <1>. HIDE DEF v
  <1>7. ASSUME RefuseLimits PROVE OK(frames', seen', verdict')
    <2>1. ~Serializable(heap, root, options)
      BY <1>7 DEF RefuseLimits, Serializable, LimitsGiven
    <2>2. /\ frames' = frames /\ seen' = seen
          /\ verdict' = Invalid("invalid-limit")
      BY <1>7 DEF RefuseLimits
    <2>. QED
      BY <1>1, <2>1, <2>2, InvalidIs
  <1>8. ASSUME Refuse PROVE OK(frames', seen', verdict')
    <2>1. /\ HasNext /\ ~AllPass(VisitTable(v))
          /\ frames' = frames /\ seen' = seen
          /\ \E reason : verdict' = Invalid(reason)
      BY <1>2, <1>8 DEF Refuse
    <2>2. ~Serializable(heap, root, options)
      BY <1>1, <1>2, <1>4, <2>1, FaultDecides DEF v
    <2>. QED
      BY <1>1, <2>1, <2>2, InvalidIs
  <1>9. ASSUME VisitLeaf PROVE OK(frames', seen', verdict')
    <2>1. /\ Walking /\ HasNext /\ v \in Leaf /\ AllPass(VisitTable(v))
          /\ Return(frames, v.bytes) /\ seen' = seen
      BY <1>2, <1>9 DEF VisitLeaf
    <2>2. Len(frames) \in Nat /\ Len(frames) <= Cardinality(Ref)
      BY <1>1, FrameTypes, CallsAreFew
    <2>3. Done(heap, options, v, Len(frames))
      BY <1>1, <1>4, <2>1, <2>2, LeafIsDone
    <2>4. v.bytes = Sizes(heap)[MaxPath][v]
      <3>1. MaxPath \in 0 .. MaxPath
        BY PayloadSizes
      <3>. QED
        BY <1>1, <2>1, <3>1, SizesUnfold
    <2>5. /\ FramesOK(heap, root, options, frames')
          /\ RefsOf(frames') = RefsOf(frames)
          /\ VerdictOK(heap, root, options, verdict')
      BY <1>1, <1>2, <1>5, <2>1, <2>3, <2>4, WalkReturns DEF v
    <2>. QED
      BY <1>1, <2>1, <2>5
  <1>10. ASSUME EnterObject PROVE OK(frames', seen', verdict')
    <2>1. /\ HasNext /\ v \in Ref /\ AllPass(VisitTable(v))
          /\ frames' = Append(frames, [ref |-> v, next |-> 1, bytes |-> 2])
          /\ seen' = seen \cup {v} /\ verdict' = verdict
      BY <1>2, <1>10 DEF EnterObject, AtObject, Enter
    <2>2. /\ FramesOK(heap, root, options, frames')
          /\ RefsOf(frames') = RefsOf(frames) \cup {v}
      BY <1>1, <1>2, <1>4, <2>1, CallEnters DEF v
    <2>. QED
      BY <1>1, <2>1, <2>2
  <1>11. ASSUME LeaveObject PROVE OK(frames', seen', verdict')
    <2>. DEFINE f == frames[Len(frames)]
                below == SubSeq(frames, 1, Len(frames) - 1)
    <2>1. /\ Walking /\ ~HasNext /\ seen' = seen \ {Top.ref}
          /\ Return(SubSeq(frames, 1, Depth - 1), Top.bytes)
      BY <1>11 DEF LeaveObject
    <2>2. frames # <<>> /\ ~AtValue(heap, frames)
      BY <1>2, <2>1 DEF AtValue
    <2>3. seen' = seen \ {f.ref} /\ Return(below, f.bytes)
      BY <1>2, <2>1, <2>2 DEF Depth
    <2>4. /\ FramesOK(heap, root, options, below)
          /\ Len(below) = Len(frames) - 1
          /\ AtValue(heap, below) /\ f.ref = ValueOf(heap, root, below)
          /\ RefsOf(below) = RefsOf(frames) \ {f.ref}
      <3>1. FramesOK(heap, root, options, frames) /\ frames # <<>>
        BY <1>1, <2>2
      <3>. HIDE DEF OK
      <3>. QED
        BY <1>1, <3>1, CallLeaves
    <2>5. /\ Done(heap, options, f.ref, Len(frames) - 1)
          /\ f.bytes = Sizes(heap)[MaxPath][f.ref]
      BY <1>1, <2>2, CallIsDone
    <2>. HIDE DEF f, below
    <2>6. /\ FramesOK(heap, root, options, frames')
          /\ RefsOf(frames') = RefsOf(below)
          /\ VerdictOK(heap, root, options, verdict')
      BY <1>1, <1>5, <2>1, <2>3, <2>4, <2>5, WalkReturns
    <2>. QED
      BY <1>1, <2>3, <2>4, <2>6
  <1>12. ASSUME UNCHANGED walkVars PROVE OK(frames', seen', verdict')
    BY <1>1, <1>12 DEF walkVars
  <1>13. ASSUME Overflow PROVE OK(frames', seen', verdict')
    BY <1>1, <1>13 DEF Overflow, VerdictOK
  <1>. HIDE DEF OK
  <1>. QED
    BY <1>7, <1>8, <1>9, <1>10, <1>11, <1>12, <1>13 DEF WalkNext

(***************************************************************************)
(* Whatever the payload, its objects shared or on cycles, and whatever the *)
(* limits: a payload is accepted exactly when, written out as a tree, it   *)
(* ends and all of it is within the limits, and its size is the size of    *)
(* that tree, unless the stack overflows before there is a verdict         *)
(* (message-serialization.ts:37-63, 97-219).                               *)
(***************************************************************************)
THEOREM PayloadsAreMeasured == WalkSpec => []VerdictIsThatOfTheTree
  <1>1. WalkIInv => VerdictIsThatOfTheTree
    BY SerializableIs DEF WalkIInv, VerdictOK, VerdictIsThatOfTheTree
  <1>. QED
    BY <1>1, WalkBegins, WalkGoesOn, PTL DEF WalkSpec

-----------------------------------------------------------------------------
(* The load, the main thread and the records.                              *)

USE LoadAssumption, ProjectionAssumption, ResultVersionAssumption

(***************************************************************************)
(* Whatever load there is, the policies agree at their limits: background  *)
(* work is throttled whenever a lane is refused for lack of room or the    *)
(* load as a whole is judged too high.                                     *)
(***************************************************************************)
THEOREM RefusalThrottles == LoadSpec => []RefusalImpliesThrottle
  <1>. DEFINE LoadTypeOK == snapshot \in [Field -> Nat]
  <1>1. LoadInit => LoadTypeOK
    BY DEF LoadInit
  <1>2. LoadTypeOK /\ [LoadNext]_snapshot => LoadTypeOK'
    <2>. SUFFICES ASSUME LoadTypeOK, LoadNext PROVE LoadTypeOK'
      OBVIOUS
    <2>. QED
      BY DEF LoadNext, Rise, Fall
  <1>3. LoadTypeOK => RefusalImpliesThrottle
    <2>. SUFFICES ASSUME LoadTypeOK,
                         \/ \E l \in Lane :
                              ~CanAdmitTransaction(LaneOnly(l), snapshot,
                                                   Limits)
                         \/ ~EvaluateBackpressure(snapshot, Limits)
                  PROVE  ShouldThrottleBackground(snapshot, Limits)
      BY DEF RefusalImpliesThrottle, AdmittedLanes
    <2>. DEFINE s == [pending_transactions |-> snapshot.pending_transactions,
                      pending_bytes |-> snapshot.pending_bytes,
                      largest_pending_projection_bytes |->
                        snapshot.largest_pending_projection_bytes,
                      uncommitted_projection_count |->
                        snapshot.uncommitted_projection_count]
    <2>1. s \in SnapshotType
      BY DEF SnapshotType, Field
    <2>2. Limits \in LimitsType
      BY DEF Limits, LimitsType
    <2>3. snapshot = s
      BY DEF Field
    <2>. QED
      BY <2>1, <2>2, <2>3, RefusedIsThrottled
  <1>. QED
    BY <1>1, <1>2, <1>3, PTL DEF LoadSpec
-----------------------------------------------------------------------------
(***************************************************************************)
(* The inductive invariant of the main thread: what is on the screen was   *)
(* at or behind the session when it was let through, and the last answer   *)
(* was given to a projection at a version the session has reached.         *)
(***************************************************************************)
MainIInv ==
  /\ current_session_version \in Nat
  /\ shown # Nothing =>
       shown \in Projection /\ shown.session_version <= current_session_version
  /\ decision # Nothing =>
       \E p \in Projection, bounds \in BoundsChoice,
          at \in 0 .. current_session_version :
         decision = [projection |-> p, bounds |-> bounds, at |-> at,
                     error |-> MainError(p, at, bounds)]

LEMMA MainCommitted ==
  ASSUME NEW p \in Projection, NEW bounds, Commit(p, bounds)
  PROVE  /\ p.session_version <= current_session_version
         /\ p.session_version < current_session_version =>
              p.stale_status = "compatible"
  <1>1. ProjectionError(p, current_session_version, bounds) = "none"
    BY DEF Commit, Answer, MainError
  <1>. QED
    BY <1>1, ShownProjection

LEMMA MainInductive == MainIInv /\ [MainNext]_mainVars => MainIInv'
  <1>. SUFFICES ASSUME MainIInv, [MainNext]_mainVars PROVE MainIInv'
    OBVIOUS
  <1>1. CASE UNCHANGED mainVars
    BY <1>1 DEF mainVars, MainIInv, MainError
  <1>2. CASE AdvanceSession
    <2>1. /\ current_session_version' \in Nat
          /\ current_session_version <= current_session_version'
          /\ UNCHANGED <<shown, decision>>
      BY <1>2 DEF AdvanceSession, MainIInv
    <2>2. 0 .. current_session_version \subseteq 0 .. current_session_version'
      BY <2>1 DEF MainIInv
    <2>3. shown' # Nothing =>
            /\ shown' \in Projection
            /\ shown'.session_version <= current_session_version'
      BY <2>1 DEF MainIInv, ProjectionType
    <2>. QED
      BY <2>1, <2>2, <2>3 DEF MainIInv, MainError
  <1>3. ASSUME NEW p \in Projection, NEW bounds \in BoundsChoice,
               Commit(p, bounds) \/ RejectProjection(p, bounds)
        PROVE  MainIInv'
    <2>1. /\ decision' = Answer(p, bounds)
          /\ UNCHANGED current_session_version
          /\ shown' = shown \/ (shown' = p /\ Commit(p, bounds))
      BY <1>3 DEF Commit, RejectProjection
    <2>2. current_session_version \in 0 .. current_session_version
      BY DEF MainIInv
    <2>3. shown' # Nothing =>
            /\ shown' \in Projection
            /\ shown'.session_version <= current_session_version'
      BY <2>1, MainCommitted DEF MainIInv
    <2>. QED
      BY <2>1, <2>2, <2>3 DEF MainIInv, Answer, MainError
  <1>. QED
    BY <1>1, <1>2, <1>3 DEF MainNext

(***************************************************************************)
(* The invariant of the main thread holds: in particular what is shown is  *)
(* never ahead of the session.                                             *)
(***************************************************************************)
THEOREM MainInvariant == MainSpec => []MainIInv
  <1>1. MainInit => MainIInv
    BY DEF MainInit, MainIInv
  <1>. QED
    BY <1>1, MainInductive, PTL DEF MainSpec

(***************************************************************************)
(* The screen goes back to an older version only for a projection that     *)
(* says it is compatible: what is shown is at or behind the session, so an *)
(* older one is stale, and a stale one passes only when it is compatible.  *)
(***************************************************************************)
THEOREM GoesBackOnlyCompatible == MainSpec => OnlyCompatibleGoesBack
  <1>1. MainIInv /\ [MainNext]_mainVars =>
          [shown # Nothing /\ shown'.session_version < shown.session_version
             => shown'.stale_status = "compatible"]_shown
    <2>. SUFFICES ASSUME MainIInv, MainNext, shown' # shown, shown # Nothing,
                         shown'.session_version < shown.session_version
                  PROVE  shown'.stale_status = "compatible"
      BY DEF mainVars
    <2>1. PICK p \in Projection, bounds \in BoundsChoice : Commit(p, bounds)
      BY DEF MainNext, AdvanceSession, RejectProjection
    <2>2. shown' = p
      BY <2>1 DEF Commit
    <2>3. /\ p.session_version \in Int /\ shown.session_version \in Int
          /\ current_session_version \in Int
          /\ shown.session_version <= current_session_version
      BY DEF MainIInv, ProjectionType
    <2>4. p.session_version < current_session_version
      BY <2>2, <2>3
    <2>. QED
      BY <2>1, <2>2, <2>4, MainCommitted
  <1>. QED
    BY <1>1, MainInvariant, PTL DEF MainSpec, OnlyCompatibleGoesBack

\* The checks of a projection that may be shown.
LEMMA MainAccepts ==
  ASSUME NEW p, NEW current, NEW bounds, bounds # NoBounds, p.transferable,
         FormPasses(p, bounds), VersionPasses(p, current, bounds)
  PROVE  MainError(p, current, bounds) = "none"
  BY CommitPasses, ProjectionErrorRow DEF MainError

\* What the session has passed by stays passed by.
LEMMA StaleStaysRefused ==
  ASSUME NEW p \in Projection, NEW bounds, NEW at \in Nat,
         NEW current \in Nat, at <= current, p.session_version < at,
         MainError(p, at, bounds) = "StaleProjectionRejected"
  PROVE  MainError(p, current, bounds) # "none"
  <1>. SUFFICES ASSUME MainError(p, current, bounds) = "none"
                PROVE  FALSE
    OBVIOUS
  <1>1. p.transferable /\ ProjectionError(p, current, bounds) = "none"
    BY DEF MainError
  <1>2. bounds # NoBounds /\ AllPass(CommitTable(p, current, bounds))
    BY <1>1, ProjectionErrorType DEF ShouldCommitProjection
  <1>3. FormPasses(p, bounds) /\ VersionPasses(p, current, bounds)
    BY <1>2, CommitPasses
  <1>4. VersionPasses(p, at, bounds)
    <2>1. /\ p.session_version \in Nat
          /\ p.session_version <= at /\ p.session_version < at
          /\ p.session_version < current
      BY DEF ProjectionType
    <2>2. bounds.allow_stale_compatible /\ p.stale_status = "compatible"
      BY <1>3, <2>1, VersionMeaning
    <2>. QED
      BY <2>1, <2>2, VersionMeaning
  <1>. QED
    BY <1>1, <1>2, <1>3, <1>4, MainAccepts

\* The same content, made anew of the session as it is now.
LEMMA FreshIsAccepted ==
  ASSUME NEW p \in Projection, NEW bounds, NEW at \in Nat,
         NEW current \in Nat, p.form = "ok",
         MainError(p, at, bounds) = "StaleProjectionRejected",
         NEW q, q = [p EXCEPT !.session_version = current,
                              !.stale_status = "fresh"]
  PROVE  MainError(q, current, bounds) = "none"
  <1>1. /\ p.transferable
        /\ ProjectionError(p, at, bounds) = "StaleProjectionRejected"
    BY DEF MainError
  <1>2. bounds # NoBounds /\ FormPasses(p, bounds)
    BY <1>1, StaleIsTheOnlyFault
  <1>3. /\ q.transferable = p.transferable /\ q.form = p.form
        /\ q.blocks = p.blocks /\ q.range = p.range /\ q.bytes = p.bytes
        /\ q.checksum = p.checksum
        /\ q.session_version = current /\ q.stale_status = "fresh"
    BY DEF ProjectionType
  <1>4. FormPasses(q, bounds)
    BY <1>2, <1>3
    DEF FormPasses, BoundsTable, ChecksumTable, NoDuplicateBlocks,
        RangeIsShown
  <1>5. VersionPasses(q, current, bounds)
    <2>1. current <= current /\ ~(current < current)
      OBVIOUS
    <2>. QED
      BY <1>3, <2>1, VersionMeaning
  <1>. QED
    BY <1>1, <1>2, <1>3, <1>4, <1>5, MainAccepts

(***************************************************************************)
(* The answer to a stale projection is right: it stays refused as the      *)
(* session goes on, and a fresh one with the same content would be shown.  *)
(***************************************************************************)
THEOREM StaleAdvice == MainSpec => []StaleAdviceIsSound
  <1>. DEFINE fresh(d) == [d.projection EXCEPT
                             !.session_version = current_session_version,
                             !.stale_status = "fresh"]
              refused(d) ==
                d.error = "StaleProjectionRejected"
                  /\ d.projection.session_version < d.at
                  => MainError(d.projection, current_session_version,
                               d.bounds) # "none"
              advice(d) ==
                GetRecoveryAction(d.error, "projection")
                    = "request-fresh-projection"
                  /\ d.error # "ProjectionTooLarge"
                  /\ d.projection.form = "ok"
                  => MainError(fresh(d), current_session_version, d.bounds)
                       = "none"
  <1>1. ASSUME MainIInv, decision # Nothing, decision.error # "none"
        PROVE  refused(decision) /\ advice(decision)
    <2>1. PICK p \in Projection, bounds \in BoundsChoice,
               at \in 0 .. current_session_version :
            decision = [projection |-> p, bounds |-> bounds, at |-> at,
                        error |-> MainError(p, at, bounds)]
      BY <1>1 DEF MainIInv
    <2>2. /\ current_session_version \in Nat /\ at \in Nat
          /\ at <= current_session_version
      BY <1>1, <2>1 DEF MainIInv
    <2>3. /\ decision.projection \in Projection
          /\ decision.at \in Nat /\ decision.at <= current_session_version
          /\ decision.error = MainError(decision.projection, decision.at,
                                        decision.bounds)
      BY <2>1, <2>2
    <2>4. decision.error \in RuntimeError
      BY <1>1, <2>3, ProjectionErrorType DEF MainError, RuntimeError
    <2>5. GetRecoveryAction(decision.error, "projection")
              = "request-fresh-projection"
            /\ decision.error # "ProjectionTooLarge"
            => decision.error = "StaleProjectionRejected"
      BY <2>4 DEF GetRecoveryAction, RuntimeError
    <2>6. refused(decision)
      BY <2>2, <2>3, StaleStaysRefused
    <2>7. decision.error = "StaleProjectionRejected"
            /\ decision.projection.form = "ok"
            => MainError(fresh(decision), current_session_version,
                         decision.bounds) = "none"
      <3>. SUFFICES ASSUME decision.error = "StaleProjectionRejected",
                           decision.projection.form = "ok"
                    PROVE  MainError(fresh(decision), current_session_version,
                                     decision.bounds) = "none"
        OBVIOUS
      <3>1. fresh(decision) =
              [decision.projection EXCEPT
                 !.session_version = current_session_version,
                 !.stale_status = "fresh"]
        OBVIOUS
      <3>. HIDE DEF fresh
      <3>. QED
        <4>. DEFINE d == decision.projection
                    e == decision.bounds
                    a == decision.at
                    c == current_session_version
                    q == fresh(decision)
        <4>1. /\ d \in Projection /\ a \in Nat /\ c \in Nat /\ d.form = "ok"
              /\ MainError(d, a, e) = "StaleProjectionRejected"
          BY <2>2, <2>3
        <4>2. q = [d EXCEPT !.session_version = c, !.stale_status = "fresh"]
          BY <3>1
        <4>. HIDE DEF d, e, a, c, q
        <4>3. MainError(q, c, e) = "none"
          BY ZenonT(60), <4>1, <4>2, FreshIsAccepted
        <4>. QED
          BY <4>3 DEF d, e, a, c, q
    <2>8. advice(decision)
      <3>. HIDE DEF fresh
      <3>. QED
        BY <2>5, <2>7
    <2>. QED
      BY <2>6, <2>8
  <1>2. MainIInv => StaleAdviceIsSound
    BY <1>1, Zenon DEF StaleAdviceIsSound
  <1>. QED
    BY <1>2, MainInvariant, PTL
-----------------------------------------------------------------------------
Status == Final \cup {"queued", "running"}

RecordType ==
  [txn_id : TxnId, status : Status, result_version : Nat, path : Seq(Status)]

\* What is true of a record whichever way it was made.
CameALegalWay(r) ==
  /\ r.path # <<>>
  /\ r.path[1] = "queued" /\ r.path[Len(r.path)] = r.status
  /\ \A i \in 1 .. Len(r.path) - 1 : r.path[i] \notin Final
  /\ r.status = "completed" =>
       \E i \in 1 .. Len(r.path) : r.path[i] = "running"
  /\ r.result_version = 0 \/ r.status = "completed"

\* The inductive invariant: every record held is one, and came a legal way.
LifecycleIInv == held \subseteq { r \in RecordType : CameALegalWay(r) }

LEMMA QueuedIsLegal ==
  ASSUME NEW t \in TxnId
  PROVE  Queued(t) \in RecordType /\ CameALegalWay(Queued(t))
  BY DEF Queued, RecordType, CameALegalWay, Status, Final

\* A legal record marked by one of the callers is legal again.
LEMMA MarkedIsLegal ==
  ASSUME NEW r \in RecordType, CameALegalWay(r),
         NEW next \in AllowedNextStatuses(r.status),
         NEW version \in Nat \cup {BadVersion},
         version = BadVersion \/ next = "completed",
         NEW marked,
         marked = [r EXCEPT !.status = next, !.path = Append(@, next),
                            !.result_version =
                               IF version = BadVersion THEN @ ELSE version]
  PROVE  marked \in RecordType /\ CameALegalWay(marked)
  <1>. DEFINE n == Len(r.path)
  <1>1. /\ r.path \in Seq(Status) /\ r.status \in Status
        /\ r.result_version \in Nat /\ r.txn_id \in TxnId
        /\ n \in Nat /\ n >= 1
    BY DEF RecordType, CameALegalWay
  <1>2. /\ next \in Status /\ r.status \notin Final
        /\ r.status # "queued" => r.status = "running"
        /\ next = "completed" => r.status = "running"
    BY <1>1 DEF AllowedNextStatuses, Status, Final
  <1>3. /\ marked.txn_id = r.txn_id /\ marked.status = next
        /\ marked.path = Append(r.path, next)
        /\ marked.result_version =
             IF version = BadVersion THEN r.result_version ELSE version
    BY DEF RecordType
  <1>4. marked \in RecordType
    <2>1. /\ marked.path \in Seq(Status) /\ marked.status \in Status
          /\ marked.result_version \in Nat /\ marked.txn_id \in TxnId
      BY <1>1, <1>2, <1>3
    <2>2. marked = [txn_id |-> marked.txn_id, status |-> marked.status,
                    result_version |-> marked.result_version,
                    path |-> marked.path]
      BY DEF RecordType
    <2>. QED
      BY <2>1, <2>2 DEF RecordType
  <1>5. /\ Len(marked.path) = n + 1
        /\ marked.path[n + 1] = next
        /\ \A i \in 1 .. n : marked.path[i] = r.path[i]
    BY <1>1, <1>3
  <1>6. \A i \in 1 .. n : r.path[i] \notin Final
    BY <1>1, <1>2 DEF CameALegalWay
  <1>7. next = "completed" => marked.path[n] = "running"
    BY <1>1, <1>2, <1>5 DEF CameALegalWay
  <1>8. r.result_version = 0
    BY <1>2 DEF CameALegalWay, Final
  <1>9. marked.path # <<>> /\ marked.path[1] = "queued"
    BY <1>1, <1>3, <1>5 DEF CameALegalWay
  <1>10. \A i \in 1 .. Len(marked.path) - 1 : marked.path[i] \notin Final
    BY <1>1, <1>5, <1>6
  <1>11. marked.status = "completed" =>
           \E i \in 1 .. Len(marked.path) : marked.path[i] = "running"
    <2>1. n \in 1 .. n + 1
      BY <1>1
    <2>. QED
      BY <1>3, <1>5, <1>7, <2>1
  <1>12. marked.result_version = 0 \/ marked.status = "completed"
    BY <1>3, <1>8
  <1>13. CameALegalWay(marked)
    BY <1>3, <1>5, <1>9, <1>10, <1>11, <1>12 DEF CameALegalWay
  <1>. QED
    BY <1>4, <1>13

LEMMA MarkTransactionKeeps ==
  ASSUME LifecycleIInv, NEW r \in RecordType, CameALegalWay(r), NEW next,
         NEW version \in Nat \cup {BadVersion},
         version = BadVersion \/ next = "completed",
         MarkTransaction(r, next, version)
  PROVE  LifecycleIInv'
  <1>1. CASE next \in AllowedNextStatuses(r.status)
    <2>. DEFINE marked ==
                  [r EXCEPT !.status = next, !.path = Append(@, next),
                            !.result_version =
                               IF version = BadVersion THEN @ ELSE version]
    <2>1. held' = held \cup {marked}
      BY <1>1 DEF MarkTransaction
    <2>2. marked \in RecordType /\ CameALegalWay(marked)
      BY <1>1, MarkedIsLegal
    <2>. QED
      BY <2>1, <2>2 DEF LifecycleIInv
  <1>2. CASE next \notin AllowedNextStatuses(r.status)
    BY <1>2 DEF MarkTransaction, LifecycleIInv
  <1>. QED
    BY <1>1, <1>2

LEMMA LifecycleInductive ==
  LifecycleIInv /\ [LifecycleNext]_lifecycleVars => LifecycleIInv'
  <1>. SUFFICES ASSUME LifecycleIInv, [LifecycleNext]_lifecycleVars
                PROVE  LifecycleIInv'
    OBVIOUS
  <1>1. CASE UNCHANGED held
    BY <1>1 DEF LifecycleIInv
  <1>2. ASSUME NEW t \in TxnId, NEW op_type \in OpType,
               NEW faults \in FaultSet,
               CreateTransactionFromOperation(t, op_type, faults)
        PROVE  LifecycleIInv'
    <2>1. held' = held \/ held' = held \cup {Queued(t)}
      BY <1>2, Zenon DEF CreateTransactionFromOperation
    <2>. QED
      BY <2>1, QueuedIsLegal DEF LifecycleIInv
  <1>3. ASSUME NEW r \in ToRecord,
               \/ MarkTransactionAccepted(r)
               \/ MarkTransactionRejected(r)
               \/ MarkTransactionCanceled(r)
               \/ \E version \in ResultVersion :
                    MarkTransactionCompleted(r, version)
        PROVE  LifecycleIInv'
    <2>1. r \in RecordType /\ CameALegalWay(r)
      <3>1. CASE r \in held
        BY <3>1 DEF LifecycleIInv
      <3>2. ASSUME NEW s \in held, r = Queued(s.txn_id)
            PROVE  r \in RecordType /\ CameALegalWay(r)
        <4>1. s.txn_id \in TxnId
          BY DEF LifecycleIInv, RecordType
        <4>. QED
          BY <3>2, <4>1, QueuedIsLegal
      <3>. QED
        BY <3>1, <3>2 DEF ToRecord
    <2>2. CASE \/ MarkTransactionAccepted(r)
               \/ MarkTransactionRejected(r)
               \/ MarkTransactionCanceled(r)
      BY <2>1, <2>2, MarkTransactionKeeps
      DEF MarkTransactionAccepted, MarkTransactionRejected,
          MarkTransactionCanceled
    <2>3. ASSUME NEW version \in ResultVersion,
                 MarkTransactionCompleted(r, version)
          PROVE  LifecycleIInv'
      <3>1. CASE UNCHANGED held
        BY <3>1 DEF LifecycleIInv
      <3>2. CASE MarkTransaction(r, "completed", version)
        BY <2>1, <3>2, MarkTransactionKeeps
      <3>. QED
        BY <2>3, <3>1, <3>2 DEF MarkTransactionCompleted
    <2>. QED
      BY <1>3, <2>2, <2>3
  <1>4. ASSUME NEW p \in Made, ShowProjection(p)
        PROVE  LifecycleIInv'
    BY <1>4 DEF ShowProjection, LifecycleIInv
  <1>. QED
    BY <1>1, <1>2, <1>3, <1>4 DEF LifecycleNext, lifecycleVars

(***************************************************************************)
(* However many records are kept, marked again and mixed, each came a      *)
(* legal way: from queued, through running when it is completed, and never *)
(* out of a final status.                                                  *)
(***************************************************************************)
THEOREM LegalWay == LifecycleSpec => []RecordsCameALegalWay
  <1>1. LifecycleInit => LifecycleIInv
    BY DEF LifecycleInit, LifecycleIInv
  <1>2. LifecycleIInv => RecordsCameALegalWay
    BY DEF LifecycleIInv, RecordsCameALegalWay, CameALegalWay
  <1>. QED
    BY <1>1, <1>2, LifecycleInductive, PTL DEF LifecycleSpec
=============================================================================
