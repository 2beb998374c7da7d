---------------------------- MODULE Serialization ----------------------------
(***************************************************************************)
(* validateSerializableValue (message-serialization.ts): may a payload be  *)
(* posted between the main thread and a worker, and how many bytes of JSON *)
(* is it?  The walk is depth first; seen holds the objects it is inside    *)
(* of, and an object is taken out again when the walk leaves it.  Each of  *)
(* them is a call on the engine's stack, which holds so many and no more.  *)
(*                                                                         *)
(* A payload is a value over a heap: a leaf, or a reference to a node      *)
(* whose items are values again, so that payloads may share objects and    *)
(* may be cyclic.  A leaf carries the fault of its type, if any, and its   *)
(* sizes, raw (UTF-8, what the limit on strings is about) and as JSON.     *)
(***************************************************************************)
EXTENDS Integers, Sequences, FiniteSets, DecisionTable

CONSTANTS
  Ref,          \* the objects and arrays of payloads
  Leaf,         \* the other values of payloads
  Heaps,        \* the heaps a payload may come with
  Roots,        \* the values that may be posted
  Options,      \* the options callers may give
  NoLimit,      \* a limit that is not given
  BadLimit,     \* one that is not a natural
  Stacks,       \* the visitObject calls the engine's stack may hold
  Pending,      \* no verdict yet
  Thrown        \* none: the stack overflowed, a RangeError left the call

LimitName ==
  {"max_depth", "max_array_length", "max_object_keys", "max_string_bytes",
   "max_total_bytes"}

LeafType ==
  [fault : {"none", "unsupported-type", "non-finite-number"},
   raw : Nat, bytes : Nat]
Value == Ref \cup Leaf
Item == [key_bytes : Nat, value : Value]
Node == [kind : {"array", "object", "other"}, items : Seq(Item)]

ASSUME PayloadAssumption ==
  /\ Leaf \subseteq LeafType
  /\ Ref \cap Leaf = {}
  /\ IsFiniteSet(Ref)
  /\ Roots \subseteq Value
  /\ \A h \in Heaps : h \in [Ref -> Node]
ASSUME StackAssumption == Stacks \subseteq Nat
ASSUME LimitAssumption ==
  /\ NoLimit \notin Int
  /\ BadLimit \notin Int
  /\ NoLimit # BadLimit
  /\ \A o \in Options : o \in [LimitName -> Nat \cup {NoLimit, BadLimit}]

VARIABLES
  heap, root, options,  \* the call, fixed
  stack,   \* the visitObject calls that the stack holds, fixed
  frames,  \* the visitObject calls in progress, outermost first
  seen,    \* state.seen
  verdict

walkVars == <<heap, root, options, stack, frames, seen, verdict>>
-----------------------------------------------------------------------------
Within(size, name) == options[name] = NoLimit \/ size <= options[name]

Depth == Len(frames)
Top == frames[Depth]

\* The value that visitSerializableValue is called with next.
HasNext ==
  IF frames = <<>> THEN TRUE ELSE Top.next <= Len(heap[Top.ref].items)
Current ==
  IF frames = <<>> THEN root ELSE heap[Top.ref].items[Top.next].value

Row(passed, reason) == [passed |-> passed, reason |-> reason]

LeafTable(v) ==
  << Row(v.fault = "none", v.fault),
     Row(Within(v.raw, "max_string_bytes"), "max-string-bytes-exceeded") >>

NodeTable(r) ==
  LET n == heap[r] IN
  << Row(r \notin seen, "cyclic-reference"),
     Row(n.kind # "other", "non-plain-object"),
     Row(n.kind = "array" => Within(Len(n.items), "max_array_length"),
         "max-array-length-exceeded"),
     Row(n.kind = "object" => Within(Len(n.items), "max_object_keys"),
         "max-object-keys-exceeded") >>

VisitTable(v) ==
  << Row(Within(Depth, "max_depth"), "max-depth-exceeded") >>
    \o (IF v \in Ref THEN NodeTable(v) ELSE LeafTable(v))

Valid(bytes) == [valid |-> TRUE, reason |-> "none", byte_size |-> bytes]
Invalid(reason) == [valid |-> FALSE, reason |-> reason, byte_size |-> 0]

\* The overhead of the i-th child: key and colon in an object, and a comma.
ItemBytes(n, i) ==
  (IF n.kind = "object" THEN n.items[i].key_bytes + 1 ELSE 0)
    + (IF i > 1 THEN 1 ELSE 0)

\* A visit returns bytes to the frame below, or from the whole walk.
Return(below, bytes) ==
  IF below = <<>>
    THEN /\ verdict' = IF Within(bytes, "max_total_bytes") THEN Valid(bytes)
                       ELSE Invalid("max-total-bytes-exceeded")
         /\ frames' = below
    ELSE LET f == below[Len(below)] IN
         /\ frames' = [below EXCEPT ![Len(below)] =
              [f EXCEPT !.next = @ + 1,
                        !.bytes = @ + bytes + ItemBytes(heap[f.ref], f.next)]]
         /\ UNCHANGED verdict

RefuseLimits ==
  /\ verdict = Pending
  /\ \E name \in LimitName : options[name] = BadLimit
  /\ verdict' = Invalid("invalid-limit")
  /\ UNCHANGED <<heap, root, options, stack, frames, seen>>

Walking ==
  /\ verdict = Pending
  /\ \A name \in LimitName : options[name] # BadLimit

\* The first fault ends every call in progress.
Refuse ==
  /\ Walking /\ HasNext
  /\ ~AllPass(VisitTable(Current))
  /\ verdict' = Invalid(FirstFailure(VisitTable(Current)).reason)
  /\ UNCHANGED <<heap, root, options, stack, frames, seen>>

VisitLeaf ==
  /\ Walking /\ HasNext
  /\ Current \in Leaf
  /\ AllPass(VisitTable(Current))
  /\ Return(frames, Current.bytes)
  /\ UNCHANGED <<heap, root, options, stack, seen>>

\* The next value is an object that a call is to be made for.
AtObject ==
  Walking /\ HasNext /\ Current \in Ref /\ AllPass(VisitTable(Current))

Enter == Append(frames, [ref |-> Current, next |-> 1, bytes |-> 2])

\* Seeded fault: an object that is entered is not added to seen.
EnterObject_unseen ==
  /\ AtObject /\ Depth < stack
  /\ frames' = Enter
  /\ UNCHANGED <<heap, root, options, stack, seen, verdict>>

EnterObject ==
  /\ AtObject /\ Depth < stack
  /\ frames' = Enter
  /\ seen' = seen \cup {Current}
  /\ UNCHANGED <<heap, root, options, stack, verdict>>

\* One call more than the stack holds: nothing catches the RangeError.
Overflow ==
  /\ AtObject /\ Depth >= stack
  /\ verdict' = Thrown
  /\ UNCHANGED <<heap, root, options, stack, frames, seen>>

\* Seeded fault: the commas of a node are forgotten when it is left.
LeaveObject_noCommas ==
  /\ Walking /\ ~HasNext
  /\ seen' = seen \ {Top.ref}
  /\ Return(SubSeq(frames, 1, Depth - 1), Top.bytes - (Top.next - 2))
  /\ UNCHANGED <<heap, root, options, stack>>

LeaveObject ==
  /\ Walking /\ ~HasNext
  /\ seen' = seen \ {Top.ref}
  /\ Return(SubSeq(frames, 1, Depth - 1), Top.bytes)
  /\ UNCHANGED <<heap, root, options, stack>>

WalkInit ==
  /\ heap \in Heaps
  /\ root \in Roots
  /\ options \in Options
  /\ stack \in Stacks
  /\ frames = <<>>
  /\ seen = {}
  /\ verdict = Pending

WalkNext ==
  \/ RefuseLimits \/ Refuse \/ VisitLeaf
  \/ EnterObject \/ Overflow \/ LeaveObject

\* The walk is one synchronous call: once begun, it goes on.
WalkSpec == WalkInit /\ [][WalkNext]_walkVars /\ WF_walkVars(WalkNext)
-----------------------------------------------------------------------------
\* The values in a value, and those n steps below it; on a longer way than
\* MaxPath some object has been met twice.
Elements(h, v) ==
  IF v \in Ref
    THEN { h[v].items[i].value : i \in 1 .. Len(h[v].items) }
    ELSE {}
MaxPath == Cardinality(Ref) + 1
Levels(h) ==
  LET level[n \in 0 .. MaxPath] ==
        [v \in Value |->
           IF n = 0 THEN {v}
           ELSE UNION { level[n - 1][e] : e \in Elements(h, v) }]
  IN level

Acyclic == Levels(heap)[MaxPath][root] = {}
Fits(v) ==
  IF v \in Leaf THEN v.fault = "none" /\ Within(v.raw, "max_string_bytes")
  ELSE CASE heap[v].kind = "array" ->
              Within(Len(heap[v].items), "max_array_length")
         [] heap[v].kind = "object" ->
              Within(Len(heap[v].items), "max_object_keys")
         [] OTHER -> FALSE

\* The bytes of a value written out n steps deep: brackets, and each item
\* with what comes before it.
SumOfFirst(s, k) ==
  LET sum[i \in 0 .. Len(s)] == IF i = 0 THEN 0 ELSE sum[i - 1] + s[i]
  IN sum[k]
ItemSizes(node, size) ==
  [i \in 1 .. Len(node.items) |->
     ItemBytes(node, i) + size[node.items[i].value]]
Sizes(h) ==
  LET size[n \in 0 .. MaxPath] ==
        [v \in Value |->
           IF v \in Leaf THEN v.bytes
           ELSE IF n = 0 THEN 0
           ELSE 2 + SumOfFirst(ItemSizes(h[v], size[n - 1]),
                               Len(h[v].items))]
  IN size
TreeBytes == Sizes(heap)[MaxPath][root]

IsSerializable ==
  /\ \A name \in LimitName : options[name] # BadLimit
  /\ Acyclic
  /\ \A n \in 0 .. MaxPath : \A v \in Levels(heap)[n][root] :
       Fits(v) /\ Within(n, "max_depth")
  /\ Within(TreeBytes, "max_total_bytes")

(***************************************************************************)
(* The verdict is that of the payload written out as a tree: accepted      *)
(* exactly when it is finite and every occurrence of every value in it is  *)
(* within the limits, and then with the number of bytes of that tree, a    *)
(* shared object counted wherever it occurs                                *)
(* (message-serialization.ts:37-63, 97-219).                               *)
(***************************************************************************)
VerdictIsThatOfTheTree ==
  verdict \notin {Pending, Thrown} =>
    /\ verdict.valid <=> IsSerializable
    /\ verdict.valid => verdict.byte_size = TreeBytes
=============================================================================
