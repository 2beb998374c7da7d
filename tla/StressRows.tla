----------------------------- MODULE StressRows -----------------------------
(***************************************************************************)
(* What the result collectors of scripts/p5 demand of one row of metrics   *)
(* copied by hand from a stress page.  Each collector is a program of its  *)
(* own with its own copy of the checks; the checks they share are named    *)
(* once here and each collector's verdict conjoins the ones it makes.      *)
(*                                                                         *)
(* A row keeps the metrics the verdicts read.  Required fields are grouped *)
(* by the pages that report them: `fields` are the groups the row has,     *)
(* `finite` those whose numbers are all finite.  `page` is the row's       *)
(* baseline_variant, `dims` the six scenario dimensions, `delay` and `lag` *)
(* the least of its delays and of its round trips minus processing.        *)
(***************************************************************************)
EXTENDS Integers

CONSTANTS VisibleWindow,   \* 300 blocks are rendered at most
          DomLimit         \* 10000 rendered DOM nodes at most

ASSUME RowLimitsAssumption == VisibleWindow \in Nat /\ DomLimit \in Nat

DimsOf(s) == [visible |-> s.visible, context |-> s.context, rich |-> s.rich,
              repeats |-> s.repeats]

Dims == [visible : Int, context : Int, rich : Int, repeats : Int]

PastedRow ==
  [scenario : STRING, page : STRING, dims : Dims, fields : SUBSET STRING,
   finite : SUBSET STRING, named : BOOLEAN, label : BOOLEAN,
   batched : BOOLEAN, scan : STRING, mode : STRING, checksum : STRING,
   visited : Int, sendVisited : Int, index : Int, finalIndex : Int,
   expected : Int, logical : Int, updates : Int, generations : Int,
   perRepeat : Int, events : Int, laneTotal : Int, lanesMatch : BOOLEAN,
   rendered : Int, window : Int, dom : Int, delay : Int, lag : Int]

\* The groups of fields a collector requires.
Basic == {"basic", "stress"}
Windowed == Basic \cup {"window"}
FieldsOf ==
  [p5d_b0 |-> Basic, p5e_b1 |-> Basic, p5f_b2 |-> Windowed,
   p5g_r0 |-> Windowed \cup {"phases"},
   p5i_b2 |-> Windowed \cup {"compact"},
   p5i_r0 |-> Windowed \cup {"phases", "compact", "batch"},
   p5m_b2 |-> {"m"}, p5m_r0 |-> {"m", "m worker"},
   p5o_b2 |-> {"o"}, p5o_r0 |-> {"o", "o worker"},
   p5q_b2 |-> {"q"}, p5q_r0 |-> {"q", "q worker"},
   p5s_b2 |-> {"s"}, p5s_r0 |-> {"s", "s worker"},
   p5u_b2 |-> {"u"}, p5u_r0 |-> {"u", "u worker"},
   p5x_b2 |-> {"x"}, p5x_r0 |-> {"x", "x worker"}]
Collectors == DOMAIN FieldsOf

-----------------------------------------------------------------------------
(* The checks.                                                              *)

HasFields(row, k) == FieldsOf[k] \subseteq row.fields
AllFinite(row, k) == FieldsOf[k] \subseteq row.finite
HasDims(row, s) == row.dims = DimsOf(s)
IsOf(row, k) == row.page = k
InWindow(row) == row.rendered <= row.window
BoundedDom(row) == row.rendered <= VisibleWindow /\ row.dom <= DomLimit
KeepsHistory(row) == row.logical >= row.dims.visible

FullDomNodeCount(s) ==
  s.visible * (7 + 2 * (s.rich + 2)) + (s.visible * s.artifactPercent) \div 100
SmallDom(row, s) == 10 * row.dom < FullDomNodeCount(s)

Visits(row, s) == /\ row.visited = s.context * s.repeats
                  /\ row.sendVisited = s.context * s.repeats
                  /\ row.index = s.context

Compact(row, k, mode) == /\ row.scan = "compact_checksum_index"
                         /\ row.mode = mode
                         /\ row.checksum = "numeric_precomputed_weight"
                         /\ row.named
                         /\ AllFinite(row, k)

StaticContext(row, s, k) == /\ Compact(row, k, "static")
                            /\ Visits(row, s)

FinalCount(s) == s.visible + s.batch * s.repeats

\* Seeded fault: growth is only bounded from below.
RollingContext_atleast(row, s, k) ==
  /\ Compact(row, k, "rolling") /\ Visits(row, s)
  /\ row.finalIndex = s.context /\ row.expected = FinalCount(s)
  /\ row.logical >= FinalCount(s) /\ row.updates >= s.repeats
  /\ row.generations >= s.repeats + 1

RollingContext(row, s, k) == /\ Compact(row, k, "rolling")
                             /\ Visits(row, s)
                             /\ row.finalIndex = s.context
                             /\ row.expected = FinalCount(s)
                             /\ row.logical = FinalCount(s)
                             /\ row.updates = s.repeats
                             /\ row.generations >= s.repeats + 1

Streams(row, s) == /\ row.lanesMatch
                   /\ row.perRepeat = s.batch
                   /\ row.events = s.batch * s.repeats
                   /\ row.laneTotal = row.events

-----------------------------------------------------------------------------
(* The verdict of each collector on a row of scenario s.                    *)

D_B0(row, s) == /\ HasFields(row, "p5d_b0") /\ HasDims(row, s) /\ row.named
                /\ AllFinite(row, "p5d_b0")
E_B1(row, s) == /\ HasFields(row, "p5e_b1") /\ HasDims(row, s) /\ row.named
                /\ AllFinite(row, "p5e_b1")
F_B2(row, s) == /\ HasFields(row, "p5f_b2") /\ HasDims(row, s) /\ row.named
                /\ AllFinite(row, "p5f_b2")
                /\ KeepsHistory(row) /\ InWindow(row) /\ SmallDom(row, s)
G_R0(row, s) == /\ HasFields(row, "p5g_r0") /\ HasDims(row, s) /\ row.named
                /\ row.label /\ AllFinite(row, "p5g_r0") /\ row.lag >= 0
                /\ KeepsHistory(row) /\ InWindow(row) /\ SmallDom(row, s)
I_B2(row, s) == /\ HasFields(row, "p5i_b2") /\ HasDims(row, s)
                /\ StaticContext(row, s, "p5i_b2")
                /\ KeepsHistory(row) /\ InWindow(row)
I_R0(row, s) == /\ HasFields(row, "p5i_r0") /\ HasDims(row, s) /\ row.label
                /\ StaticContext(row, s, "p5i_r0")
                /\ row.batched /\ row.lag >= 0
                /\ KeepsHistory(row) /\ InWindow(row)

M_B2(row, s) == /\ HasFields(row, "p5m_b2") /\ HasDims(row, s)
                /\ IsOf(row, "p5m_b2") /\ StaticContext(row, s, "p5m_b2")
                /\ row.delay >= 0 /\ BoundedDom(row) /\ KeepsHistory(row)
M_R0(row, s) == /\ HasFields(row, "p5m_r0") /\ HasDims(row, s)
                /\ IsOf(row, "p5m_r0") /\ StaticContext(row, s, "p5m_r0")
                /\ row.delay >= 0 /\ BoundedDom(row) /\ KeepsHistory(row)
                /\ row.lag >= 0
O_B2(row, s) == /\ HasFields(row, "p5o_b2") /\ HasDims(row, s)
                /\ IsOf(row, "p5o_b2") /\ StaticContext(row, s, "p5o_b2")
                /\ row.delay >= 0 /\ BoundedDom(row) /\ KeepsHistory(row)
O_R0(row, s) == /\ HasFields(row, "p5o_r0") /\ HasDims(row, s)
                /\ IsOf(row, "p5o_r0") /\ StaticContext(row, s, "p5o_r0")
                /\ row.delay >= 0 /\ BoundedDom(row) /\ KeepsHistory(row)
                /\ row.lag >= 0

Q_B2(row, s) == /\ HasFields(row, "p5q_b2") /\ HasDims(row, s)
                /\ IsOf(row, "p5q_b2") /\ RollingContext(row, s, "p5q_b2")
                /\ row.delay >= 0 /\ InWindow(row) /\ KeepsHistory(row)
Q_R0(row, s) == /\ HasFields(row, "p5q_r0") /\ HasDims(row, s)
                /\ IsOf(row, "p5q_r0") /\ RollingContext(row, s, "p5q_r0")
                /\ row.delay >= 0 /\ InWindow(row) /\ KeepsHistory(row)
                /\ row.lag >= 0
S_B2(row, s) == /\ HasFields(row, "p5s_b2") /\ HasDims(row, s)
                /\ IsOf(row, "p5s_b2") /\ RollingContext(row, s, "p5s_b2")
                /\ BoundedDom(row) /\ KeepsHistory(row) /\ row.delay >= 0
S_R0(row, s) == /\ HasFields(row, "p5s_r0") /\ HasDims(row, s)
                /\ IsOf(row, "p5s_r0") /\ RollingContext(row, s, "p5s_r0")
                /\ BoundedDom(row) /\ KeepsHistory(row) /\ row.delay >= 0
                /\ row.lag >= 0
U_B2(row, s) == /\ HasFields(row, "p5u_b2") /\ HasDims(row, s)
                /\ IsOf(row, "p5u_b2") /\ Streams(row, s)
                /\ RollingContext(row, s, "p5u_b2") /\ BoundedDom(row)
                /\ row.delay >= 0
U_R0(row, s) == /\ HasFields(row, "p5u_r0") /\ HasDims(row, s)
                /\ IsOf(row, "p5u_r0") /\ Streams(row, s)
                /\ RollingContext(row, s, "p5u_r0") /\ BoundedDom(row)
                /\ row.delay >= 0 /\ row.lag >= 0
\* Seeded fault: one generation more is wanted than a page reports.
X_B2_generation(row, s) ==
  /\ HasFields(row, "p5x_b2") /\ HasDims(row, s) /\ IsOf(row, "p5x_b2")
  /\ Streams(row, s) /\ RollingContext(row, s, "p5x_b2") /\ BoundedDom(row)
  /\ row.generations > s.repeats + 1 /\ row.delay >= 0
X_B2(row, s) == /\ HasFields(row, "p5x_b2") /\ HasDims(row, s)
                /\ IsOf(row, "p5x_b2") /\ Streams(row, s)
                /\ RollingContext(row, s, "p5x_b2") /\ BoundedDom(row)
                /\ row.delay >= 0
X_R0(row, s) == /\ HasFields(row, "p5x_r0") /\ HasDims(row, s)
                /\ IsOf(row, "p5x_r0") /\ Streams(row, s)
                /\ RollingContext(row, s, "p5x_r0") /\ BoundedDom(row)
                /\ row.delay >= 0 /\ row.lag >= 0

Accepts(k, row, s) ==
  CASE k = "p5d_b0" -> D_B0(row, s) [] k = "p5e_b1" -> E_B1(row, s)
    [] k = "p5f_b2" -> F_B2(row, s) [] k = "p5g_r0" -> G_R0(row, s)
    [] k = "p5i_b2" -> I_B2(row, s) [] k = "p5i_r0" -> I_R0(row, s)
    [] k = "p5m_b2" -> M_B2(row, s) [] k = "p5m_r0" -> M_R0(row, s)
    [] k = "p5o_b2" -> O_B2(row, s) [] k = "p5o_r0" -> O_R0(row, s)
    [] k = "p5q_b2" -> Q_B2(row, s) [] k = "p5q_r0" -> Q_R0(row, s)
    [] k = "p5s_b2" -> S_B2(row, s) [] k = "p5s_r0" -> S_R0(row, s)
    [] k = "p5u_b2" -> U_B2(row, s) [] k = "p5u_r0" -> U_R0(row, s)
    [] k = "p5x_b2" -> X_B2(row, s) [] k = "p5x_r0" -> X_R0(row, s)
=============================================================================
