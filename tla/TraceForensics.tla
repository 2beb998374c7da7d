--------------------------- MODULE TraceForensics ---------------------------
(***************************************************************************)
(* What is read out of a trace (analyzeForensics and                       *)
(* analyzeWindowMetrics of run_single_capture_no_warmup.mjs).              *)
(*                                                                         *)
(* A page marks the steps of one section in their order, Chrome's threads  *)
(* add tasks, and the trace file has the events in any order, without      *)
(* those it lost.  Durations and times are in one unit, LongTask of which  *)
(* are a long task.                                                        *)
(***************************************************************************)
EXTENDS Integers, Sequences, FiniteSets, SequencesExt

CONSTANTS
  Plan,      \* [section, work, lost]: what a capture may have
  Work,      \* the tasks threads may run
  LongTask,
  TopLimit,
  Null

ASSUME LongTaskAssumption == LongTask \in Nat \ {0}
ASSUME TopLimitAssumption == TopLimit \in Nat
ASSUME PlanAssumption ==
  Plan \subseteq [section : {"send", "f0", "f1", "f2"}, work : Nat, lost : Nat]

\* Threads have a name, and run tasks.
TaskEvent ==
  [kind : {"task"}, name : STRING, thread : STRING, ts : Nat, dur : Nat]
ThreadEvent == [kind : {"thread"}, thread : STRING]

ASSUME WorkAssumption == Work \subseteq TaskEvent \cup ThreadEvent

VARIABLES plan, nextMark, trace, lost

traceVars == <<plan, nextMark, trace, lost>>
-----------------------------------------------------------------------------
(* The marks                                                               *)

RequiredMarks(section) ==
  CASE section = "send" ->
         <<"start", "trigger:start", "synthetic-pointerup",
           "synthetic-click", "trigger:end", "microtask:start",
           "microtask:end", "commit:start", "commit:end", "end">>
    [] section = "f0" ->
         <<"start", "trigger:start", "synthetic-pointerup",
           "synthetic-click", "trigger:end", "flush:start",
           "microtask:start", "react-commit:start", "react-commit:end",
           "flush:end", "end">>
    [] section = "f1" ->
         <<"start", "trigger:start", "trigger:end",
           "dispatch-to-worker:start", "dispatch-to-worker:end",
           "worker-result:received", "projection-commit:start",
           "projection-commit:end", "end">>
    [] section = "f2" ->
         <<"start", "trigger:start", "trigger:end",
           "heavy-dispatch:start", "heavy-dispatch:end",
           "urgent-request:start", "urgent-request:end",
           "urgent-result:received", "urgent-projection-commit:start",
           "urgent-projection-commit:end", "heavy-result:received",
           "heavy-projection-commit:start",
           "heavy-projection-commit:end", "end">>

\* The marks between which something is measured.
Windows(section) ==
  CASE section = "send" -> {}
    [] section = "f0" ->
         {<<"trigger:start", "trigger:end">>, <<"flush:start", "flush:end">>,
          <<"microtask:start", "flush:end">>}
    [] section = "f1" ->
         {<<"trigger:start", "trigger:end">>,
          <<"dispatch-to-worker:start", "dispatch-to-worker:end">>,
          <<"dispatch-to-worker:start", "worker-result:received">>,
          <<"projection-commit:start", "projection-commit:end">>,
          <<"worker-result:received", "end">>}
    [] section = "f2" ->
         {<<"trigger:start", "trigger:end">>,
          <<"heavy-dispatch:start", "heavy-dispatch:end">>,
          <<"urgent-request:start", "urgent-request:end">>,
          <<"urgent-request:start", "urgent-result:received">>,
          <<"urgent-projection-commit:start",
            "urgent-projection-commit:end">>,
          <<"heavy-dispatch:start", "heavy-result:received">>,
          <<"heavy-projection-commit:start",
            "heavy-projection-commit:end">>}

IsMark(e, name) == e.kind = "mark" /\ e.name = name

\* The first event of a mark that opens a window, the last one of a mark
\* that closes it.
FirstMark(events, name) == SelectInSeq(events, LAMBDA e : IsMark(e, name))
LastMark(events, name) == SelectLastInSeq(events, LAMBDA e : IsMark(e, name))

WindowDurationMs(events, window) ==
  LET start == FirstMark(events, window[1])
      end == LastMark(events, window[2])
  IN IF start = 0 \/ end = 0 THEN Null
     ELSE IF events[end].ts < events[start].ts THEN Null
     ELSE events[end].ts - events[start].ts

MarksComplete(events, section) ==
  \A i \in DOMAIN RequiredMarks(section) :
    FirstMark(events, RequiredMarks(section)[i]) # 0
-----------------------------------------------------------------------------
(* The tasks in a window                                                   *)

MainThreads(events) ==
  { e.thread : e \in { x \in ToSet(events) : x.kind = "thread" } }

Overlaps(e, from, to) == e.ts < to /\ e.ts + e.dur > from

Counts(e, main, from, to) ==
  /\ e.kind = "task" /\ Overlaps(e, from, to)
  /\ main # {} => e.thread \in main

IsGc(e) == e.name \in {"MajorGC", "V8.GC_MARK_COMPACTOR"}

ClassifyEventName(name) ==
  CASE name \in {"MajorGC", "V8.GC_MARK_COMPACTOR"} -> "gc"
    [] name = "FunctionCall" -> "function-call"
    [] name = "Layout" -> "layout-paint"
    [] OTHER -> "other"

Larger(a, b) == IF a > b THEN a ELSE b
Smaller(a, b) == IF a < b THEN a ELSE b

\* A map from names to what was added under them, in order of arrival.
AddMetric(map, key, dur) ==
  LET i == SelectInSeq(map, LAMBDA row : row.name = key) IN
  IF i = 0
    THEN Append(map, [name |-> key, count |-> 1, total |-> dur, max |-> dur])
    ELSE [map EXCEPT ![i] = [name |-> key, count |-> @.count + 1,
                             total |-> @.total + dur,
                             max |-> Larger(@.max, dur)]]

NoMetrics ==
  [runTask |-> 0, maxRunTask |-> 0, byName |-> <<>>, byClass |-> <<>>,
   long |-> {}, gc |-> <<>>]

AddEvent(m, e) ==
  [m EXCEPT
    !.byName = AddMetric(@, e.name, e.dur),
    !.byClass = AddMetric(@, ClassifyEventName(e.name), e.dur),
    !.runTask = IF e.name = "RunTask" THEN @ + e.dur ELSE @,
    !.maxRunTask = IF e.name = "RunTask" THEN Larger(@, e.dur) ELSE @,
    !.long = IF e.name = "RunTask" /\ e.dur >= LongTask
               THEN @ \cup {e} ELSE @,
    !.gc = IF IsGc(e) THEN Append(@, e) ELSE @]

OverlapOf(a, b) ==
  Larger(0, Smaller(a.ts + a.dur, b.ts + b.dur) - Larger(a.ts, b.ts))

GcOverlap(task, gc) ==
  LET sum[n \in 0 .. Len(gc)] ==
        IF n = 0 THEN 0 ELSE sum[n - 1] + OverlapOf(task, gc[n])
  IN sum[Len(gc)]

GcDominates(task, gc) ==
  2 * GcOverlap(task, gc) >= task.dur \/ GcOverlap(task, gc) >= LongTask

\* Rows by what they took, the largest first, earlier ones before later ones.
Inserted(top, row) ==
  LET smaller == SelectInSeq(top, LAMBDA r : row.total > r.total)
      place == IF smaller = 0 THEN Len(top) + 1 ELSE smaller
      longer == InsertAt(top, place, row)
  IN IF Len(longer) > TopLimit THEN Front(longer) ELSE longer

TopMetrics(map) ==
  LET top[n \in 0 .. Len(map)] ==
        IF n = 0 THEN <<>> ELSE Inserted(top[n - 1], map[n])
  IN top[Len(map)]

\* Seeded fault: threads are known from the events before a task only.
AnalyzeWindow_inOnePass(events, from, to) ==
  LET main(n) == MainThreads(SubSeq(events, 1, n))
      after[n \in 0 .. Len(events)] ==
        IF n = 0 THEN NoMetrics
        ELSE IF Counts(events[n], main(n), from, to)
          THEN AddEvent(after[n - 1], events[n]) ELSE after[n - 1]
  IN after[Len(events)]

AnalyzeWindow(events, from, to) ==
  LET main == MainThreads(events)
      after[n \in 0 .. Len(events)] ==
        IF n = 0 THEN NoMetrics
        ELSE IF Counts(events[n], main, from, to)
          THEN AddEvent(after[n - 1], events[n]) ELSE after[n - 1]
  IN after[Len(events)]

SectionMetrics(events) ==
  LET start == FirstMark(events, "start")
      end == LastMark(events, "end")
  IN IF start = 0 \/ end = 0 THEN NoMetrics
     ELSE AnalyzeWindow(events, events[start].ts, events[end].ts)
-----------------------------------------------------------------------------
(* The report                                                              *)

\* A page ends F0, F1 and F2 with a mark that says they are complete.
PageClaims(events) == FirstMark(events, "metric:marks-complete") # 0

\* What the page says is put over the report of its send and F0 sections and
\* under that of F1 and F2.
ReportedComplete(events, section) ==
  IF section \in {"f1", "f2"} THEN MarksComplete(events, section)
  ELSE PageClaims(events) \/ MarksComplete(events, section)
-----------------------------------------------------------------------------
(* The page and the threads, which the trace is of                         *)

Section == plan.section
Marks == IF Section = "send" THEN RequiredMarks(Section)
         ELSE Append(RequiredMarks(Section), "metric:marks-complete")

Mark ==
  /\ nextMark <= Len(Marks) /\ nextMark' = nextMark + 1
  /\ trace' = Append(trace, [kind |-> "mark", name |-> Marks[nextMark],
                             ts |-> 2 * nextMark])
  /\ UNCHANGED <<plan, lost>>

LoseMark ==
  /\ nextMark <= Len(Marks) /\ nextMark' = nextMark + 1
  /\ lost < plan.lost /\ lost' = lost + 1
  /\ UNCHANGED <<plan, trace>>

RunTask(e) ==
  /\ e \notin ToSet(trace)
  /\ Cardinality({ x \in ToSet(trace) : x.kind # "mark" }) < plan.work
  /\ trace' = Append(trace, e)
  /\ UNCHANGED <<plan, nextMark, lost>>

TraceInit == plan \in Plan /\ nextMark = 1 /\ trace = <<>> /\ lost = 0
TraceNext == Mark \/ LoseMark \/ \E e \in Work : RunTask(e)
TraceSpec == TraceInit /\ [][TraceNext]_traceVars

Written == nextMark > Len(Marks)
Metrics == SectionMetrics(trace)
SectionMs == WindowDurationMs(trace, <<"start", "end">>)
-----------------------------------------------------------------------------
\* The same rows, the same events, the same windows.
SameMeasures(one, other) ==
  LET A == SectionMetrics(one)
      B == SectionMetrics(other)
  IN /\ A.runTask = B.runTask /\ A.maxRunTask = B.maxRunTask
     /\ A.long = B.long /\ ToSet(A.gc) = ToSet(B.gc)
     /\ ToSet(A.byName) = ToSet(B.byName)
     /\ ToSet(A.byClass) = ToSet(B.byClass)
     /\ \A w \in Windows(Section) :
          WindowDurationMs(one, w) = WindowDurationMs(other, w)

\* What is in the list took no less than what is not, and it is sorted.
IsTop(top, rows) ==
  /\ Len(top) = Smaller(TopLimit, Len(rows))
  /\ \A i, j \in DOMAIN top : i < j => top[i].total >= top[j].total
  /\ \A row \in ToSet(rows) \ ToSet(top) :
       \A r \in ToSet(top) : r.total >= row.total

\* The units of time in which a task and some garbage collection both run.
GcUnits(task, gc) ==
  { t \in task.ts .. task.ts + task.dur - 1 :
      \E e \in ToSet(gc) : t >= e.ts /\ t < e.ts + e.dur }

(***************************************************************************)
(* The report is that of the trace: the order in which a trace file has    *)
(* its events, which are of several threads and not sorted, makes no       *)
(* difference; the list of the events that took longest leaves none out    *)
(* that took longer; and a long task counts as dominated by garbage        *)
(* collection only if at least half of it, or as much as a long task,      *)
(* really is, unless collections overlap and are counted twice.  A section *)
(* reported as complete has every window measured, and none is longer than *)
(* the section; only the F0 page can claim it of a trace that lost marks   *)
(* (:1238-1419, :1495-1560, :1689-1832).                                   *)
(***************************************************************************)
ReportIsOfTheTrace ==
  Written =>
    /\ SameMeasures(trace, Reverse(trace))
    /\ IsTop(TopMetrics(Metrics.byName), Metrics.byName)
    /\ \A task \in Metrics.long :
         GcDominates(task, Metrics.gc) =>
           \/ 2 * Cardinality(GcUnits(task, Metrics.gc)) >= task.dur
           \/ Cardinality(GcUnits(task, Metrics.gc)) >= LongTask
           \/ \E a, b \in ToSet(Metrics.gc) : a # b /\ OverlapOf(a, b) > 0
    /\ ReportedComplete(trace, Section) =>
         \/ Section = "f0" /\ lost > 0
         \/ \A w \in Windows(Section) :
              WindowDurationMs(trace, w) \in 0 .. SectionMs
=============================================================================
