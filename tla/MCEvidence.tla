----------------------------- MODULE MCEvidence -----------------------------
(***************************************************************************)
(* What the measurements rest on, in two parts with a state each: a        *)
(* behaviour is one of                                                     *)
(*   "session": a capture session of up to two slots on one directory,     *)
(*     stopped and started again twice, with up to four measured captures; *)
(*   "trace": the trace of one section, each of the four with up to three  *)
(*     of its marks lost, and the shortest one with three tasks and the    *)
(*     name of a thread at any place of the file.                          *)
(***************************************************************************)
EXTENDS CaptureSession, TraceForensics

VARIABLE part
-----------------------------------------------------------------------------
(* "trace"                                                                 *)

MCPlan ==
  { [section |-> s, work |-> 0, lost |-> 3] :
      s \in {"send", "f0", "f1", "f2"} }
    \cup { [section |-> "f1", work |-> 3, lost |-> 0] }

Task(name, thread, ts, dur) ==
  [kind |-> "task", name |-> name, thread |-> thread, ts |-> ts, dur |-> dur]

MCWork ==
  { [kind |-> "thread", thread |-> "main"],
    Task("RunTask", "main", 3, 6), Task("RunTask", "main", 1, 1),
    Task("RunTask", "other", 5, 9), Task("MajorGC", "main", 4, 2),
    Task("V8.GC_MARK_COMPACTOR", "main", 5, 1),
    Task("MajorGC", "main", 6, 3), Task("FunctionCall", "main", 15, 4),
    Task("Layout", "main", 18, 2) }

NoPlan == [section |-> "send", work |-> 0, lost |-> 0]
-----------------------------------------------------------------------------
PartInit ==
  /\ part \in {"session", "trace"}
  /\ Init /\ (part = "trace" => target = 1)
  /\ IF part = "trace" THEN TraceInit
     ELSE plan = NoPlan /\ nextMark = 1 /\ trace = <<>> /\ lost = 0

InSession == part = "session" /\ UNCHANGED <<part, traceVars>>
InTrace == part = "trace" /\ UNCHANGED <<part, sessionVars>>

PartNext ==
  \/ InSession /\ Start
  \/ InSession /\ Warmup
  \/ InSession /\ NextSlot
  \/ InSession /\ Capture
  \/ InSession /\ Decide
  \/ InSession /\ RejectTrace
  \/ InSession /\ RejectMeta
  \/ InSession /\ RejectLog
  \/ InSession /\ CommitTrace
  \/ InSession /\ CommitMeta
  \/ InSession /\ Review
  \/ InSession /\ Crash
  \/ InSession /\ EditLog
  \/ InTrace /\ Mark
  \/ InTrace /\ LoseMark
  \/ \E e \in Work : InTrace /\ RunTask(e)

PartSpec == PartInit /\ [][PartNext]_<<part, sessionVars, traceVars>>
-----------------------------------------------------------------------------
(***************************************************************************)
(* "each pending invalidation is either confirmed or reverted" (line 260   *)
(* of docs/p0/measurement-spec.md): the review leaves none pending         *)
(* (run_capture.sh:527-582).                                               *)
(***************************************************************************)
ReviewSettles ==
  [][part = "session" /\ Review => Pending' = {}]_sessionVars

\* The committed runs, and the attempts whose rejection was reverted.
ValidTraces ==
  { n \in UNION { Eligible(m.slot) : m \in DOMAIN metas } :
      n.index = 0 \/ StatusOf(n) = "reverted" }

(***************************************************************************)
(* "a reverted invalidation is reincluded", and the summarizer "bases the  *)
(* scenario result on the first valid traces up to that target" (lines 261 *)
(* and 264 of docs/p0/measurement-spec.md): of a session that is complete  *)
(* a valid trace is left out only when as many are counted as were wanted, *)
(* all captured before it (summarize_trace.mjs:383-401).                   *)
(***************************************************************************)
FirstValidAreCounted ==
  part = "session" /\ pc = "complete" =>
    \A n \in ValidTraces \ Included :
      /\ Cardinality(Included) = SummaryTarget
      /\ \A m \in Included : traces[m].run < traces[n].run
=============================================================================
