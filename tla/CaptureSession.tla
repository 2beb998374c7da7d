--------------------------- MODULE CaptureSession ---------------------------
(***************************************************************************)
(* A capture session of one scenario (scripts/p0/run_capture.sh) and what  *)
(* its summary counts (scripts/p0/summarize_trace.mjs).                    *)
(*                                                                         *)
(* The script captures one slot after the other, asks the operator whether *)
(* to keep each attempt, and can be stopped between any two writes and be  *)
(* started again on the same directory.  Its files are the only state that *)
(* survives.  A file is named by its slot and an index: 0 is the committed *)
(* run measure-XX, k the attempt measure-XX.invalid-k.                     *)
(***************************************************************************)
EXTENDS Naturals, Sequences, FiniteSets

CONSTANTS
  Targets,      \* the values --measured-runs may have
  MaxStarts,    \* bound: invocations of the script
  MaxAttempts   \* bound: measured captures

ASSUME TargetsAssumption == Targets \subseteq Nat \ {0}

VARIABLES
  traces,       \* the measured trace files: name -> [run, parseable]
  metas,        \* the metadata files: name -> [attempt, target]
  log,          \* invalid-runs.log
  pc,           \* where the script is; "stopped" when none runs
  target,       \* --measured-runs
  slot,         \* slot_number
  attempt,      \* attempt_sequence
  candidate,    \* the candidate trace
  base,         \* invalid_base
  starts,       \* invocations so far
  crashes,      \* invocations that were stopped from outside
  captures      \* measured captures so far

dirVars == <<traces, metas, log>>
bounds == <<starts, crashes, captures>>
sessionVars ==
  <<dirVars, pc, target, slot, attempt, candidate, base, bounds>>

Name(s, k) == [slot |-> s, index |-> k]

\* slot_has_committed_valid_run
Committed(s) ==
  Name(s, 0) \in DOMAIN traces /\ Name(s, 0) \in DOMAIN metas

\* count_committed_valid_runs
CountCommitted == Cardinality({s \in 1..target : Committed(s)})

\* Seeded fault: the index is that of the pending rejections.
NextInvalidIndex_CountsPending ==
  1 + Cardinality({i \in 1..Len(log) : /\ log[i].file.slot = slot
                                       /\ log[i].status = "pending"})

\* next_invalid_index counts the traces, not the metadata.
NextInvalidIndex ==
  1 + Cardinality({n \in DOMAIN traces : n.slot = slot /\ n.index > 0})

\* A file is written, over the one of that name if there is one.
Write(dir, name, content) ==
  [n \in DOMAIN dir \union {name} |-> IF n = name THEN content ELSE dir[n]]
-----------------------------------------------------------------------------
(* The script                                                              *)

NoFiles == [n \in {} |-> FALSE]

Init ==
  /\ traces = NoFiles /\ metas = NoFiles /\ log = <<>>
  /\ pc = "stopped" /\ target \in Targets
  /\ slot = 0 /\ attempt = 0
  /\ candidate = [run |-> 0, parseable |-> FALSE] /\ base = Name(0, 0)
  /\ starts = 0 /\ crashes = 0 /\ captures = 0

\* The script is started on the directory, whatever it already holds.
Start ==
  /\ pc \in {"stopped", "complete"} /\ starts < MaxStarts
  /\ starts' = starts + 1
  /\ target' \in Targets
  /\ attempt' = 1
  /\ pc' = "warmup"
  /\ UNCHANGED <<dirVars, slot, candidate, base, crashes, captures>>

\* The warmup trace is written, or the script fails; it is never measured.
Warmup ==
  /\ pc = "warmup"
  /\ pc' \in {"next", "stopped"}
  /\ UNCHANGED <<dirVars, target, slot, attempt, candidate, base, bounds>>

\* The slot is the number of committed runs plus one.
NextSlot ==
  /\ pc = "next"
  /\ IF CountCommitted < target
       THEN slot' = CountCommitted + 1 /\ pc' = "capture"
       ELSE slot' = slot /\ pc' = "review"
  /\ UNCHANGED <<dirVars, target, attempt, candidate, base, bounds>>

\* run_cdp_capture and parseable_trace.  A capture that fails ends the
\* script (set -e) and leaves no record.
Capture ==
  /\ pc = "capture" /\ captures < MaxAttempts
  /\ captures' = captures + 1
  /\ \/ /\ pc' \in {"decide", "reject"}
        /\ candidate' = [run |-> captures', parseable |-> pc' = "decide"]
     \/ pc' = "stopped" /\ UNCHANGED candidate
  /\ UNCHANGED <<dirVars, target, slot, attempt, base, starts, crashes>>

\* prompt_invalidation_decision; with --assume-valid it is "commit".
Decide ==
  /\ pc = "decide"
  /\ pc' \in {"commit", "reject"}
  /\ UNCHANGED <<dirVars, target, slot, attempt, candidate, base, bounds>>

\* The three writes of an attempt that is not kept.
RejectTrace ==
  /\ pc = "reject"
  /\ base' = Name(slot, NextInvalidIndex)
  /\ traces' = Write(traces, base', candidate)
  /\ pc' = "reject-meta"
  /\ UNCHANGED <<metas, log, target, slot, attempt, candidate, bounds>>

RejectMeta ==
  /\ pc = "reject-meta"
  /\ metas' = Write(metas, base,
                    [attempt |-> attempt, target |-> target])
  /\ pc' = "reject-log"
  /\ UNCHANGED <<traces, log, target, slot, attempt, candidate, base, bounds>>

RejectLog ==
  /\ pc = "reject-log"
  /\ log' = Append(log, [status |-> "pending", file |-> base])
  /\ attempt' = attempt + 1
  /\ pc' = "next"
  /\ UNCHANGED <<traces, metas, target, slot, candidate, base, bounds>>

\* commit_valid_measured_run: the trace, then its metadata.
CommitTrace ==
  /\ pc = "commit"
  /\ traces' = Write(traces, Name(slot, 0), candidate)
  /\ pc' = "commit-meta"
  /\ UNCHANGED <<metas, log, target, slot, attempt, candidate, base, bounds>>

CommitMeta ==
  /\ pc = "commit-meta"
  /\ metas' = Write(metas, Name(slot, 0),
                    [attempt |-> attempt, target |-> target])
  /\ attempt' = attempt + 1
  /\ pc' = "next"
  /\ UNCHANGED <<traces, log, target, slot, candidate, base, bounds>>

Pending == {i \in 1..Len(log) : log[i].status = "pending"}

\* review_invalidations.  The loop reads the log on its standard input, and
\* so does the question inside it: the first pending line has the lines
\* after it for answers, none of which is "c" or "r", and at their end the
\* read fails and with it the script.  The new log is never moved in place.
Review ==
  /\ pc = "review"
  /\ pc' = IF Pending = {} THEN "complete" ELSE "stopped"
  /\ UNCHANGED <<dirVars, target, slot, attempt, candidate, base, bounds>>

\* An interrupt, or the machine: the script ends between two writes.
Crash ==
  /\ pc \notin {"stopped", "complete"}
  /\ crashes' = crashes + 1
  /\ pc' = "stopped"
  /\ UNCHANGED <<dirVars, target, slot, attempt, candidate, base, starts,
                 captures>>

\* With no script running, the operator writes the outcome into the log.
EditLog ==
  /\ pc = "stopped"
  /\ \E i \in Pending, status \in {"confirmed", "reverted"} :
       /\ status = "reverted" => traces[log[i].file].parseable
       /\ log' = [log EXCEPT ![i].status = status]
  /\ UNCHANGED <<traces, metas, pc, target, slot, attempt, candidate, base,
                 bounds>>
-----------------------------------------------------------------------------
(* The summary (scenarioSummary), of the files as they are                 *)

\* readInvalidRunsLog: the last line about a file is the one that counts.
StatusOf(name) ==
  LET about == {i \in 1..Len(log) : log[i].file = name} IN
  IF about = {} THEN "none"
  ELSE log[CHOOSE i \in about : \A j \in about : j <= i].status

\* Directory order: the invalid attempts of a slot, then its committed run.
Before(m, n) ==
  \/ m.slot < n.slot
  \/ m.slot = n.slot /\ m.index # 0 /\ (n.index = 0 \/ m.index < n.index)

\* eligibleMeasured, by slot: parseable, with metadata, not confirmed bad.
Eligible(s) ==
  {n \in DOMAIN metas :
     /\ n.slot = s
     /\ IF n \in DOMAIN traces THEN traces[n].parseable ELSE FALSE
     /\ StatusOf(n) # "confirmed"}

\* By attempt_sequence; attempts of equal number stay in directory order.
Earlier(m, n) ==
  \/ metas[m].attempt < metas[n].attempt
  \/ metas[m].attempt = metas[n].attempt /\ Before(m, n)

Latest(names) == CHOOSE n \in names : \A m \in names \ {n} : Earlier(m, n)

\* Seeded fault: a slot is counted by its last attempt.
Selected_Latest(s) == Latest(Eligible(s))

\* The one trace a slot is counted by.
Selected(s) ==
  IF Name(s, 0) \in Eligible(s) THEN Name(s, 0) ELSE Latest(Eligible(s))

\* measured_runs_target of the first measured metadata file.
SummaryTarget ==
  IF DOMAIN metas = {} THEN 5
  ELSE metas[CHOOSE n \in DOMAIN metas :
               \A m \in DOMAIN metas \ {n} : Before(n, m)].target

\* includedMeasured; its size is valid_measured_runs.
Included ==
  {Selected(s) : s \in {t \in 1..SummaryTarget : Eligible(t) # {}}}
-----------------------------------------------------------------------------
ScriptStep ==
  \/ Warmup
  \/ NextSlot
  \/ Capture
  \/ Decide
  \/ RejectTrace
  \/ RejectMeta
  \/ RejectLog
  \/ CommitTrace
  \/ CommitMeta
  \/ Review

Next ==
  \/ Start
  \/ ScriptStep
  \/ Crash
  \/ EditLog

\* The script runs on once started; nobody has to start it, or to edit.
SessionSpec == Init /\ [][Next]_sessionVars /\ WF_sessionVars(ScriptStep)
-----------------------------------------------------------------------------
(***************************************************************************)
(* However often the script was stopped and started again, the committed   *)
(* slots are the first ones, so that "committed runs plus one" is a free   *)
(* slot (run_capture.sh:726-736, :1019), and the summary counts every      *)
(* committed run, whatever attempts of its slot were rejected before and   *)
(* whatever became of the rejections (summarize_trace.mjs:383-401).  It    *)
(* leaves one out only beyond the target it takes from the first metadata  *)
(* file (:347), where the run was committed under a higher one.            *)
(***************************************************************************)
CommittedAreCounted ==
  \A n \in DOMAIN metas : n.index = 0 =>
    /\ \A s \in 1 .. n.slot : Committed(s)
    /\ n.slot <= SummaryTarget => n \in Included
    /\ n.slot > SummaryTarget => metas[n].target > SummaryTarget

(***************************************************************************)
(* Once a run has its metadata, neither its trace nor its metadata is ever *)
(* written over: not by a later attempt of the slot, not by a restart      *)
(* (run_capture.sh:262-267, :688-719).                                     *)
(***************************************************************************)
RecordedRunsAreKept ==
  [][\A n \in DOMAIN metas :
       /\ n \in DOMAIN metas' /\ metas'[n] = metas[n]
       /\ n \in DOMAIN traces' /\ traces'[n] = traces[n]]_sessionVars
=============================================================================
