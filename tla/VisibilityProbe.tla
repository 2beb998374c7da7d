--------------------------- MODULE VisibilityProbe ---------------------------
(***************************************************************************)
(* The frame probe a capture installs in its page, and the verdict on the  *)
(* capture that is drawn from it (run_single_capture_no_warmup.mjs).       *)
(*                                                                         *)
(* The page is hidden and shown, focused and left, at any moment; only a   *)
(* visible page is given frames.  Everything the script asks of the page   *)
(* may fail, which is recorded and does not stop the capture.  Times and   *)
(* gaps between frames are left out.                                       *)
(*                                                                         *)
(* hiddenLater and hiddenAtEnd, whether the page was ever hidden between   *)
(* the two marks and whether it was hidden at the second, are not in the   *)
(* code.                                                                   *)
(***************************************************************************)
EXTENDS Naturals, FiniteSets

CONSTANTS
  Enabled,          \* whether --visibility-frame-probe was given
  EarlierLoops,     \* how many probes the page may have had before
  Seconds,          \* the length of the capture
  MinFps, MaxFps,   \* VISIBILITY_RAF_MIN_FPS, VISIBILITY_RAF_MAX_FPS
  MaxFrames,        \* the frames of each part of the capture
  MaxChanges        \* the changes of visibility and of focus

ASSUME FpsAssumption == MinFps \in Nat /\ MaxFps \in Nat /\ MinFps <= MaxFps
ASSUME SecondsAssumption == Seconds \in Nat
ASSUME LoopsAssumption == EarlierLoops \subseteq Nat

NoState == "missing"
Unread == [read |-> FALSE, visible |-> FALSE, focused |-> FALSE]

VARIABLES
  enabled,
  visible, focused,
  changes,
  phase,     \* what main has done with the page, see Phases
  marks,     \* the start and end marks of the capture
  front,     \* the calls of Page.bringToFront that succeeded
  before, after,  \* the states read around the capture
  loops,     \* probes the page has had, the running one included
  probe,     \* the probe in the page
  raf,       \* what was collected of it
  hiddenLater, hiddenAtEnd

pageVars == <<visible, focused, changes>>
probedVars == <<enabled, front, before, after, raf>>
historyVars == <<hiddenLater, hiddenAtEnd>>
probeVars ==
  <<pageVars, probedVars, phase, marks, loops, probe, historyVars>>

Phases == <<"ready", "front-1", "start", "front-2", "before", "begin", "end",
            "after", "collect", "over">>
PhaseAfter(p) ==
  Phases[1 + CHOOSE i \in DOMAIN Phases : Phases[i] = p]

NewProbe(loopCount) ==
  [active |-> TRUE, collected |-> FALSE, loops |-> loopCount,
   startedBefore |-> marks.start = 0, marksAtStart |-> marks.start,
   framesBefore |-> 0, framesDuring |-> 0, framesAfter |-> 0,
   endSeen |-> FALSE, stateAtStart |-> NoState, stateAtEnd |-> NoState,
   firstHidden |-> FALSE]

NoProbe == [NewProbe(0) EXCEPT !.active = FALSE, !.startedBefore = FALSE]
-----------------------------------------------------------------------------
(* In the page                                                             *)

State == IF visible' THEN "visible" ELSE "hidden"

\* The first frame or event after a mark says what the page was then.
RecordBoundaryState(p) ==
  [p EXCEPT
    !.stateAtStart =
       IF marks.start > p.marksAtStart /\ @ = NoState THEN State ELSE @,
    !.stateAtEnd = IF marks.end > 0 /\ @ = NoState THEN State ELSE @]

\* Seeded fault: the page was hidden only if it has been shown before.
OnVisibilityChange_onShow(p) ==
  LET q == RecordBoundaryState(p) IN
  IF marks.start > p.marksAtStart /\ marks.end = 0 /\ ~visible'
    THEN [q EXCEPT !.firstHidden = q.stateAtStart = "hidden"]
    ELSE q

OnVisibilityChange(p) ==
  LET q == RecordBoundaryState(p) IN
  IF marks.start > p.marksAtStart /\ marks.end = 0 /\ ~visible'
    THEN [q EXCEPT !.firstHidden = TRUE]
    ELSE q

ChangeVisibility ==
  /\ changes < MaxChanges /\ changes' = changes + 1
  /\ visible' = ~visible
  /\ probe' = IF probe.active THEN OnVisibilityChange(probe) ELSE probe
  /\ hiddenLater' = (hiddenLater \/ (phase = "end" /\ ~visible'))
  /\ UNCHANGED <<focused, probedVars, phase, marks, loops, hiddenAtEnd>>

ChangeFocus ==
  /\ changes < MaxChanges /\ changes' = changes + 1
  /\ focused' = ~focused
  /\ UNCHANGED visible
  /\ probe' = IF probe.active THEN RecordBoundaryState(probe) ELSE probe
  /\ UNCHANGED <<probedVars, phase, marks, loops, historyVars>>

Tick ==
  /\ probe.active /\ visible
  /\ UNCHANGED <<pageVars, probedVars, phase, marks, loops, historyVars>>
  /\ LET p == RecordBoundaryState(probe) IN
     probe' =
       IF marks.end > 0 THEN
         [p EXCEPT !.framesAfter = 1, !.endSeen = TRUE]
       ELSE IF marks.start > 0 THEN
         [p EXCEPT !.framesDuring = IF @ < MaxFrames THEN @ + 1 ELSE @]
       ELSE
         [p EXCEPT !.framesBefore = 1]
-----------------------------------------------------------------------------
(* The script                                                              *)

Proceed == phase' = PhaseAfter(phase)

BringToFront ==
  /\ phase \in {"front-1", "front-2"} /\ Proceed
  /\ \/ front' = front \cup {phase}
     \/ UNCHANGED front
  /\ UNCHANGED <<enabled, pageVars, before, after, raf, marks, loops, probe,
                 historyVars>>

\* A probe that is there already is stopped first.
StartProbe ==
  /\ phase = "start" /\ Proceed
  /\ \/ /\ enabled
        /\ loops' = loops + 1
        /\ probe' = NewProbe(loops')
        /\ raf' = probe'
     \/ UNCHANGED <<loops, probe, raf>>
  /\ UNCHANGED <<enabled, front, before, after, pageVars, marks,
                 historyVars>>

ReadState ==
  [read |-> TRUE, visible |-> visible, focused |-> focused]

ReadVisibilityFrameState ==
  /\ phase \in {"before", "after"} /\ Proceed
  /\ \/ /\ enabled
        /\ IF phase = "before"
             THEN before' = ReadState /\ UNCHANGED after
             ELSE after' = ReadState /\ UNCHANGED before
     \/ UNCHANGED <<before, after>>
  /\ UNCHANGED <<enabled, front, pageVars, raf, marks, loops, probe,
                 historyVars>>

BeginCapture ==
  /\ phase = "begin" /\ Proceed
  /\ marks' = [marks EXCEPT !.start = 1]
  /\ UNCHANGED <<pageVars, probedVars, loops, probe, historyVars>>

EndCapture ==
  /\ phase = "end" /\ Proceed
  /\ marks' = [marks EXCEPT !.end = 1]
  /\ hiddenAtEnd' = ~visible
  /\ UNCHANGED <<pageVars, probedVars, loops, probe, hiddenLater>>

CollectProbe ==
  /\ phase = "collect" /\ Proceed
  /\ \/ /\ probe.active /\ enabled
        /\ raf' = [probe EXCEPT !.collected = TRUE]
        /\ probe' = [probe EXCEPT !.active = FALSE]
     \/ UNCHANGED <<raf, probe>>
  /\ UNCHANGED <<enabled, front, before, after, pageVars, marks, loops,
                 historyVars>>

\* The page is ready, and nothing in it has been marked.
Ready ==
  /\ phase = "ready" /\ Proceed
  /\ UNCHANGED <<pageVars, probedVars, marks, loops, probe, historyVars>>
-----------------------------------------------------------------------------
ProbeInit ==
  /\ enabled \in Enabled
  /\ visible \in BOOLEAN /\ focused \in BOOLEAN /\ changes = 0
  /\ phase = "ready" /\ marks = [start |-> 0, end |-> 0]
  /\ front = {} /\ before = Unread /\ after = Unread
  /\ loops \in EarlierLoops /\ probe = NoProbe /\ raf = NoProbe
  /\ hiddenLater = FALSE /\ hiddenAtEnd = FALSE

ProbeNext ==
  \/ Ready \/ BringToFront \/ StartProbe \/ ReadVisibilityFrameState
  \/ BeginCapture \/ EndCapture \/ CollectProbe
  \/ ChangeVisibility \/ ChangeFocus \/ Tick

ProbeSpec == ProbeInit /\ [][ProbeNext]_probeVars
-----------------------------------------------------------------------------
(* The verdict                                                             *)

ExpectedMinCount ==
  LET fit == Seconds * MinFps IN IF fit > 1 THEN fit ELSE 1

\* A reason stands for itself where a condition holds.
Reasons(condition, reason) == IF condition THEN {reason} ELSE {}

\* What failProbe is called with.
ProbeErrors ==
  IF ~enabled THEN {} ELSE
    Reasons(~before.read, "before-capture-missing") \cup
    Reasons(~after.read, "after-capture-missing") \cup
    Reasons(~raf.collected, "raf-missing") \cup
    Reasons("front-1" \notin front, "bring-to-front-before-readiness") \cup
    Reasons("front-2" \notin front, "bring-to-front-before-tracing") \cup
    Reasons(raf.loops # 1, "loop-instance-count")

ProbeStatus ==
  IF ~enabled THEN "disabled" ELSE IF ProbeErrors = {} THEN "ok" ELSE "failed"

StreamFailReasons ==
  ProbeErrors \cup
  Reasons(~before.visible, "before-capture-not-visible") \cup
  Reasons(~raf.startedBefore, "raf-did-not-start") \cup
  Reasons(raf.framesAfter = 0, "raf-did-not-continue") \cup
  Reasons(~raf.endSeen, "capture-end-not-seen") \cup
  Reasons(raf.stateAtStart = "hidden", "hidden-at-start") \cup
  Reasons(raf.stateAtEnd = "hidden", "hidden-at-end") \cup
  Reasons(raf.firstHidden, "hidden-during-capture") \cup
  IF ~raf.collected THEN {"raf-coverage-unavailable"} ELSE
    Reasons(raf.framesDuring < ExpectedMinCount, "raf-coverage-low") \cup
    Reasons(raf.framesDuring > Seconds * MaxFps, "raf-implausible")

PostCaptureReasons ==
  Reasons(before.visible /\ ~before.focused, "before-not-focused") \cup
  Reasons(~(after.visible /\ after.focused),
          "after-not-visible-focused")

AggregateFailReasons ==
  ProbeErrors \cup
  Reasons(~enabled, "probe-disabled") \cup
  Reasons(enabled /\ ProbeStatus # "ok", "probe-status") \cup
  Reasons(raf.loops > 1, "multiple-loops")

ParityStatus ==
  IF AggregateFailReasons \cup StreamFailReasons # {} THEN "fail"
  ELSE IF PostCaptureReasons # {} THEN "pass_with_warning" ELSE "pass"

\* createAttributionValidity
Usable == ProbeStatus = "ok" /\ StreamFailReasons = {}

Judged == phase = "over"
-----------------------------------------------------------------------------
(***************************************************************************)
(* A capture that is used was probed in full, was never hidden after its   *)
(* start mark, and was seen at its end mark.  The errors recorded on the   *)
(* way are thrown away when the verdict is drawn, and it has to find each  *)
(* of them again; a page that is hidden while the capture runs is found    *)
(* out by the event, or by the frames it is not given.  It does not say    *)
(* that the page was seen at its start mark: the probe looks at the first  *)
(* frame or event after it (:515-520), so that a page that is hidden there *)
(* and shown before a frame is due passes                                  *)
(* (:360-366, :503-531, :567-614, :744-783, :834-925, :977-1010).          *)
(***************************************************************************)
UsableMeansSeen ==
  Judged /\ Usable =>
    /\ enabled /\ front = {"front-1", "front-2"}
    /\ before.read /\ after.read /\ raf.collected
    /\ loops = 1
    /\ ParityStatus # "fail"
    /\ ~hiddenLater /\ ~hiddenAtEnd
=============================================================================
