--------------------------- MODULE MCCaptureTools ---------------------------
(***************************************************************************)
(* The capture script in three parts, each with a state of its own: a      *)
(* behaviour is one of                                                     *)
(*   "connection": one connection to Chrome, two commands, three waits,    *)
(*     two events and a socket that may fail;                              *)
(*   "capture": one run from its arguments, with no flaw or with one, to   *)
(*     its exit code, one more poll than the first, and both signals;      *)
(*   "probe": the frame probe of a capture of one second that needs two    *)
(*     frames and may have three, with four changes of the page.           *)
(***************************************************************************)
EXTENDS CdpConnection, CaptureRun, VisibilityProbe

VARIABLE part

MCFaults == {{}} \cup { {Flaws[i]} : i \in DOMAIN Flaws }

\* What the probe finds when it is not run.
NoPage ==
  /\ enabled = FALSE /\ visible = TRUE /\ focused = TRUE /\ changes = 0
  /\ phase = "ready" /\ marks = [start |-> 0, end |-> 0]
  /\ front = {} /\ before = Unread /\ after = Unread
  /\ loops = 0 /\ probe = NoProbe /\ raf = NoProbe
  /\ hiddenLater = FALSE /\ hiddenAtEnd = FALSE

\* The arguments of no capture.
NoArguments == args = [mode |-> "dry-run", flaws |-> {}]

PartInit ==
  /\ part \in {"connection", "capture", "probe"}
  /\ ConnectionInit
  /\ CaptureInit /\ (part # "capture" => NoArguments)
  /\ IF part = "probe" THEN ProbeInit ELSE NoPage

InConnection ==
  part = "connection" /\ UNCHANGED <<part, captureVars, probeVars>>
InCapture ==
  part = "capture" /\ UNCHANGED <<part, connectionVars, probeVars>>
InProbe ==
  part = "probe" /\ UNCHANGED <<part, connectionVars, captureVars>>

PartNext ==
  \/ InConnection /\ Open
  \/ InConnection /\ OpenTimeout
  \/ InConnection /\ Send
  \/ InConnection /\ Close
  \/ \E m \in Method :
       \/ InConnection /\ WaitFor(m)
       \/ InConnection /\ Emit(m)
  \/ InConnection /\ Deliver
  \/ InConnection /\ Accept
  \/ InConnection /\ Fail
  \/ InConnection /\ StrayAnswer
  \/ \E id \in atChrome, error \in BOOLEAN : InConnection /\ Answer(id, error)
  \/ InCapture /\ MainStep
  \/ InCapture /\ LoopStep
  \/ InCapture /\ Answered
  \/ InCapture /\ TracingComplete
  \/ InCapture /\ ChromeGoes
  \/ \E s \in Signals : InCapture /\ Signal(s)
  \/ InProbe /\ Ready
  \/ InProbe /\ BringToFront
  \/ InProbe /\ StartProbe
  \/ InProbe /\ ReadVisibilityFrameState
  \/ InProbe /\ BeginCapture
  \/ InProbe /\ EndCapture
  \/ InProbe /\ CollectProbe
  \/ InProbe /\ ChangeVisibility
  \/ InProbe /\ ChangeFocus
  \/ InProbe /\ Tick

partVars == <<part, connectionVars, captureVars, probeVars>>

\* The event loop of the script goes on.  Nothing is assumed of Chrome, and
\* nobody has to send a signal.
PartSpec ==
  /\ PartInit /\ [][PartNext]_partVars
  /\ WF_partVars(InCapture /\ MainStep)
  /\ WF_partVars(InCapture /\ LoopStep)
-----------------------------------------------------------------------------
\* Chrome is there, and owes an answer, the end of its tracing or its exit.
AwaitsChrome ==
  /\ chrome = "running"
  /\ \/ call = "pending"
     \/ InScript /\ Current.on = "event" /\ waiter # "kept"
     \/ at = Len(Script) + 3

(***************************************************************************)
(* Every capture ends, unless a Chrome that stays is silent for good:      *)
(* send() and waitFor() have no timeout, and a Chrome that ignores SIGTERM *)
(* keeps the process that started it.  Wherever else the run is, and       *)
(* whatever Chrome and the signals have done to it, it ends: nothing that  *)
(* is lost keeps the process alive, and no loop goes on without Chrome     *)
(* (:247-261, :1038-1051, :2006-2325).                                     *)
(***************************************************************************)
EveryRunEnds ==
  part = "capture" => <>(exit # "running") \/ <>[]AwaitsChrome
=============================================================================
