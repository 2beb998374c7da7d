----------------------------- MODULE CaptureRun -----------------------------
(***************************************************************************)
(* One capture, from its arguments to its exit code                        *)
(* (run_single_capture_no_warmup.mjs): the steps of main, the cleanup it   *)
(* shares with the signal handlers, and a Chrome that may go away at any   *)
(* moment.                                                                 *)
(*                                                                         *)
(* Calls behave as CdpCalls says: one made before the connections are seen *)
(* closed is answered, or rejected when they close; one made later is      *)
(* lost, as is the wait for an event.  A promise that is lost keeps no     *)
(* process alive.                                                          *)
(***************************************************************************)
EXTENDS Naturals, Sequences, FiniteSets

CONSTANTS
  Faults,      \* the sets of flaws in the arguments
  MaxPolls,    \* the polls that fit before the readiness deadline
  MaxSignals

Signals == {"SIGINT", "SIGTERM"}

\* How main goes on after a step: on says who has to answer, errors what a
\* failure does.
Step(name, on, errors) == [name |-> name, on |-> on, errors |-> errors]

Script == <<
  Step("port", "local", "exit"),
  Step("launch", "local", "throw"),
  Step("endpoint", "chrome", "throw"),
  Step("enable", "page", "throw"),
  Step("front-readiness", "page", "record"),
  Step("settle", "local", "throw"),
  Step("readiness", "page", "throw"),
  Step("probe", "page", "record"),
  Step("front-tracing", "page", "record"),
  Step("tracing-start", "page", "throw"),
  Step("before", "page", "record"),
  Step("gate", "page", "throw"),
  Step("capture-start", "page", "throw"),
  Step("phases", "local", "throw"),
  Step("capture-end", "page", "throw"),
  Step("tracing-end", "page", "throw"),
  Step("complete", "event", "throw"),
  Step("collect", "page", "record"),
  Step("trace", "local", "throw"),
  Step("meta", "local", "throw"),
  Step("forensics", "local", "throw"),
  Step("close", "local", "throw") >>

VARIABLES
  args,      \* the mode asked for, and the flaws of the arguments
  at,        \* main: a step, or what comes after the last one
  failed,    \* main is on its way out with an error
  call,      \* what main awaits: "none", "pending", "lost"
  polls,
  waiter,    \* the promise of tracingComplete: "none", "waiting", "kept"
  chrome,    \* "none", "running", "gone", or "failed" to start
  tracing,   \* Chrome's: "off", "on", "ending"
  up,        \* the connections have not been seen to close
  killed,    \* chrome.killed
  cleanupStatus,
  cleaning,  \* where the one cleanup is: "no", "exit", "remove", "over"
  cleaner,   \* who runs it: "main" or a signal
  armed,     \* the signals with a handler that has not run
  waiting,   \* the handlers that have begun
  profile,   \* the profile directory is there
  files,     \* what has been written
  exit       \* "running", or how the process ended

mainVars == <<args, at, failed, call, polls, waiter>>
chromeVars == <<chrome, tracing, up>>
cleanupVars == <<killed, cleanupStatus, cleaning, cleaner, profile>>
signalVars == <<armed, waiting>>
captureVars ==
  <<mainVars, chromeVars, cleanupVars, signalVars, files, exit>>

Running == exit = "running"
Current == Script[at]
InScript == at \in 1 .. Len(Script)
-----------------------------------------------------------------------------
(* Arguments                                                               *)

\* The flaws are looked at in this order; replays look at the first three.
Flaws == <<"unknown", "meta-out", "forensics-out", "trace-file", "settle",
           "required", "port", "label", "browser", "scenario">>

ArgumentsRefused ==
  \E i \in DOMAIN Flaws :
    /\ Flaws[i] \in args.flaws
    /\ i = 1 \/ (i <= 4 <=> args.mode = "replay")

ParseArgs ==
  /\ Running /\ at = 0
  /\ IF ArgumentsRefused THEN exit' = "1" /\ UNCHANGED <<at, armed, files>>
     ELSE CASE args.mode = "replay" ->
                 \* analyzeExistingTrace: both files, whatever is found.
                 /\ files' = {"forensics", "final-meta"}
                 /\ exit' \in {"0", "1"}
                 /\ UNCHANGED <<at, armed>>
            [] args.mode = "dry-run" ->
                 /\ files' = {"final-meta"} /\ exit' = "0"
                 /\ UNCHANGED <<at, armed>>
            [] OTHER ->
                 /\ at' = 1 /\ armed' = Signals
                 /\ UNCHANGED <<exit, files>>
  /\ UNCHANGED <<args, failed, call, polls, waiter, chromeVars, cleanupVars,
                 waiting>>
-----------------------------------------------------------------------------
(* Main                                                                    *)

\* tracingComplete is waited for well before tracing is started.
Registers(name) == name = "probe"

Advance ==
  /\ at' = at + 1
  /\ call' = "none"
  /\ waiter' = IF Registers(Current.name) THEN "waiting" ELSE waiter
  /\ UNCHANGED <<args, failed, polls>>

\* The try block is left; its finally runs the cleanup.
Throw ==
  /\ at' = Len(Script) + 1 /\ failed' = TRUE /\ call' = "none"
  /\ UNCHANGED <<args, polls, waiter>>

Fails == IF Current.errors = "record" THEN Advance ELSE Throw

\* fail() of the port check ends the process where it stands.
CheckPort ==
  /\ Running /\ at = 1
  /\ \/ Advance /\ UNCHANGED exit
     \/ exit' = "1" /\ UNCHANGED mainVars
  /\ UNCHANGED <<chromeVars, cleanupVars, signalVars, files>>

\* The profile is made anew, the log is opened and Chrome is started.
\* Nobody listens for the error event of a process that does not start: it
\* ends the script as an exception that is not caught.
Launch ==
  /\ Running /\ at = 2
  /\ \/ /\ profile' = TRUE
        /\ chrome' = "running" /\ up' = TRUE
        /\ Advance
        /\ UNCHANGED exit
     \/ /\ profile' \in BOOLEAN
        /\ Throw
        /\ UNCHANGED <<chrome, up, exit>>
     \/ /\ profile' = TRUE
        /\ chrome' = "failed" /\ exit' = "1"
        /\ UNCHANGED <<mainVars, up>>
  /\ UNCHANGED <<tracing, killed, cleanupStatus, cleaning, cleaner,
                 signalVars, files>>

\* The polls for the endpoint, the page, and opening both connections.
Connect ==
  /\ Running /\ InScript /\ Current.on = "chrome"
  /\ \/ chrome = "running" /\ Advance
     \/ Fails
  /\ UNCHANGED <<chromeVars, cleanupVars, signalVars, files, exit>>

LocalStep ==
  /\ Running /\ InScript /\ at > 2 /\ Current.on = "local"
  /\ \/ /\ files' = files \cup
                       ({Current.name} \cap {"trace", "meta", "forensics"})
        /\ Advance
     \/ \* No events, or the disk refuses; an analysis that fails writes
        \* a file that says so.
        /\ Current.name \in {"trace", "meta", "forensics"}
        /\ Fails
        /\ UNCHANGED files
  /\ UNCHANGED <<chromeVars, cleanupVars, signalVars, exit>>

Ask ==
  /\ Running /\ InScript /\ Current.on = "page" /\ call = "none"
  /\ call' = IF up THEN "pending" ELSE "lost"
  /\ UNCHANGED <<args, at, failed, polls, waiter, chromeVars, cleanupVars,
                 signalVars, files, exit>>

\* Seeded fault: the page is polled until it is ready.
PollAgain_forever == polls' = polls

PollAgain == polls < MaxPolls /\ polls' = polls + 1

\* Chrome answers; a page that is not ready is asked again until the
\* deadline, and at the gate it ends the run.
Answered ==
  /\ Running /\ call = "pending" /\ chrome = "running"
  /\ \/ Advance
     \/ Fails
     \/ /\ Current.name = "readiness"
        /\ PollAgain
        /\ call' = "none"
        /\ UNCHANGED <<args, at, failed, waiter>>
  /\ tracing' = CASE Current.name = "tracing-start" /\ at' = at + 1 -> "on"
                  [] Current.name = "tracing-end" /\ at' = at + 1 -> "ending"
                  [] OTHER -> tracing
  /\ UNCHANGED <<chrome, up, cleanupVars, signalVars, files, exit>>

\* The close events: what is pending is rejected.
ConnectionsClose ==
  /\ Running /\ up /\ chrome = "gone"
  /\ up' = FALSE
  /\ IF call = "pending" THEN Fails ELSE UNCHANGED mainVars
  /\ UNCHANGED <<chrome, tracing, cleanupVars, signalVars, files, exit>>

\* The event wakes whoever waits for it, or nobody.
TracingComplete ==
  /\ Running /\ chrome = "running" /\ up /\ tracing = "ending"
  /\ tracing' = "off"
  /\ waiter' = IF waiter = "waiting" THEN "kept" ELSE waiter
  /\ UNCHANGED <<args, at, failed, call, polls, chrome, up, cleanupVars,
                 signalVars, files, exit>>

Completed ==
  /\ Running /\ InScript /\ Current.on = "event" /\ waiter = "kept"
  /\ Advance
  /\ UNCHANGED <<chromeVars, cleanupVars, signalVars, files, exit>>

\* Seeded fault: the error is forgotten by the cleanup.
MainLeaves_quietly ==
  /\ Running /\ at = Len(Script) + 2
  /\ files' = files \cup {"final-meta"}
  /\ at' = at + 1
  /\ UNCHANGED <<args, failed, call, polls, waiter, chromeVars, cleanupVars,
                 signalVars, exit>>

\* main is back from the cleanup of its finally.
MainLeaves ==
  /\ Running /\ at = Len(Script) + 2
  /\ IF failed
       THEN exit' = "1" /\ UNCHANGED <<at, files>>
       ELSE /\ files' = files \cup {"final-meta"}
            /\ at' = at + 1
            /\ UNCHANGED exit
  /\ UNCHANGED <<args, failed, call, polls, waiter, chromeVars, cleanupVars,
                 signalVars>>
-----------------------------------------------------------------------------
(* Cleanup and signals                                                     *)

\* The status keeps a second caller from cleaning up; it returns at once.
\* A process that is gone takes no signal, and is not marked as killed.
BeginCleanup(by) ==
  /\ cleanupStatus = "not-run"
  /\ cleanupStatus' = "started" /\ cleaner' = by
  /\ IF chrome # "none" /\ ~killed
       THEN killed' = (chrome = "running") /\ cleaning' = "exit"
       ELSE cleaning' = "remove" /\ UNCHANGED killed
  /\ UNCHANGED profile

\* Seeded fault: the cleanup follows the try block instead of ending it.
MainCleansUp_onSuccess ==
  /\ Running /\ at = Len(Script) + 1 /\ cleaner # "main"
  /\ IF cleanupStatus = "not-run" /\ ~failed
       THEN BeginCleanup("main") /\ UNCHANGED mainVars
       ELSE /\ at' = at + 1
            /\ UNCHANGED <<args, failed, call, polls, waiter, cleanupVars>>
  /\ UNCHANGED <<chromeVars, signalVars, files, exit>>

MainCleansUp ==
  /\ Running /\ at = Len(Script) + 1 /\ cleaner # "main"
  /\ IF cleanupStatus = "not-run"
       THEN BeginCleanup("main") /\ UNCHANGED mainVars
       ELSE /\ at' = at + 1
            /\ UNCHANGED <<args, failed, call, polls, waiter, cleanupVars>>
  /\ UNCHANGED <<chromeVars, signalVars, files, exit>>

\* Chrome has exited, or three seconds are over.  The timer kills only a
\* Chrome that no signal was sent to, which is gone already.
StopWaiting ==
  /\ Running /\ cleaning = "exit"
  /\ cleaning' = "remove"
  /\ UNCHANGED <<mainVars, chromeVars, killed, cleanupStatus, cleaner,
                 signalVars, profile, files, exit>>

\* Whoever began goes on.
RemoveProfile ==
  /\ Running /\ cleaning = "remove"
  /\ cleaning' = "over"
  /\ \/ profile' = FALSE /\ cleanupStatus' = "profile-removed"
     \/ cleanupStatus' = "profile-remove-failed" /\ UNCHANGED profile
  /\ at' = IF cleaner = "main" THEN at + 1 ELSE at
  /\ UNCHANGED <<args, failed, call, polls, waiter, chromeVars, killed,
                 cleaner, signalVars, files, exit>>

\* The first signal of a kind runs the handler, the second one is not
\* handled any more.
Signal(s) ==
  /\ Running /\ at > 0 /\ Cardinality(waiting) < MaxSignals
  /\ IF s \in armed
       THEN /\ armed' = armed \ {s} /\ waiting' = waiting \cup {s}
            /\ IF cleanupStatus = "not-run"
                 THEN BeginCleanup(s)
                 ELSE UNCHANGED cleanupVars
            /\ UNCHANGED exit
       ELSE /\ exit' = "killed"
            /\ UNCHANGED <<armed, waiting, cleanupVars>>
  /\ UNCHANGED <<mainVars, chromeVars, files>>

HandlerLeaves(s) ==
  /\ Running /\ s \in waiting
  /\ cleaner = s => cleaning = "over"
  /\ exit' = IF s = "SIGINT" THEN "130" ELSE "143"
  /\ UNCHANGED <<mainVars, chromeVars, cleanupVars, signalVars, files>>
-----------------------------------------------------------------------------
(* Chrome, which is not in src/, and the event loop                        *)

ChromeGoes ==
  /\ Running /\ chrome = "running"
  /\ chrome' = "gone"
  /\ UNCHANGED <<mainVars, tracing, up, cleanupVars, signalVars, files, exit>>

\* Nothing is left that could call back: the process ends, with code 0.
Drained ==
  /\ Running /\ chrome # "running" /\ ~up
  /\ cleaning \in {"no", "over"} /\ waiting = {}
  /\ \/ at = Len(Script) + 3
     \/ InScript /\ call = "lost"
     \/ InScript /\ Current.on = "event" /\ waiter # "kept"
  /\ exit' = "0"
  /\ UNCHANGED <<mainVars, chromeVars, cleanupVars, signalVars, files>>

Over == ~Running /\ UNCHANGED captureVars
-----------------------------------------------------------------------------
CaptureInit ==
  /\ args \in [mode : {"capture", "dry-run", "replay"}, flaws : Faults]
  /\ at = 0 /\ failed = FALSE /\ call = "none" /\ polls = 0
  /\ waiter = "none"
  /\ chrome = "none" /\ tracing = "off" /\ up = FALSE
  /\ killed = FALSE /\ cleanupStatus = "not-run" /\ cleaning = "no"
  /\ cleaner = "nobody"
  /\ armed = {} /\ waiting = {}
  /\ profile = FALSE /\ files = {} /\ exit = "running"

MainStep ==
  \/ ParseArgs \/ CheckPort \/ Launch \/ Connect \/ LocalStep \/ Ask
  \/ Completed \/ MainCleansUp \/ MainLeaves

LoopStep ==
  \/ ConnectionsClose \/ StopWaiting \/ RemoveProfile \/ Drained
  \/ \E s \in Signals : HandlerLeaves(s)

CaptureNext ==
  \/ MainStep \/ LoopStep
  \/ Answered \/ TracingComplete \/ ChromeGoes
  \/ \E s \in Signals : Signal(s)
  \/ Over

CaptureSpec == CaptureInit /\ [][CaptureNext]_captureVars
-----------------------------------------------------------------------------
Signalled == armed # Signals

(***************************************************************************)
(* A capture that exits with 0 has written its trace, forensics and final  *)
(* metadata, except when Chrome went away under it: then main is left with *)
(* a promise that nothing settles, and the process ends as if all were     *)
(* well, without cleanup (:247-261, :2228, :2299-2320).                    *)
(***************************************************************************)
SuccessIsWhole ==
  exit = "0" /\ args.mode = "capture" =>
    \/ files = {"trace", "meta", "forensics", "final-meta"}
    \/ /\ files = {} /\ chrome = "gone" /\ cleanupStatus = "not-run"
       /\ call = "lost" \/ Current.on = "event"

\* The ways out that begin no cleanup: the port is taken, before anything
\* is made, or Chrome cannot be started, which leaves the profile behind.
NothingMade == at = 1 /\ ~profile
SpawnFailed == at = 2 /\ chrome = "failed"

(***************************************************************************)
(* A capture that ends with an error or by a handled signal has tried to   *)
(* remove its profile, a launch that throws included.  It has not where a  *)
(* second signal, or the error that the killed Chrome causes in main, ends *)
(* the process before the handler is through; where a handler finds the    *)
(* cleanup of main begun and ends the process beside it; and on the two    *)
(* ways out above (:2106-2139, :2142-2159, :2295-2297, :2322-2325).        *)
(***************************************************************************)
EveryExitCleansUp ==
  exit \in {"1", "130", "143"} /\ at > 0 =>
    \/ cleaning = "over"
    \/ cleaner \in waiting /\ (failed \/ Cardinality(waiting) > 1)
    \/ cleaner = "main" /\ Signalled
    \/ exit = "1" /\ (NothingMade \/ SpawnFailed)
-----------------------------------------------------------------------------
(***************************************************************************)
(* Expected by the documentation and not kept by the code: no Chrome is    *)
(* left from a run that has ended and cleaned up.                          *)
(***************************************************************************)
NoChromeIsLeft == exit # "running" /\ cleaning = "over" => chrome # "running"
=============================================================================
