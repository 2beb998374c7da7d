-------------------------- MODULE WorkerScheduler ---------------------------
(***************************************************************************)
(* The worker scheduler page                                               *)
(* (p1_worker_scheduler_projection_baseline.html): a capture starts a run; *)
(* the run makes a worker, sends it one heavy transaction and, after a     *)
(* delay, one urgent request; the worker works in chunks and serves urgent *)
(* requests between them; the main thread commits the two projections      *)
(* through React and ends the run when both are in.                        *)
(*                                                                         *)
(* Runs are numbered and every request and result carries the number of    *)
(* the run it was made for, which the code does not: all runs of a page    *)
(* share one transaction.  A worker has the number of the run that made    *)
(* it.                                                                     *)
(***************************************************************************)
EXTENDS Naturals, Sequences, FiniteSets, SequencesExt

CONSTANTS Modes,         \* the scheduler modes, a subset of the two
          Total,         \* total_work_units
          ChunkSize,     \* worker_chunk_size
          Drivers,       \* how captures may come: [overlaps, waits]
          MaxRuns        \* bound: runs of a page load

ASSUME SchedulerAssumption ==
  /\ Modes \subseteq {"scheduled", "monolithic"}
  /\ Total \in Nat \ {0} /\ ChunkSize \in Nat \ {0} /\ MaxRuns \in Nat
  /\ Drivers \subseteq [overlaps : BOOLEAN, waits : BOOLEAN]

VARIABLES
  mode,      \* config.scheduler_mode
  driver,    \* whether captures start while a run is under way, and only
             \* once the page is mounted; the page leaves both to who drives it
  mounted,   \* setProjectionApi is there
  runs,      \* runs started
  current,   \* the worker of the page, 0 for none
  timers,    \* urgent requests due, in the order they were set
  workers,   \* run -> its worker
  outbox,    \* run -> messages of its worker to the page
  pending,   \* rows set and not rendered; "counted" when still among the
             \* pendingProjectionCommits
  committed, \* the kinds whose committed flag is set
  shown,     \* the projections rendered, in order
  lost,      \* results refused because the page was not mounted
  ends       \* the run last started at each f2:end
pageVars == <<mounted, current, timers, pending, committed, shown, lost, ends>>
schedulerVars == <<mode, driver, runs, workers, outbox, pageVars>>

ProjectionKinds == {"urgent", "heavy"}
-----------------------------------------------------------------------------
(* A worker.  Its operators take its record and return it after the step;   *)
(* what it posts is gathered in "posted" and moved to the outbox.           *)

NewWorker ==
  [inbox |-> <<[kind |-> "heavy"]>>, payload |-> FALSE, progress |-> 0,
   queue |-> <<>>, yielding |-> FALSE, chunks |-> 0, yields |-> 0,
   preemptions |-> 0, posted |-> <<>>, served |-> <<>>]

Result(kind, run) == [kind |-> kind, run |-> run]

\* Seeded fault: the latest request is served first.
PostUrgentIfPending_last(v) ==
  IF v.queue = <<>> THEN v
  ELSE [v EXCEPT !.queue = Front(@), !.preemptions = @ + 1,
                 !.served = Append(@, Last(v.queue)),
                 !.posted = Append(@, Result("urgent", Last(v.queue)))]

PostUrgentIfPending(v) ==
  IF v.queue = <<>> THEN v
  ELSE [v EXCEPT !.queue = Tail(@), !.preemptions = @ + 1,
                 !.served = Append(@, Head(v.queue)),
                 !.posted = Append(@, Result("urgent", Head(v.queue)))]

HeavyResult(w, v) ==
  [kind |-> "heavy", run |-> w, chunks |-> v.chunks, yields |-> v.yields,
   preemptions |-> v.preemptions, before |-> v.served]

\* The heavy result is posted, then an urgent request if one still waits.
Complete(w, v) ==
  [PostUrgentIfPending([v EXCEPT !.posted = Append(@, HeavyResult(w, v))])
     EXCEPT !.payload = FALSE]

\* Seeded fault: after an urgent request the task ends without a chunk, and
\* without a yield to come back from.
ProcessScheduledChunk_stop(w, v) ==
  LET first == PostUrgentIfPending(v)
      next == IF v.progress + ChunkSize < Total THEN v.progress + ChunkSize
              ELSE Total
      chunk == [first EXCEPT !.progress = next, !.chunks = @ + 1]
  IN IF v.queue # <<>> THEN first
     ELSE IF next = Total
     THEN Complete(w, chunk)
     ELSE [chunk EXCEPT !.yields = @ + 1, !.yielding = TRUE]

\* The last chunk's task also computes the whole transaction again, for the
\* content of the result, which is left out.
ProcessScheduledChunk(w, v) ==
  LET first == PostUrgentIfPending(v)
      next == IF v.progress + ChunkSize < Total THEN v.progress + ChunkSize
              ELSE Total
      chunk == [first EXCEPT !.progress = next, !.chunks = @ + 1]
  IN IF next = Total
     THEN Complete(w, chunk)
     ELSE [chunk EXCEPT !.yields = @ + 1, !.yielding = TRUE]

OnHeavy(w, v) ==
  IF mode = "monolithic"
  THEN LET done == [v EXCEPT !.chunks = 1]
       IN [done EXCEPT !.posted = Append(@, HeavyResult(w, done))]
  ELSE ProcessScheduledChunk(w, [v EXCEPT !.payload = TRUE])

\* Seeded fault: a request that finds no transaction waits for one.
OnUrgent_waits(v, run) ==
  [v EXCEPT !.posted = Append(@, Result("ack", run)),
            !.queue = Append(@, run)]

\* An urgent request is acknowledged, and answered at once when no heavy
\* transaction is under way.
OnUrgent(v, run) ==
  LET acked == [v EXCEPT !.posted = Append(@, Result("ack", run))]
  IN IF v.payload THEN [acked EXCEPT !.queue = Append(@, run)]
     ELSE [acked EXCEPT !.served = Append(@, run),
                        !.posted = Append(@, Result("urgent", run))]

\* The worker w becomes v, its posts are on their way.
Becomes(w, v) ==
  /\ workers' = [workers EXCEPT ![w] = [v EXCEPT !.posted = <<>>]]
  /\ outbox' = [outbox EXCEPT ![w] = @ \o v.posted]
  /\ UNCHANGED <<mode, driver, runs, pageVars>>

HandleMessage(w) ==
  /\ workers[w].inbox # <<>>
  /\ LET message == Head(workers[w].inbox)
         v == [workers[w] EXCEPT !.inbox = Tail(@)]
     IN Becomes(w, IF message.kind = "heavy" THEN OnHeavy(w, v)
                   ELSE OnUrgent(v, message.run))

YieldReturns(w) ==
  /\ workers[w].yielding
  /\ Becomes(w, ProcessScheduledChunk(w, [workers[w] EXCEPT
                                            !.yielding = FALSE]))
-----------------------------------------------------------------------------
(* The page.                                                                *)

UnderWay == runs > 0 /\ committed # ProjectionKinds

Mount == /\ ~mounted
         /\ mounted' = TRUE
         /\ UNCHANGED <<mode, driver, runs, workers, outbox, current, timers,
                        pending, committed, shown, lost, ends>>

Cleared == {}

\* The mark of a capture is observed; the microtasks behind it trigger the
\* run, click the button and dispatch the heavy transaction in the same task.
CaptureStart ==
  /\ runs < MaxRuns
  /\ driver.overlaps \/ ~UnderWay
  /\ driver.waits => mounted
  /\ runs' = runs + 1
  /\ committed' = Cleared
  /\ pending' = [i \in DOMAIN pending |->
                  [pending[i] EXCEPT !.counted = FALSE]]
  /\ current' = runs'
  /\ workers' = Append(workers, NewWorker)
  /\ outbox' = Append(outbox, <<>>)
  /\ timers' = Append(timers, runs')
  /\ UNCHANGED <<mode, driver, mounted, shown, lost, ends>>

DispatchUrgentRequest ==
  /\ timers # <<>>
  /\ timers' = Tail(timers)
  /\ workers' = IF current = 0 THEN workers
                ELSE [workers EXCEPT ![current].inbox =
                        Append(@, Result("urgent", Head(timers)))]
  /\ UNCHANGED <<mode, driver, runs, outbox, mounted, current, pending,
                 committed, shown, lost, ends>>

HandleWorkerMessage(w) ==
  /\ outbox[w] # <<>>
  /\ outbox' = [outbox EXCEPT ![w] = Tail(@)]
  /\ LET result == Head(outbox[w])
     IN CASE result.kind = "ack" -> UNCHANGED <<pending, lost>>
          [] result.kind # "ack" /\ mounted ->
               /\ pending' = Append(pending, [kind |-> result.kind,
                                              run |-> result.run,
                                              counted |-> TRUE])
               /\ UNCHANGED lost
          [] OTHER -> /\ lost' = lost \cup {Result(result.kind, result.run)}
                      /\ UNCHANGED pending
  /\ UNCHANGED <<mode, driver, runs, workers, mounted, current, timers,
                 committed, shown, ends>>

\* React renders the rows; the layout effect takes the pending commits, if
\* there are any, and the run ends when both kinds are in.
RenderRows ==
  /\ pending # <<>>
  /\ pending' = <<>>
  /\ shown' = shown \o [i \in DOMAIN pending |->
                         Result(pending[i].kind, pending[i].run)]
  /\ LET taken == {c \in Range(pending) : c.counted}
     IN /\ committed' = committed \cup {c.kind : c \in taken}
        /\ IF taken # {} /\ committed' = ProjectionKinds
           THEN current' = 0 /\ ends' = Append(ends, runs)
           ELSE UNCHANGED <<current, ends>>
  /\ UNCHANGED <<mode, driver, runs, workers, outbox, mounted, timers, lost>>

SchedulerInit ==
  /\ mode \in Modes /\ driver \in Drivers
  /\ mounted = FALSE /\ runs = 0 /\ current = 0 /\ timers = <<>>
  /\ workers = <<>> /\ outbox = <<>> /\ pending = <<>>
  /\ committed = {} /\ shown = <<>> /\ lost = {} /\ ends = <<>>

WorkerStep(w) == HandleMessage(w) \/ YieldReturns(w)

SchedulerNext ==
  \/ Mount \/ CaptureStart \/ DispatchUrgentRequest \/ RenderRows
  \/ \E w \in 1..runs : WorkerStep(w) \/ HandleWorkerMessage(w)

SchedulerSpec == SchedulerInit /\ [][SchedulerNext]_schedulerVars
-----------------------------------------------------------------------------
(* Properties.                                                              *)

\* The driver that waits for the page to be ready, and for each run to end.
Measured == driver = [overlaps |-> FALSE, waits |-> TRUE]

\* The requests not yet looked at; the heavy transaction comes before them.
Asked(inbox) ==
  [i \in DOMAIN inbox |-> IF inbox[i].kind = "heavy" THEN 0 ELSE inbox[i].run]

HeavyResults(w) == {m \in Range(outbox[w]) : m.kind = "heavy"}

Increasing(s) == \A i, j \in DOMAIN s : i < j => s[i] < s[j]

(***************************************************************************)
(* A worker serves its urgent requests at most once each and in the order  *)
(* they were made, served at a yield, behind the heavy result or at once,  *)
(* and whatever runs overlap; only what the end of the heavy transaction   *)
(* leaves in the queue is not served any more, and overtaken.  The heavy   *)
(* result tells of them: the preemptions are the requests served before    *)
(* it, there is a yield between any two chunks, and the chunks cover the   *)
(* work (lines 1022-1060 and 1090-1111).                                   *)
(***************************************************************************)
UrgentsKeepTheirOrder ==
  \A w \in 1..runs :
    /\ LET v == workers[w]
       IN /\ Increasing(v.served \o Asked(v.inbox))
          /\ Increasing(v.queue \o Asked(v.inbox))
          /\ v.payload => Increasing(v.served \o v.queue)
          /\ Range(v.served) \cap Range(v.queue) = {}
    /\ \A m \in HeavyResults(w) :
         /\ m.yields = m.chunks - 1
         /\ m.preemptions = Len(m.before)
         /\ IF mode = "monolithic" THEN m.chunks = 1
            ELSE /\ m.chunks * ChunkSize >= Total
                 /\ (m.chunks - 1) * ChunkSize < Total

\* What a measurement sees of the page.
Promised == INSTANCE MeasuredRun WITH
  Kinds <- ProjectionKinds,
  runs <- IF Measured THEN runs ELSE 0,
  committed <- IF Measured THEN committed ELSE {},
  ends <- IF Measured THEN ends ELSE <<>>

(***************************************************************************)
(* Driven as the measurements drive it, the page makes measured runs: it   *)
(* keeps the order of start, commits and end, and every run that starts    *)
(* ends, the urgent request being served wherever it meets the heavy       *)
(* transaction (lines 1022-1060, 1090-1144).  Driven otherwise, nothing is *)
(* promised.                                                               *)
(***************************************************************************)
ImplementsMeasuredRun == Promised!Spec

(***************************************************************************)
(* Every heavy transaction is brought to its end and its worker falls      *)
(* idle, however many urgent requests come in between and whatever runs    *)
(* overlap (queueYield, lines 1013-1021 and 1059).                         *)
(***************************************************************************)
HeavyWorkCompletes ==
  \A w \in 1..MaxRuns :
    (w <= runs) ~> (w <= runs /\ workers[w].inbox = <<>>
                              /\ ~workers[w].payload)
=============================================================================
