---------------------------- MODULE MeasuredRun -----------------------------
(***************************************************************************)
(* What a measurement page promises of its runs: they follow one another,  *)
(* a run commits one projection of each kind, in any order or together,    *)
(* and ends exactly when all are committed, once.                          *)
(***************************************************************************)
EXTENDS Naturals, Sequences

CONSTANTS Kinds,   \* the kinds of projection a run commits
          MaxRuns  \* bound: runs of a page load

VARIABLES runs,       \* runs started
          committed,  \* kinds committed in the run last started
          ends        \* the runs that have ended, in order
runVars == <<runs, committed, ends>>

Init == runs = 0 /\ committed = {} /\ ends = <<>>

UnderWay == runs > Len(ends)

Start == /\ ~UnderWay
         /\ runs < MaxRuns
         /\ runs' = runs + 1
         /\ committed' = {}
         /\ UNCHANGED ends

Commit == /\ UnderWay
          /\ \E some \in (SUBSET (Kinds \ committed)) \ {{}} :
               /\ committed' = committed \cup some
               /\ ends' = IF committed' = Kinds THEN Append(ends, runs)
                          ELSE ends
          /\ UNCHANGED runs

Next == Start \/ Commit

Spec == Init /\ [][Next]_runVars /\ WF_runVars(Commit)
=============================================================================
