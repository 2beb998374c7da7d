---------------------------- MODULE AdmissionLoad ----------------------------
(***************************************************************************)
(* The admission policies under a load that comes and goes.  The code      *)
(* never changes a snapshot: its caller measures it anew for each message, *)
(* so here the load moves one unit at a time and every policy is asked at  *)
(* every load around the limits.                                           *)
(***************************************************************************)
EXTENDS AdmissionPolicy

CONSTANTS
  MaxLoad,   \* bound: the highest value of a snapshot field
  Limit      \* the value of every limit, below MaxLoad

ASSUME LoadAssumption == MaxLoad \in Nat /\ Limit \in Nat

VARIABLE snapshot

Field ==
  {"pending_transactions", "pending_bytes",
   "largest_pending_projection_bytes", "uncommitted_projection_count"}

Limits ==
  [max_pending_transactions |-> Limit, max_pending_bytes |-> Limit,
   max_projection_result_bytes |-> Limit,
   max_uncommitted_projection_count |-> Limit]

AdmittedLanes ==
  { l \in Lane : CanAdmitTransaction(LaneOnly(l), snapshot, Limits) }

LoadInit == snapshot = [f \in Field |-> 0]

Rise(f) ==
  snapshot[f] < MaxLoad /\ snapshot' = [snapshot EXCEPT ![f] = @ + 1]
Fall(f) ==
  snapshot[f] > 0 /\ snapshot' = [snapshot EXCEPT ![f] = @ - 1]

LoadNext == \E f \in Field : Rise(f) \/ Fall(f)

LoadSpec == LoadInit /\ [][LoadNext]_snapshot
-----------------------------------------------------------------------------
(***************************************************************************)
(* The answers to pressure agree at their limits: when a lane is refused   *)
(* for lack of room, or the pressure as a whole is judged too high,        *)
(* background work is being throttled, so that room can come back          *)
(* (backpressure-policy.ts:97 and 124 against 179).                        *)
(***************************************************************************)
RefusalImpliesThrottle ==
  AdmittedLanes # Lane \/ ~EvaluateBackpressure(snapshot, Limits) =>
    ShouldThrottleBackground(snapshot, Limits)
=============================================================================
