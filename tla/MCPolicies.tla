----------------------------- MODULE MCPolicies -----------------------------
(***************************************************************************)
(* The policies that do not share a state with the engine, side by side in *)
(* one run: a behaviour is one of                                          *)
(*   "load": the admission policies under a load that comes and goes;      *)
(*   "main": the main thread, sent projections while the session goes on,  *)
(*     every combination of versions and status and each other defect      *)
(*     alone or with a stale version;                                      *)
(*   "lifecycle": records of a transaction, kept, marked again and mixed;  *)
(*   "payload": one call of the serialization check, on three objects that *)
(*     may refer to each other and to themselves, in every arrangement of  *)
(*     up to two items in the first two of them.                           *)
(***************************************************************************)
EXTENDS AdmissionLoad, MainProjection, TransactionLifecycle, Serialization

CONSTANTS b1, b2, t1, r1, r2, r3

VARIABLE part
-----------------------------------------------------------------------------
(* "main"                                                                  *)

Base ==
  [form |-> "ok", transferable |-> TRUE, session_version |-> 0,
   result_version |-> 0, stale_status |-> "fresh", blocks |-> <<b1>>,
   range |-> {b1}, bytes |-> 1, checksum |-> TRUE]

WellMade ==
  { [Base EXCEPT !.session_version = s, !.result_version = r,
                 !.stale_status = status] :
    s \in 0 .. 2, r \in 0 .. 1, status \in StaleStatus }

Spoiled(p) ==
  { [p EXCEPT !.form = "missing-field"], [p EXCEPT !.form = "bad-version"],
    [p EXCEPT !.transferable = FALSE], [p EXCEPT !.checksum = FALSE],
    [p EXCEPT !.blocks = <<b1, b1>>], [p EXCEPT !.range = {b1, b2}],
    [p EXCEPT !.blocks = <<b1, b2, b1>>], [p EXCEPT !.bytes = 2] }

MCProjection ==
  WellMade \cup Spoiled(Base)
    \cup Spoiled([Base EXCEPT !.session_version = 2, !.stale_status = "stale"])

MCBoundsChoice ==
  { [max_blocks |-> 2, max_result_bytes |-> 1, require_checksum |-> TRUE,
     allow_stale_compatible |-> allow] : allow \in BOOLEAN }
  \cup {NoBounds}
-----------------------------------------------------------------------------
(* "lifecycle": one operation a range can be derived from and one it       *)
(* cannot, transactions wrong in two fields, in the checksum alone and in  *)
(* none, and one projection, with its checksum and without.                *)

MCFaultSet == {{}, {"checksum"}, {"checksum", "budget_ms"}}

MCMade ==
  { [txn_id |-> t1, form |-> "ok", session_version |-> 0, blocks |-> <<b1>>,
     range |-> {b1}, bytes |-> 1, checksum |-> c, stale_status |-> "fresh"] :
    c \in BOOLEAN }

MCLifecycleBounds ==
  [max_blocks |-> 1, max_result_bytes |-> 1, require_checksum |-> TRUE,
   allow_stale_compatible |-> FALSE]
-----------------------------------------------------------------------------
(* "payload"                                                               *)

Sound == [fault |-> "none", raw |-> 0, bytes |-> 1]
LongText == [fault |-> "none", raw |-> 2, bytes |-> 4]
Unsupported == [fault |-> "unsupported-type", raw |-> 0, bytes |-> 0]

MCLeaf == {Sound, LongText, Unsupported}

MCRoots == {r1, LongText, Unsupported}

Items(values, n) ==
  { [i \in DOMAIN s |-> [key_bytes |-> 3, value |-> s[i]]] :
    s \in UNION { [1 .. k -> values] : k \in 0 .. n } }
Nodes(kinds, values, n) == [kind : kinds, items : Items(values, n)]

MCHeaps ==
  { [r \in {r1, r2, r3} |->
       CASE r = r1 -> n1 [] r = r2 -> n2 [] r = r3 -> n3] :
    n1 \in Nodes({"array", "object"}, {r1, r2, r3, Sound}, 2),
    n2 \in Nodes({"array"}, {r1, r3, Unsupported}, 2),
    n3 \in Nodes({"object"}, {r2, LongText}, 1)
             \cup Nodes({"other"}, {}, 0) }

Unlimited == [name \in LimitName |-> NoLimit]

MCOptions ==
  { Unlimited,
    [Unlimited EXCEPT !["max_depth"] = 1, !["max_object_keys"] = 1],
    [Unlimited EXCEPT !["max_array_length"] = 1, !["max_total_bytes"] = 13],
    [Unlimited EXCEPT !["max_string_bytes"] = 1],
    [Unlimited EXCEPT !["max_depth"] = BadLimit] }

\* The call that is not made in the other parts.
NoCall == /\ heap = CHOOSE h \in Heaps : TRUE
          /\ root = CHOOSE r \in Roots : TRUE
          /\ options = Unlimited
          /\ stack = CHOOSE n \in Stacks : TRUE
          /\ frames = <<>> /\ seen = {} /\ verdict = Pending
-----------------------------------------------------------------------------
PartInit ==
  /\ part \in {"load", "main", "lifecycle", "payload"}
  /\ LoadInit /\ MainInit /\ LifecycleInit
  /\ IF part = "payload" THEN WalkInit ELSE NoCall

InLoad ==
  part = "load" /\ UNCHANGED <<part, mainVars, lifecycleVars, walkVars>>
InMain ==
  part = "main" /\ UNCHANGED <<part, snapshot, lifecycleVars, walkVars>>
InLifecycle ==
  part = "lifecycle" /\ UNCHANGED <<part, snapshot, mainVars, walkVars>>
InPayload ==
  part = "payload" /\ UNCHANGED <<part, snapshot, mainVars, lifecycleVars>>

PartNext ==
  \/ \E f \in Field : InLoad /\ Rise(f)
  \/ \E f \in Field : InLoad /\ Fall(f)
  \/ InMain /\ AdvanceSession
  \/ \E p \in Projection, bounds \in BoundsChoice :
       \/ InMain /\ Commit(p, bounds)
       \/ InMain /\ RejectProjection(p, bounds)
  \/ \E t \in TxnId, op_type \in OpType, faults \in FaultSet :
       InLifecycle /\ CreateTransactionFromOperation(t, op_type, faults)
  \/ \E r \in ToRecord :
       \/ InLifecycle /\ MarkTransactionAccepted(r)
       \/ InLifecycle /\ MarkTransactionRejected(r)
       \/ InLifecycle /\ MarkTransactionCanceled(r)
       \/ \E version \in ResultVersion :
            InLifecycle /\ MarkTransactionCompleted(r, version)
  \/ \E p \in Made : InLifecycle /\ ShowProjection(p)
  \/ InPayload /\ RefuseLimits
  \/ InPayload /\ Refuse
  \/ InPayload /\ VisitLeaf
  \/ InPayload /\ EnterObject
  \/ InPayload /\ Overflow
  \/ InPayload /\ LeaveObject

partVars == <<part, snapshot, mainVars, lifecycleVars, walkVars>>

\* The walk is one synchronous call: once begun, it goes on.
PartSpec ==
  PartInit /\ [][PartNext]_partVars /\ WF_partVars(InPayload /\ WalkNext)
-----------------------------------------------------------------------------
(***************************************************************************)
(* Every call comes to a verdict and none overflows the stack, unless it   *)
(* is given no depth that the stack holds and a payload that may well be   *)
(* nested deeper than that: on cyclic payloads too, with max_depth (the    *)
(* callers in the repository give 12) or without it                        *)
(* (message-serialization.ts:102, 149-155).                                *)
(***************************************************************************)
StackSuffices ==
  \/ Cardinality(Ref) <= stack
  \/ options["max_depth"] \notin {NoLimit, BadLimit}
       /\ options["max_depth"] < stack

WalkEnds ==
  part = "payload" /\ StackSuffices ~> verdict \notin {Pending, Thrown}
=============================================================================
