------------------------ MODULE TransactionLifecycle ------------------------
(***************************************************************************)
(* The life of a transaction outside the engine (transaction-lifecycle.ts, *)
(* transaction-validation.ts) and the projections made for it.             *)
(*                                                                         *)
(* The functions are pure: marking a record makes a new one and leaves the *)
(* old one to whoever holds it, and a bare transaction counts as queued.   *)
(* held is every record that was ever made, so any of them may be marked   *)
(* at any time, in any order and more than once.  Projections name their   *)
(* transaction, and the policy that lets them through is given no record.  *)
(*                                                                         *)
(* path is the sequence of statuses a record came by; it is not in the     *)
(* code.                                                                   *)
(***************************************************************************)
EXTENDS ProjectionPolicy, AdmissionPolicy, FiniteSets

CONSTANTS
  TxnId, OpType,
  FaultSet,       \* the sets of fields in which transactions may be wrong
  ResultVersion,  \* the versions callers complete with, BadVersion included
  BadVersion,
  Made,           \* the projections workers make; each names a txn_id
  Bounds,
  NoAnswer

ASSUME ResultVersionAssumption ==
  ResultVersion \subseteq Nat \cup {BadVersion} /\ BadVersion \notin Nat

VARIABLES
  held,        \* the records callers hold
  answer,      \* the error of the last call, "none" for a new record
  let_through  \* the transactions whose projections were let through

lifecycleVars == <<held, answer, let_through>>
-----------------------------------------------------------------------------
(* transaction-validation.ts                                               *)

\* The fields in the order they are looked at.
Fields ==
  <<"txn_id", "parent_action_id", "op_ids", "transaction_type", "priority",
    "deadline_ms", "budget_ms", "session_version", "visible_range",
    "dirty_ranges", "required_work_units", "cancellation_policy",
    "stale_policy", "result_version", "checksum", "projection_contract",
    "trace_context">>

ASSUME FaultAssumption ==
  FaultSet \subseteq SUBSET { Fields[i] : i \in 1 .. 17 }

FieldError(field) ==
  IF field = "checksum" THEN "InvalidChecksum" ELSE "MissingRequiredField"

\* Every error, in order; the first one decides.
ValidateTransaction(faults) ==
  LET wrong == SelectSeq(Fields, LAMBDA f : f \in faults)
  IN [i \in DOMAIN wrong |-> FieldError(wrong[i])]
-----------------------------------------------------------------------------
(* transaction-lifecycle.ts                                                *)

\* Seeded fault: a canceled transaction may be taken up again.
AllowedNextStatuses_resume(status) ==
  CASE status = "queued" -> {"running", "rejected", "canceled"}
    [] status = "running" -> {"completed", "failed", "canceled", "rejected"}
    [] status = "canceled" -> {"running"}
    [] OTHER -> {}

AllowedNextStatuses(status) ==
  CASE status = "queued" -> {"running", "rejected", "canceled"}
    [] status = "running" -> {"completed", "failed", "canceled", "rejected"}
    [] OTHER -> {}

Queued(t) ==
  [txn_id |-> t, status |-> "queued", result_version |-> 0,
   path |-> <<"queued">>]

CreateTransactionFromOperation(t, op_type, faults) ==
  LET errors == ValidateTransaction(faults) IN
  IF ~DerivesVisibleRange(op_type) THEN
    /\ answer' = "MissingRequiredField"
    /\ UNCHANGED <<held, let_through>>
  ELSE IF errors # <<>> THEN
    /\ answer' = Head(errors)
    /\ UNCHANGED <<held, let_through>>
  ELSE
    /\ held' = held \cup {Queued(t)}
    /\ answer' = "none"
    /\ UNCHANGED let_through

\* version is BadVersion when the caller gives none.
MarkTransaction(r, next, version) ==
  /\ IF next \in AllowedNextStatuses(r.status)
       THEN /\ held' = held \cup
                 { [r EXCEPT !.status = next, !.path = Append(@, next),
                      !.result_version =
                         IF version = BadVersion THEN @ ELSE version] }
            /\ answer' = "none"
       ELSE answer' = "TransactionCanceled" /\ UNCHANGED held
  /\ UNCHANGED let_through

\* What may be marked: a record, or a bare transaction, which makes one.
ToRecord == held \cup { Queued(r.txn_id) : r \in held }

MarkTransactionAccepted(r) == MarkTransaction(r, "running", BadVersion)
MarkTransactionRejected(r) == MarkTransaction(r, "rejected", BadVersion)
MarkTransactionCanceled(r) == MarkTransaction(r, "canceled", BadVersion)

MarkTransactionCompleted(r, version) ==
  IF version = BadVersion
    THEN answer' = "MissingRequiredField" /\ UNCHANGED <<held, let_through>>
    ELSE MarkTransaction(r, "completed", version)

\* The main thread shows a projection of a transaction, or not.
ShowProjection(p) ==
  /\ \E r \in held : r.txn_id = p.txn_id
  /\ answer' = ProjectionError(p, 0, Bounds)
  /\ let_through' =
       IF answer' = "none" THEN let_through \cup {p.txn_id} ELSE let_through
  /\ UNCHANGED held

LifecycleInit ==
  /\ held = {}
  /\ answer = NoAnswer
  /\ let_through = {}

LifecycleNext ==
  \/ \E t \in TxnId, op_type \in OpType, faults \in FaultSet :
       CreateTransactionFromOperation(t, op_type, faults)
  \/ \E r \in ToRecord :
       \/ MarkTransactionAccepted(r)
       \/ MarkTransactionRejected(r)
       \/ MarkTransactionCanceled(r)
       \/ \E version \in ResultVersion : MarkTransactionCompleted(r, version)
  \/ \E p \in Made : ShowProjection(p)

LifecycleSpec == LifecycleInit /\ [][LifecycleNext]_lifecycleVars
-----------------------------------------------------------------------------
Final == {"completed", "canceled", "rejected", "failed"}

(***************************************************************************)
(* However records are kept, marked again and mixed, each of them came a   *)
(* legal way: from queued, through running when it is completed, without   *)
(* ever leaving a final status; and it has the version of its completion,  *)
(* or else the transaction's own (transaction-lifecycle.ts:123-196).       *)
(***************************************************************************)
RecordsCameALegalWay ==
  \A r \in held :
    /\ r.path[1] = "queued" /\ r.path[Len(r.path)] = r.status
    /\ \A i \in 1 .. Len(r.path) - 1 : r.path[i] \notin Final
    /\ r.status = "completed" =>
         \E i \in 1 .. Len(r.path) : r.path[i] = "running"
    /\ r.result_version = 0 \/ r.status = "completed"
=============================================================================
