--------------------------- MODULE OperationBatch ---------------------------
(***************************************************************************)
(* applyOperationsToState (state-store.ts): operations applied one after   *)
(* the other until one is refused.  The decision that refuses it carries   *)
(* the state that the operations before it have made, so a batch is        *)
(* neither applied nor undone as a whole.                                  *)
(*                                                                         *)
(* The call is synchronous; its steps are kept apart so that each is one   *)
(* of StateStore.  The caller goes on with the state it is given and may   *)
(* send any batch again.                                                   *)
(***************************************************************************)
EXTENDS StateStore

CONSTANTS Batch   \* the batches callers may send

ASSUME BatchAssumption == Batch \subseteq Seq(Operation)

VARIABLES
  ops,     \* the batch of the last call
  index,   \* how many of its operations have been applied
  answer,  \* "running", "accepted" or "rejected"
  given    \* the blocks of the state the call was given

batchVars == <<vars, ops, index, answer, given>>
-----------------------------------------------------------------------------
Call(batch) ==
  /\ answer # "running"
  /\ ops' = batch
  /\ index' = 0
  /\ answer' = "running"
  /\ given' = blocks
  /\ UNCHANGED vars

ApplyNext ==
  /\ answer = "running" /\ index < Len(ops)
  /\ CanApply(ops[index + 1])
  /\ Apply(ops[index + 1])
  /\ index' = index + 1
  /\ UNCHANGED <<ops, answer, given>>

\* Seeded fault: the state returned with a refusal is the one given.
RejectNext_undoes ==
  /\ answer = "running" /\ index < Len(ops)
  /\ ~CanApply(ops[index + 1])
  /\ answer' = "rejected"
  /\ blocks' = given
  /\ UNCHANGED <<session_version, messages, ops, index, given>>

RejectNext ==
  /\ answer = "running" /\ index < Len(ops)
  /\ ~CanApply(ops[index + 1])
  /\ answer' = "rejected"
  /\ UNCHANGED <<vars, ops, index, given>>

\* Also the answer to an empty batch.
Finish ==
  /\ answer = "running" /\ index = Len(ops)
  /\ answer' = "accepted"
  /\ UNCHANGED <<vars, ops, index, given>>

BatchInit ==
  /\ Init
  /\ ops = <<>>
  /\ index = 0
  /\ answer = "accepted"
  /\ given = blocks

BatchNext ==
  \/ \E batch \in Batch : Call(batch)
  \/ ApplyNext \/ RejectNext \/ Finish

\* A call, once made, returns; nothing forces the caller to make another.
BatchSpec ==
  BatchInit /\ [][BatchNext]_batchVars
    /\ WF_batchVars(ApplyNext \/ RejectNext \/ Finish)
-----------------------------------------------------------------------------
(***************************************************************************)
(* A refused batch that begins with a chunk and got past it cannot be      *)
(* cured by sending it again: the chunk is then a duplicate, so the batch  *)
(* is refused at its first operation (state-store.ts:117, 171).            *)
(***************************************************************************)
ResendIsRefused ==
  answer = "rejected" /\ index > 0 /\ ops[1].op_type = "AppendChunk" =>
    ~CanApply(ops[1])

(***************************************************************************)
(* A batch changes the session as its operations would one by one, taken   *)
(* or left: StateStore is the abstract specification of a batch            *)
(* (state-store.ts:116).                                                   *)
(***************************************************************************)
BatchImplementsStore == Spec
=============================================================================
