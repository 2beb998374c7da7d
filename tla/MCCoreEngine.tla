---------------------------- MODULE MCCoreEngine ----------------------------
(***************************************************************************)
(* A small instance of CoreEngine: one block that is streamed into, a      *)
(* message that shows it, and every way of repeating or spoiling a message *)
(* that the checks of the engine tell apart.                               *)
(***************************************************************************)
EXTENDS CoreEngine

CONSTANTS b1, c1, c2, m1, pa1, pa2,
          e1, e2, e3, e4, e5, e6, e7, e8, o1, o2, o3, o4, o5, o6, x, H, L

MCHighSurrogate == {H}
MCLowSurrogate == {L}
MCPlainUnit == {x}
MCPayload == {<<x>>, <<H, L>>}
MCBlockIdList == {<<b1>>}

Chunk(chunk, payload, offset, version) ==
  [op_type |-> "AppendChunk", session_version |-> version, block_id |-> b1,
   chunk_id |-> chunk, payload |-> payload, append_offset |-> offset]

Chunk1 == Chunk(c1, <<x>>, 0, 0)
Chunk2 == Chunk(c2, <<H, L>>, 1, 1)
Patch ==
  [op_type |-> "PatchRange", session_version |-> 1, block_id |-> b1,
   start_offset |-> 0, end_offset |-> 1, payload |-> <<H, L>>]
Seal ==
  [op_type |-> "SealBlock", session_version |-> 1, block_id |-> b1,
   final_length |-> 3]
Message(version) ==
  [op_type |-> "AddMessage", session_version |-> version, message_id |-> m1,
   block_ids |-> <<b1>>]
Cancel == [op_type |-> "CancelTransaction", session_version |-> 1]

Sent(message_id, op_id, op) ==
  [message_id |-> message_id, envelope_error |-> "none",
   parent_action_id |-> pa1, session_version |-> op.session_version,
   op_id |-> op_id, op_parent_action_id |-> pa1, op_error |-> "none",
   op_priority |-> NoLane, op |-> op,
   options |-> "none", transaction_type |-> NoType]

(***************************************************************************)
(* The stream; chunk 1 resent under new ids; the operation of a sent       *)
(* message under a new message id, and a new operation under a sent one;   *)
(* the message announced twice; cancellations with and without a range,    *)
(* one of them resent under a new message id;                              *)
(* an envelope and an operation that are broken, and two envelopes that    *)
(* disagree with their operation.                                          *)
(***************************************************************************)
MCInput ==
  { Sent(e1, o1, Chunk1), Sent(e2, o2, Chunk2), Sent(e3, o3, Seal),
    Sent(e4, o4, Message(0)), Sent(e5, o5, Patch), Sent(e6, o6, Chunk1),
    Sent(e7, o1, Chunk1), Sent(e1, o6, Message(1)), Sent(e7, o6, Message(1)),
    Sent(e8, o6, Cancel),
    [Sent(e8, o6, Cancel) EXCEPT !.options = "visible-range"],
    [Sent(e7, o6, Cancel) EXCEPT !.options = "visible-range"],
    [Sent(e8, o2, Chunk2) EXCEPT !.op_priority = "background-indexing",
                                 !.transaction_type = "visible-projection"],
    [Sent(e8, o2, Chunk2) EXCEPT !.options = "invalid"],
    [Sent(e8, o2, Chunk2) EXCEPT
       !.envelope_error = "ProtocolVersionUnsupported"],
    [Sent(e8, o2, Chunk2) EXCEPT !.op_error = "InvalidChecksum"],
    [Sent(e8, o2, Chunk2) EXCEPT !.op_parent_action_id = pa2],
    [Sent(e8, o2, Chunk2) EXCEPT !.session_version = 0] }

\* Idle, and as many pending transactions as the limit allows.
MCSnapshot ==
  { [pending_transactions |-> n, pending_bytes |-> 0,
     largest_pending_projection_bytes |-> 0,
     uncommitted_projection_count |-> 0] : n \in {0, 1} }

MCLimits ==
  [max_pending_transactions |-> 1, max_pending_bytes |-> 1,
   max_projection_result_bytes |-> 1, max_uncommitted_projection_count |-> 1]

\* A fresh projection of version 0: stale from version 1 on.
MCProjection ==
  { [form |-> "ok", session_version |-> 0, blocks |-> <<b1>>, range |-> {b1},
     bytes |-> 1, checksum |-> TRUE, stale_status |-> "fresh"] }

MCBounds ==
  [max_blocks |-> 1, max_result_bytes |-> 1, require_checksum |-> TRUE,
   allow_stale_compatible |-> FALSE]
=============================================================================
