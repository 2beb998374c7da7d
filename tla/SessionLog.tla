----------------------------- MODULE SessionLog -----------------------------
(***************************************************************************)
(* What the core engine promises about a session, without its policies: an *)
(* append-only log in which each message and each operation takes effect   *)
(* at most once, and no entry is older than the one before it.             *)
(***************************************************************************)
EXTENDS Integers, Sequences

CONSTANTS EnvelopeId, OpId, Versions

VARIABLE log

Entry == [message_id : EnvelopeId, op_id : OpId, session_version : Versions]

Init == log = <<>>

TakeEffect(e) ==
  /\ \A i \in 1 .. Len(log) :
       /\ log[i].message_id # e.message_id
       /\ log[i].op_id # e.op_id
       /\ log[i].session_version <= e.session_version
  /\ log' = Append(log, e)

Next == \E e \in Entry : TakeEffect(e)

Spec == Init /\ [][Next]_log
=============================================================================
