------------------------------ MODULE CdpCalls ------------------------------
(***************************************************************************)
(* What a capture may count on when it talks to Chrome: a call made while  *)
(* the connection is up is settled, at the latest when the connection goes *)
(* down; a call made afterwards is lost; whoever waits for an event is     *)
(* woken in turn, and only while the connection is up.                     *)
(***************************************************************************)
EXTENDS Naturals, Sequences

CONSTANTS Method, MaxCalls, MaxWaits

VARIABLES
  up,    \* the connection has not been seen to close
  call,  \* the fate of every call so far
  wait   \* the waits so far, each for an event of a method

callsVars == <<up, call, wait>>

CallsInit == up = TRUE /\ call = <<>> /\ wait = <<>>

Ask ==
  /\ Len(call) < MaxCalls
  /\ call' = Append(call, IF up THEN "pending" ELSE "lost")
  /\ UNCHANGED <<up, wait>>

Settle(i, fate) ==
  /\ up /\ call[i] = "pending"
  /\ call' = [call EXCEPT ![i] = fate]
  /\ UNCHANGED <<up, wait>>

Await(m) ==
  /\ Len(wait) < MaxWaits
  /\ wait' = Append(wait, [method |-> m, woken |-> FALSE])
  /\ UNCHANGED <<up, call>>

Wake(i) ==
  /\ up /\ ~wait[i].woken
  /\ \A j \in 1 .. i - 1 : wait[j].method = wait[i].method => wait[j].woken
  /\ wait' = [wait EXCEPT ![i].woken = TRUE]
  /\ UNCHANGED <<up, call>>

Down ==
  /\ up
  /\ up' = FALSE
  /\ call' = [i \in DOMAIN call |->
                IF call[i] = "pending" THEN "rejected" ELSE call[i]]
  /\ UNCHANGED wait

CallsNext ==
  \/ Ask
  \/ \E i \in DOMAIN call, fate \in {"resolved", "rejected"} : Settle(i, fate)
  \/ \E m \in Method : Await(m)
  \/ \E i \in DOMAIN wait : Wake(i)
  \/ Down

CallsSpec == CallsInit /\ [][CallsNext]_callsVars
=============================================================================
