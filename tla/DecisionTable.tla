---------------------------- MODULE DecisionTable ----------------------------
(***************************************************************************)
(* The policies of the runtime core are sequences of early returns: checks *)
(* made in a fixed order, each with the answer that is given when it is    *)
(* the first to fail.  A table is a sequence of records with a field       *)
(* passed; the other fields are the answer.                                *)
(***************************************************************************)
EXTENDS Integers, Sequences

AllPass(table) == \A i \in 1 .. Len(table) : table[i].passed

FirstFailure(table) ==
  table[CHOOSE i \in 1 .. Len(table) :
          /\ ~table[i].passed
          /\ \A j \in 1 .. i - 1 : table[j].passed]
=============================================================================
