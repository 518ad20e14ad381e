----------------------------- MODULE MCThresholds -----------------------------
(* Instances of Thresholds for TLC: the thresholds 3 and 5 become 1 and 2, so *)
(* that two sessions reach both.                                             *)
EXTENDS Thresholds, TLC

MCDefault == [warning |-> 1, max |-> 2]
MCOffered == {[warning |-> 1, max |-> 2], [warning |-> 1, max |-> 3],
              [warning |-> 2, max |-> 2], [warning |-> 2, max |-> 3]}

Interchangeable ==
    Permutations(Workers) \cup Permutations(Sessions) \cup Permutations(Notes)
=============================================================================
