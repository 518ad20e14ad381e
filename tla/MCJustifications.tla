--------------------------- MODULE MCJustifications ---------------------------
(* Instances of Justifications for TLC: one student, sessions on two days.  *)
EXTENDS Justifications, TLC

CONSTANTS s1, s2

MCDay == [s \in Sessions |-> IF s = s1 THEN 1 ELSE 2]
MCInGroup == Sessions \X Students

Interchangeable ==
    Permutations(Workers) \cup Permutations(Items) \cup Permutations(Files)
=============================================================================
