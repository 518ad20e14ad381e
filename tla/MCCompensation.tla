--------------------------- MODULE MCCompensation ---------------------------
(* Instances of Compensation for TLC.                                      *)
EXTENDS Compensation, TLC

CONSTANTS m1, t1, s1, s2, a1

MCOwner == [s \in Sessions |-> t1]
MCInGroup == {<<s1, m>> : m \in Students}

NoRequest == [r \in RequestIds |-> Free]

\* m1 missed s1, a session of its own group; s2 is another group's.
OneAbsence ==
    [i \in AbsenceIds |->
        IF i = a1 THEN [session |-> s1, student |-> m1, absent |-> TRUE]
                  ELSE Free]

\* s2 instead of s1, or for no missed session in particular.
Elsewhere == {<<s2, s1>>, <<s2, NULL>>}

\* available-sessions lists the session of the student's own group too.
OwnSession == {<<s1, s1>>, <<s2, s1>>}

Interchangeable ==
    Permutations(Workers) \cup Permutations(AbsenceIds \ {a1})
        \cup Permutations(RequestIds) \cup Permutations(CorrectionIds)
=============================================================================
