---------------------------- MODULE MCAttendance ----------------------------
(* Instances of Attendance for TLC.                                        *)
EXTENDS Attendance, TLC

CONSTANTS m1, t1, s1, s2, r1, a1

MCOwner == [s \in Sessions |-> t1]
MCInGroup == {<<s1, m>> : m \in Students}

\* No absence recorded yet, no compensation request.
NoAbsence == [i \in AbsenceIds |-> Free]
NoRequest == [r \in RequestIds |-> Free]

\* m1 missed s1 and was allowed to make up for it in s2.
OneAbsence ==
    [NoAbsence EXCEPT ![a1] =
        [session |-> s1, student |-> m1, absent |-> TRUE]]
ApprovedRequest ==
    [NoRequest EXCEPT ![r1] =
        [session |-> s2, student |-> m1, original |-> s1,
         status |-> "APPROVED"]]

\* Row ids are fresh UUIDs and workers are alike.
Interchangeable ==
    Permutations(Workers) \cup Permutations(AbsenceIds \ {a1})
        \cup Permutations(CorrectionIds)
=============================================================================
