------------------------------ MODULE MCTimetable ------------------------------
(***************************************************************************)
(* One subject: a lecture on Sundays for a whole section, whose key has    *)
(* null columns and may repeat, and a tutorial on Mondays for the group    *)
(* g1, whose plan is there already.  Day 7 is a Monday.                    *)
(***************************************************************************)
EXTENDS Timetable, TLC

CONSTANTS t1, t2, lecture, tutorial, g1, g2, r1, w1, w2

MCDayOf == (tutorial :> "Lundi") @@ (lecture :> "Dimanche")
MCSubjectOf == (tutorial :> "MATH") @@ (lecture :> "MATH")
MCGroupOf == (tutorial :> g1) @@ (lecture :> NULL)
MCLegacy == {[id |-> 1, course |-> tutorial, teachers |-> {t1},
              room |-> r1]}
Row(c, us, r) == [course |-> c, teachers |-> us, room |-> r]
MCFiles == {<<Row(lecture, {t1}, r1), Row(tutorial, {t2}, r1)>>,
            <<Row(lecture, {t2}, NULL)>>}

Symmetry == Permutations(Workers)
=============================================================================
