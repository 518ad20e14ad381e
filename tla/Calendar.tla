------------------------------- MODULE Calendar -------------------------------
(***************************************************************************)
(* What a timetable promises its readers, without requests, row ids or     *)
(* transactions: a set of classes <<plan, teacher, date>> with one entry   *)
(* each.  Classes are added, and one class may pass to another teacher who *)
(* does not hold that class yet.  No class is ever dropped, moved to       *)
(* another day, merged with another one, or entered twice.                 *)
(***************************************************************************)
EXTENDS Naturals, FiniteSets

VARIABLES
    classes,  \* the classes that are given
    entries   \* how many entries readers count

Init == classes = {} /\ entries = 0

Schedule ==
    /\ classes \subseteq classes'
    /\ entries' = entries + Cardinality(classes' \ classes)

\* A class changes hands: one goes, one comes, of the same plan and date.
Pass ==
    /\ \E c \in classes : \E d \in classes' \ classes :
        /\ d[1] = c[1] /\ d[3] = c[3]
        /\ classes' = (classes \ {c}) \cup {d}
    /\ UNCHANGED entries

Next == Schedule \/ Pass

Spec == Init /\ [][Next]_<<classes, entries>>
=============================================================================
