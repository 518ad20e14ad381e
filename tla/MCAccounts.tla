------------------------------ MODULE MCAccounts ------------------------------
(* One administrator at first, and two more to enter; students entered with  *)
(* one email and two matricules, while the file gives the second an email of *)
(* its own; a teacher's email that others may claim as well.                 *)
EXTENDS Accounts, TLC

CONSTANTS e1, e2, e3, k1, k2, g1, g2

Admin(e, level) == [role |-> "admin", email |-> e, key |-> NULL,
                    group |-> NULL, level |-> level, active |-> TRUE]
Teacher(e, k) == [role |-> "teacher", email |-> e, key |-> k,
                  group |-> NULL, level |-> NULL, active |-> TRUE]
MCExisting == (1 :> Admin(e3, "regular"))
Student(e, k, g) == [email |-> e, key |-> k, group |-> g]
MCStudents == {Student(e1, k1, g1), Student(e1, k2, g1)}
MCStaff == {Admin(e1, "regular"), Admin(e2, "regular"), Teacher(e2, k1)}
MCStudentFiles == {{Student(e1, k1, g2), Student(e2, k2, g1)}}
MCTeacherFiles == {{[email |-> e1, key |-> k1]}}

Symmetry == Permutations(Workers)
=============================================================================
