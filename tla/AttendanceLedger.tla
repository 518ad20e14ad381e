--------------------------- MODULE AttendanceLedger ---------------------------
(***************************************************************************)
(* What the absence table promises to whoever reads it, with no request,   *)
(* row id or transaction in sight: one entry per student and session.      *)
(*                                                                         *)
(* Entries are written for one session at a time, and an entry is lost in  *)
(* one way only: it is traded, in a single step, for an entry of the same  *)
(* student in another session, the one that made up for it.                *)
(***************************************************************************)
CONSTANTS Sessions, Students

VARIABLE ledger

Marks == {"present", "absent"}

TypeOK == ledger \in [Sessions \X Students -> Marks \cup {"none"}]

Init == TypeOK

\* Students of one session are marked; no entry of the session is lost.
Mark(s) ==
    /\ ledger' \in [Sessions \X Students -> Marks \cup {"none"}]
    /\ \A k \in Sessions \X Students :
            /\ k[1] # s => ledger'[k] = ledger[k]
            /\ ledger[k] # "none" => ledger'[k] # "none"

\* Student m's entry in session o is given up for one in session s.
Trade(s, o, m) ==
    /\ s # o
    /\ ledger[<<o, m>>] # "none"
    /\ \E v \in Marks :
        ledger' = [ledger EXCEPT ![<<o, m>>] = "none", ![<<s, m>>] = v]

Next ==
    \/ \E s \in Sessions : Mark(s)
    \/ \E s, o \in Sessions, m \in Students : Trade(s, o, m)

Spec == Init /\ [][Next]_ledger
=============================================================================
