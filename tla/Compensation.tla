----------------------------- MODULE Compensation -----------------------------
(***************************************************************************)
(* Making up for a missed session, on top of the absence table:            *)
(*   POST  /compensation-requests               create_compensation_request *)
(*   PATCH /compensation-requests/{id}/approve  approve_compensation_request *)
(*   PATCH /compensation-requests/{id}/reject   reject_compensation_request *)
(*   POST  /sessions/{id}/students              add_student_to_session      *)
(* and, from Attendance, the scan that cashes an approved request in.      *)
(*                                                                         *)
(* As there, a request reads (Start), then writes and commits (Commit).  *)
(* The INSERT into session_students is sent before the status is flushed   *)
(* and holds its key until the commit, so the two are one step, which      *)
(* fails when the key was inserted after the handler looked for it.        *)
(***************************************************************************)
EXTENDS Attendance

CONSTANT
    Offers  \* bound: the pairs <<session, missed session>> students submit

ASSUME OffersAssumption == Offers \subseteq Sessions \X (Sessions \cup {NULL})

RequestTx == [op : {"request"}, session : Sessions, student : Students,
              original : Sessions \cup {NULL}]
DecideTx == [op : {"approve", "reject"}, request : RequestIds,
             linked : BOOLEAN]
LinkTx == [op : {"link"}, session : Sessions, student : Students]

CompensationTx == RequestTx \cup DecideTx \cup LinkTx

ASSUME IdleAssumption == Idle \notin CompensationTx

Missed(s, m) == \E i \in RowsOf(s, m) : absences[i].absent

Pending(s, m) ==
    {r \in RequestIds : /\ requests[r] # Free
                        /\ requests[r].session = s
                        /\ requests[r].student = m
                        /\ requests[r].status = "PENDING"}

\* Mutant: the columns of session_students are swapped.
KeySwapped(r) == <<requests[r].student, requests[r].session>>

KeyOf(r) == <<requests[r].session, requests[r].student>>

\* Bound: a request is submitted while there is an id for it.
RequestIdsLeft ==
    Cardinality({r \in RequestIds : requests[r] = Free})
        > Cardinality(Serving("request"))

\* The commit of a handler of this module: requests and roster are written.
FinishWith(w, op, s, m) ==
    /\ tx' = [tx EXCEPT ![w] = Idle]
    /\ answer' = Reply(op, s, m, NULL)
    /\ UNCHANGED <<absences, corrections, freeWindow>>
-----------------------------------------------------------------------------
(* The student asks to attend s instead of o, or instead of none.          *)

RequestStart(w, s, o, m) ==
    /\ <<s, o>> \in Offers
    /\ RequestIdsLeft
    /\ <<s, m>> \in InGroup => Missed(s, m)
    /\ o # NULL => Missed(o, m)
    /\ Pending(s, m) = {}
    /\ Begin(w, "request", [op |-> "request", session |-> s, student |-> m,
                            original |-> o])

RequestCommit(w) ==
    LET t == tx[w] IN
    /\ tx[w] # Idle /\ t.op = "request"
    /\ \E r \in RequestIds :
        /\ requests[r] = Free
        /\ requests' = [requests EXCEPT ![r] =
                [session |-> t.session, student |-> t.student,
                 original |-> t.original, status |-> "PENDING"]]
    /\ UNCHANGED roster
    /\ FinishWith(w, "request", t.session, t.student)

(* The owner of the session decides.                                       *)

DecideStart(w, u, r, op) ==
    /\ op \in {"approve", "reject"}
    /\ requests[r] # Free
    /\ u = Owner[requests[r].session]
    /\ requests[r].status = "PENDING"
    /\ Begin(w, op, [op |-> op, request |-> r, linked |-> KeyOf(r) \in roster])

\* The status is written whatever it has become since it was read.
Decide(r, status) ==
    requests' = [requests EXCEPT ![r].status = status]

\* Mutant: the student is not linked.
ApproveUnlinked(w) ==
    LET r == tx[w].request IN
    /\ tx[w].linked \/ KeyOf(r) \notin roster
    /\ Decide(r, "APPROVED")
    /\ UNCHANGED roster
    /\ FinishWith(w, "approve", requests[r].session, requests[r].student)

ApproveStore(w) ==
    LET r == tx[w].request IN
    /\ tx[w].linked \/ KeyOf(r) \notin roster
    /\ Decide(r, "APPROVED")
    /\ roster' = roster \cup {KeyOf(r)}
    /\ FinishWith(w, "approve", requests[r].session, requests[r].student)

\* The student was linked meanwhile: IntegrityError, nothing is kept.
ApproveFail(w) ==
    LET r == tx[w].request IN
    /\ ~tx[w].linked /\ KeyOf(r) \in roster
    /\ Abort(w, requests[r].session, requests[r].student)

ApproveCommit(w) ==
    /\ tx[w] # Idle /\ tx[w].op = "approve"
    /\ ApproveStore(w) \/ ApproveFail(w)

RejectCommit(w) ==
    /\ tx[w] # Idle /\ tx[w].op = "reject"
    /\ LET r == tx[w].request IN
       /\ Decide(r, "REJECTED")
       /\ FinishWith(w, "reject", requests[r].session, requests[r].student)
    /\ UNCHANGED roster

(* The owner links a student to the session without any request.           *)

LinkStart(w, u, s, m) ==
    /\ u = Owner[s]
    /\ <<s, m>> \notin roster
    /\ Begin(w, "link", [op |-> "link", session |-> s, student |-> m])

LinkStore(w) ==
    LET t == tx[w] IN
    /\ <<t.session, t.student>> \notin roster
    /\ roster' = roster \cup {<<t.session, t.student>>}
    /\ UNCHANGED requests
    /\ FinishWith(w, "link", t.session, t.student)

LinkFail(w) ==
    LET t == tx[w] IN
    /\ <<t.session, t.student>> \in roster
    /\ Abort(w, t.session, t.student)

LinkCommit(w) ==
    /\ tx[w] # Idle /\ tx[w].op = "link"
    /\ LinkStore(w) \/ LinkFail(w)
-----------------------------------------------------------------------------
CompensationTypeOK ==
    /\ TablesTypeOK
    /\ tx \in [Workers -> AttendanceTx \cup CompensationTx \cup {Idle}]

CompensationStart(w) ==
    \/ \E k \in Offers, m \in Students : RequestStart(w, k[1], k[2], m)
    \/ \E u \in Teachers, r \in RequestIds, op \in {"approve", "reject"} :
            DecideStart(w, u, r, op)
    \/ \E u \in Teachers, s \in Sessions, m \in Students : LinkStart(w, u, s, m)

CompensationAdvance(w) ==
    RequestCommit(w) \/ ApproveCommit(w) \/ RejectCommit(w) \/ LinkCommit(w)

CompensationNext ==
    \/ Next
    \/ \E w \in Workers : CompensationStart(w) \/ CompensationAdvance(w)

CompensationSpec ==
    /\ Init /\ [][CompensationNext]_vars
    /\ \A w \in Workers : WF_vars(Advance(w) \/ CompensationAdvance(w))
-----------------------------------------------------------------------------
(* Properties.                                                             *)

\* An approved request has put its student on the session's roster, so that
\* the scan accepts them: the status is never committed without the link,
\* even when another request links the same student at the same time.
ApprovedIsOnRoster ==
    \A r \in RequestIds :
        requests[r] # Free /\ requests[r].status = "APPROVED" =>
            KeyOf(r) \in roster

\* A missed session is struck out only for a request that a teacher decided on
\* and whose student is linked to the session attended, and in a step that
\* leaves the student a row there instead.  The request is approved when the
\* scan looks it up; a rejection that overlapped the approval may overwrite it
\* before the scan commits.
TradedForApproval ==
    [][\A i \in AbsenceIds :
        AbsenceIsLive(i) /\ ~AbsenceIsLive(i)' =>
            \E r \in RequestIds :
                /\ requests[r] # Free
                /\ requests[r].status # "PENDING"
                /\ KeyOf(r) \in roster
                /\ requests[r].original = absences[i].session
                /\ requests[r].student = absences[i].student
                /\ RowsOf(requests[r].session, requests[r].student)' # {}]_vars

\* A student who is enrolled and scans a valid code is marked present: the
\* request does not fail.  A second approval breaks it (README, section 3).
ScanSucceeds ==
    answer # NoAnswer /\ answer.op = "scan" => answer.ok
=============================================================================
