------------------------------ MODULE Attendance ------------------------------
(***************************************************************************)
(* The absence table and every request handler that writes it:             *)
(*   POST  /absences                    upsert_absence                     *)
(*   PUT   /sessions/{id}/attendance    submit_session_attendance          *)
(*   POST  /attendance/mark-present     mark_present (QR scan)             *)
(*   POST  /absences/corrections        request_correction                 *)
(*   PATCH /absences/corrections/{id}   review_correction                  *)
(*                                                                         *)
(* A request is served by a worker.  It reads committed rows first (Tap,   *)
(* Bulk, Scan, ...), keeps them in its ORM session, and writes later (the  *)
(* ...Commit actions).  PostgreSQL runs READ COMMITTED and nothing here    *)
(* takes a lock when it reads, so the rows may have changed in between.    *)
(* The row locks of a flush are held until the commit, so a flush and its  *)
(* commit are one step; the only write that is visible to others before    *)
(* the commit is the INSERT of a scan's savepoint, which blocks every      *)
(* other INSERT of the same key (Reserved).                                *)
(*                                                                         *)
(* An ORM UPDATE writes the columns whose value differs from the loaded    *)
(* one.  synced_at differs in every upsert, so the UPDATE itself is always *)
(* issued there and fails when the row has gone (StaleDataError).          *)
(* Columns no property reads (participation, recorded_by, synced_at,       *)
(* source) are left out.                                                   *)
(***************************************************************************)
EXTENDS FiniteSets, Naturals

CONSTANTS
    Workers,        \* requests served at the same time
    Sessions, Students, Teachers,
    Owner,          \* Owner[s]: the teacher of session s
    InGroup,        \* <<s, m>>: student m is in one of the groups of s
    AbsenceIds,     \* bound: rows of the absence table ever inserted
    CorrectionIds,  \* bound: correction rows ever inserted
    RequestIds,     \* bound: compensation requests ever submitted
    Ops,            \* the handlers an instance exercises
    InitialAbsences, InitialRequests,   \* what the tables hold at the start
    Free, Gone,     \* a row not inserted yet, a row deleted
    NULL, Idle, NoAnswer

\* The handlers of this module and of Compensation.
Handlers == {"tap", "bulk", "scan", "correct", "review",
             "request", "approve", "reject", "link"}

ASSUME OpsAssumption == Ops \subseteq Handlers

VARIABLES
    absences,       \* the absence table, by row id
    corrections,    \* the correction table, by row id
    requests,       \* the compensation requests, by row id
    roster,         \* session_students: students linked to a session directly
    freeWindow,     \* sessions that ended less than 15 minutes ago, or not yet
    tx,             \* what each worker's request has read so far
    answer          \* the response sent by the last step, if it sent one

vars == <<absences, corrections, requests, roster, freeWindow, tx, answer>>

CorrectionStatus == {"PENDING", "APPROVED", "REJECTED"}

AbsenceRow == [session : Sessions, student : Students, absent : BOOLEAN]
CorrectionRow == [absence : AbsenceIds, original : BOOLEAN, new : BOOLEAN,
                  status : CorrectionStatus]
RequestRow == [session : Sessions, student : Students,
               original : Sessions \cup {NULL}, status : CorrectionStatus]

\* The part of a row a request keeps after reading it.
Snapshot == [id : AbsenceIds, absent : BOOLEAN]

TapTx == [op : {"tap"}, session : Sessions, student : Students,
          absent : BOOLEAN, row : Snapshot \cup {NULL}]
BulkTx == [op : {"bulk"}, session : Sessions, class : SUBSET Students,
           absent : SUBSET Students,
           row : [Students -> Snapshot \cup {NULL}]]
ScanTx == [op : {"scan"}, phase : {"read", "upserted", "looked"},
           session : Sessions, student : Students,
           row : Snapshot \cup {NULL},
           original : AbsenceIds \cup {NULL}]
CorrectTx == [op : {"correct"}, row : Snapshot, new : BOOLEAN,
              inWindow : BOOLEAN]
ReviewTx == [op : {"review"}, correction : CorrectionIds,
             decision : CorrectionStatus, new : BOOLEAN,
             row : Snapshot]
AttendanceTx == TapTx \cup BulkTx \cup ScanTx \cup CorrectTx \cup ReviewTx

Answer == [op : Handlers, ok : BOOLEAN, session : Sessions \cup {NULL},
           student : Students \cup {NULL}, absent : BOOLEAN \cup {NULL}]

AbsenceIsLive(i) == absences[i] \notin {Free, Gone}

RowsOf(s, m) ==
    {i \in AbsenceIds : /\ AbsenceIsLive(i)
                        /\ absences[i].session = s
                        /\ absences[i].student = m}

\* The marks are not rows, snapshots, row ids, requests in flight or answers.
ASSUME MarksAssumption ==
    /\ Free # Gone
    /\ Free \notin AbsenceRow /\ Gone \notin AbsenceRow
    /\ Free \notin CorrectionRow /\ Gone \notin CorrectionRow
    /\ Free \notin RequestRow
    /\ NULL \notin Snapshot \cup AbsenceIds
    /\ Idle \notin AttendanceTx
    /\ NoAnswer \notin Answer

\* What select(Absence).where(session_id, student_matricule) returns.
Load(s, m) ==
    IF RowsOf(s, m) = {} THEN NULL
    ELSE LET i == CHOOSE i \in RowsOf(s, m) : TRUE
         IN  [id |-> i, absent |-> absences[i].absent]

\* The scan served by w inserted the key in its savepoint and has not
\* committed yet.
HoldsKey(w, s, m) ==
    /\ tx[w] # Idle
    /\ tx[w].op = "scan"
    /\ tx[w].phase # "read"
    /\ tx[w].row = NULL
    /\ tx[w].session = s
    /\ tx[w].student = m

Reserved(s, m) == \E w \in Workers : HoldsKey(w, s, m)

\* Mutant: the table has no unique constraint.
ConflictUnseen(s, m) == FALSE

\* An INSERT that meets the unique constraint on (session, student).
Conflict(s, m) == RowsOf(s, m) # {}

Enrolled(s, m) == <<s, m>> \in InGroup \cup roster

\* The value is_absent has after an ORM UPDATE: the column is written only if
\* it differs from the value the request loaded.
Merged(row, new) ==
    IF new # row.absent THEN new ELSE absences[row.id].absent

\* Mutant: the foreign key has no ON DELETE CASCADE.
CascadeNone(D) == corrections

\* The corrections left when the rows of D are deleted: ON DELETE CASCADE.
Cascade(D) ==
    [c \in CorrectionIds |->
        IF corrections[c] \notin {Free, Gone} /\ corrections[c].absence \in D
        THEN Gone ELSE corrections[c]]

Reply(op, s, m, a) ==
    [op |-> op, ok |-> TRUE, session |-> s, student |-> m, absent |-> a]
Failure(op, s, m) ==
    [op |-> op, ok |-> FALSE, session |-> s, student |-> m, absent |-> NULL]

\* A request begins: it holds no lock and has answered nothing.
Begin(w, op, t) ==
    /\ op \in Ops
    /\ tx[w] = Idle
    /\ tx' = [tx EXCEPT ![w] = t]
    /\ answer' = NoAnswer
    /\ UNCHANGED <<absences, corrections, requests, roster, freeWindow>>

\* get_db commits, the response follows.
Finish(w, a) ==
    /\ tx' = [tx EXCEPT ![w] = Idle]
    /\ answer' = a
    /\ UNCHANGED <<requests, roster, freeWindow>>

\* Mutant: nothing is rolled back, the transaction stays open.
AbortLeftOpen(w, s, m) ==
    /\ answer' = Failure(tx[w].op, s, m)
    /\ UNCHANGED <<absences, corrections, requests, roster, freeWindow, tx>>

\* An exception reaches get_db: everything is rolled back.
Abort(w, s, m) ==
    /\ tx' = [tx EXCEPT ![w] = Idle]
    /\ answer' = Failure(tx[w].op, s, m)
    /\ UNCHANGED <<absences, corrections, requests, roster, freeWindow>>

Serving(op) == {w \in Workers : tx[w] # Idle /\ tx[w].op = op}

\* Bound: a scan, the only request that may delete a row, starts while there
\* is an id for every key without a row and for every row that may go.
RowIdsLeft ==
    Cardinality({i \in AbsenceIds : absences[i] = Free})
        > Cardinality({k \in Sessions \X Students : RowsOf(k[1], k[2]) = {}})
            + Cardinality(Serving("scan"))

\* Bound: a correction is requested while there is an id for it.
CorrectionIdsLeft ==
    Cardinality({c \in CorrectionIds : corrections[c] = Free})
        > Cardinality(Serving("correct"))
-----------------------------------------------------------------------------
(* POST /absences: no ownership, enrolment or conflict handling.           *)

TapStart(w, s, m, v) ==
    Begin(w, "tap", [op |-> "tap", session |-> s, student |-> m,
                     absent |-> v, row |-> Load(s, m)])

TapInsert(w, i) ==
    LET t == tx[w] IN
    /\ t.row = NULL
    /\ ~Reserved(t.session, t.student)
    /\ ~Conflict(t.session, t.student)
    /\ absences[i] = Free
    /\ absences' = [absences EXCEPT ![i] =
                        [session |-> t.session, student |-> t.student,
                         absent |-> t.absent]]
    /\ Finish(w, Reply("tap", t.session, t.student, t.absent))
    /\ UNCHANGED corrections

\* Mutant: the answer echoes the body, the row is not refreshed.
TapUpdateEchoed(w) ==
    LET t == tx[w] IN
    /\ t.row # NULL
    /\ AbsenceIsLive(t.row.id)
    /\ absences' = [absences EXCEPT ![t.row.id].absent =
                        Merged(t.row, t.absent)]
    /\ Finish(w, Reply("tap", t.session, t.student, t.absent))
    /\ UNCHANGED corrections

\* Mutant: the row is written back whole, deleted or not.
TapUpdateWhole(w) ==
    LET t == tx[w] IN
    /\ t.row # NULL
    /\ absences' = [absences EXCEPT ![t.row.id] =
                        [session |-> t.session, student |-> t.student,
                         absent |-> t.absent]]
    /\ Finish(w, Reply("tap", t.session, t.student, t.absent))
    /\ UNCHANGED corrections

\* db.refresh re-reads the row after the UPDATE: the answer is what is stored.
TapUpdate(w) ==
    LET t == tx[w] IN
    /\ t.row # NULL
    /\ AbsenceIsLive(t.row.id)
    /\ absences' = [absences EXCEPT ![t.row.id].absent =
                        Merged(t.row, t.absent)]
    /\ Finish(w, Reply("tap", t.session, t.student, Merged(t.row, t.absent)))
    /\ UNCHANGED corrections

TapFail(w) ==
    LET t == tx[w] IN
    /\ \/ t.row = NULL /\ Conflict(t.session, t.student)
                       /\ ~Reserved(t.session, t.student)
       \/ t.row # NULL /\ ~AbsenceIsLive(t.row.id)
    /\ Abort(w, t.session, t.student)

TapCommit(w) ==
    /\ tx[w] # Idle /\ tx[w].op = "tap"
    /\ TapUpdate(w) \/ TapFail(w) \/ \E i \in AbsenceIds : TapInsert(w, i)
-----------------------------------------------------------------------------
(* PUT /sessions/{id}/attendance: the owner submits the sheet of a class.   *)
(* A student appears at most once in a sheet.                              *)

BulkStart(w, u, s, class, away) ==
    /\ u = Owner[s]
    /\ Begin(w, "bulk", [op |-> "bulk", session |-> s, class |-> class,
                         absent |-> away,
                         row |-> [m \in Students |->
                                    IF m \in class THEN Load(s, m) ELSE NULL]])

\* The students of the sheet whose row is new, and those who had one.
NewIn(t) == {m \in t.class : t.row[m] = NULL}
KnownIn(t) == t.class \ NewIn(t)
StillIn(t) == {m \in KnownIn(t) : AbsenceIsLive(t.row[m].id)}

\* f names the row id of every student of the sheet.  An UPDATE of one row
\* raises when the row has gone.  Several that write the same columns are sent
\* at once, and then the driver reports no count: a row that has gone is
\* skipped.
BulkStore(w, f) ==
    LET t == tx[w] IN
    /\ \A m \in NewIn(t) : /\ ~Reserved(t.session, m)
                           /\ ~Conflict(t.session, m)
                           /\ absences[f[m]] = Free
    /\ \A m \in KnownIn(t) : f[m] = t.row[m].id
    /\ StillIn(t) = KnownIn(t) \/ Cardinality(KnownIn(t)) > 1
    /\ \A m, n \in NewIn(t) : f[m] = f[n] => m = n
    /\ absences' =
        [i \in AbsenceIds |->
            IF \E m \in NewIn(t) : f[m] = i
            THEN LET m == CHOOSE m \in NewIn(t) : f[m] = i
                 IN  [session |-> t.session, student |-> m,
                      absent |-> m \in t.absent]
            ELSE IF \E m \in StillIn(t) : f[m] = i
            THEN LET m == CHOOSE m \in StillIn(t) : f[m] = i
                 IN  [absences[i] EXCEPT !.absent =
                        Merged(t.row[m], m \in t.absent)]
            ELSE absences[i]]
    /\ Finish(w, Reply("bulk", t.session, NULL, NULL))
    /\ UNCHANGED corrections

BulkFail(w) ==
    LET t == tx[w] IN
    /\ \A m \in NewIn(t) : ~Reserved(t.session, m)
    /\ \/ \E m \in NewIn(t) : Conflict(t.session, m)
       \/ StillIn(t) # KnownIn(t)
    /\ Abort(w, t.session, NULL)

BulkCommit(w) ==
    /\ tx[w] # Idle /\ tx[w].op = "bulk"
    /\ BulkFail(w) \/ \E f \in [tx[w].class -> AbsenceIds] : BulkStore(w, f)
-----------------------------------------------------------------------------
(* POST /attendance/mark-present.  The nonce checks of step 1 are module    *)
(* QrNonce's; a scan starts here once they have passed.                     *)

ScanStart(w, s, m) ==
    /\ RowIdsLeft
    /\ Enrolled(s, m)
    /\ Begin(w, "scan", [op |-> "scan", phase |-> "read", session |-> s,
                         student |-> m, row |-> Load(s, m),
                         original |-> NULL])

\* Mutant: the request need not be for the scanned session.
CompensatingAnywhere(s, m) ==
    {r \in RequestIds : /\ requests[r] # Free
                        /\ requests[r].student = m
                        /\ requests[r].status = "APPROVED"
                        /\ requests[r].original # NULL}

\* Mutant: the request need not be approved.
CompensatingUndecided(s, m) ==
    {r \in RequestIds : /\ requests[r] # Free
                        /\ requests[r].session = s
                        /\ requests[r].student = m
                        /\ requests[r].original # NULL}

\* The student's approved requests for this session that name the one missed.
Compensating(s, m) ==
    {r \in RequestIds : /\ requests[r] # Free
                        /\ requests[r].session = s
                        /\ requests[r].student = m
                        /\ requests[r].status = "APPROVED"
                        /\ requests[r].original # NULL}

\* The original absence the scan is about to delete.
OriginalAbsence(s, m) ==
    IF Compensating(s, m) = {} THEN NULL
    ELSE LET r == CHOOSE r \in Compensating(s, m) : TRUE
             l == Load(requests[r].original, m)
         IN  IF l # NULL /\ l.absent THEN l.id ELSE NULL

\* The savepoint: a row found at the start, or inserted meanwhile by another
\* request (IntegrityError, then fetched again), is updated at the commit;
\* otherwise the key is inserted.
ScanUpsert(w) ==
    LET t == tx[w] IN
    /\ tx[w] # Idle /\ t.op = "scan" /\ t.phase = "read"
    /\ t.row = NULL => ~Reserved(t.session, t.student)
    /\ tx' = [tx EXCEPT
            ![w].phase = "upserted",
            ![w].row = IF t.row = NULL THEN Load(t.session, t.student)
                                       ELSE t.row]
    /\ answer' = NoAnswer
    /\ UNCHANGED <<absences, corrections, requests, roster, freeWindow>>

\* Then the compensation request is looked up, and the absence it makes up
\* for; scalar_one_or_none raises on several requests.
ScanLookup(w) ==
    LET t == tx[w] IN
    /\ tx[w] # Idle /\ t.op = "scan" /\ t.phase = "upserted"
    /\ \/ /\ Cardinality(Compensating(t.session, t.student)) > 1
          /\ Abort(w, t.session, t.student)
       \/ /\ Cardinality(Compensating(t.session, t.student)) <= 1
          /\ tx' = [tx EXCEPT
                ![w].phase = "looked",
                ![w].original = OriginalAbsence(t.session, t.student)]
          /\ answer' = NoAnswer
          /\ UNCHANGED <<absences, corrections, requests, roster, freeWindow>>

\* Mutant: the new row leaves is_absent unset.
CheckInUnset(t, i) ==
    IF t.row = NULL
    THEN [session |-> t.session, student |-> t.student, absent |-> NULL]
    ELSE [absences[i] EXCEPT !.absent = Merged(t.row, FALSE)]

\* The row of the scanned session after the flush.
CheckIn(t, i) ==
    IF t.row = NULL
    THEN [session |-> t.session, student |-> t.student, absent |-> FALSE]
    ELSE [absences[i] EXCEPT !.absent = Merged(t.row, FALSE)]

\* i: the row of the scanned session.  An absence the request named as its
\* original goes, whatever it holds by now, and its corrections go with it.
ScanStore(w, i) ==
    LET t == tx[w]
        D == {j \in AbsenceIds : j = t.original /\ AbsenceIsLive(j)}
    IN
    /\ IF t.row = NULL THEN absences[i] = Free
                       ELSE i = t.row.id /\ AbsenceIsLive(i)
    /\ absences' = [j \in AbsenceIds |->
                        IF j \in D THEN Gone
                        ELSE IF j = i THEN CheckIn(t, i)
                        ELSE absences[j]]
    /\ corrections' = Cascade(D)
    /\ Finish(w, Reply("scan", t.session, t.student, FALSE))

ScanFail(w) ==
    LET t == tx[w] IN
    /\ t.row # NULL /\ ~AbsenceIsLive(t.row.id)
    /\ t.row.id # t.original
    /\ Abort(w, t.session, t.student)

\* The row was to be deleted as its own original and has gone: no UPDATE.
ScanDeletedTwice(w) ==
    LET t == tx[w] IN
    /\ t.row # NULL /\ ~AbsenceIsLive(t.row.id)
    /\ t.row.id = t.original
    /\ Finish(w, Reply("scan", t.session, t.student, FALSE))
    /\ UNCHANGED <<absences, corrections>>

ScanCommit(w) ==
    /\ tx[w] # Idle /\ tx[w].op = "scan" /\ tx[w].phase = "looked"
    /\ \/ ScanFail(w)
       \/ ScanDeletedTwice(w)
       \/ \E i \in AbsenceIds : ScanStore(w, i)
-----------------------------------------------------------------------------
(* POST and PATCH /absences/corrections.                                    *)

CorrectStart(w, i, v) ==
    /\ CorrectionIdsLeft
    /\ AbsenceIsLive(i)
    /\ Begin(w, "correct",
             [op |-> "correct",
              row |-> [id |-> i, absent |-> absences[i].absent],
              new |-> v,
              inWindow |-> absences[i].session \in freeWindow])

\* In the free window the correction is approved and applied at once.
CorrectStore(w, c) ==
    LET t == tx[w] IN
    /\ AbsenceIsLive(t.row.id)
    /\ corrections[c] = Free
    /\ corrections' = [corrections EXCEPT ![c] =
            [absence |-> t.row.id, original |-> t.row.absent, new |-> t.new,
             status |-> IF t.inWindow THEN "APPROVED" ELSE "PENDING"]]
    /\ absences' = IF t.inWindow
                   THEN [absences EXCEPT ![t.row.id].absent =
                            Merged(t.row, t.new)]
                   ELSE absences
    /\ Finish(w, Reply("correct", NULL, NULL, NULL))

\* The foreign key of the correction has lost its row.
CorrectFail(w) == ~AbsenceIsLive(tx[w].row.id) /\ Abort(w, NULL, NULL)

CorrectCommit(w) ==
    /\ tx[w] # Idle /\ tx[w].op = "correct"
    /\ CorrectFail(w) \/ \E c \in CorrectionIds : CorrectStore(w, c)

CorrectionIsLive(c) == corrections[c] \notin {Free, Gone}

\* The decision is whatever status the body carries, PENDING included.
ReviewStart(w, c, d) ==
    /\ CorrectionIsLive(c)
    /\ corrections[c].status = "PENDING"
    /\ LET i == corrections[c].absence IN
       Begin(w, "review",
             [op |-> "review", correction |-> c, decision |-> d,
              new |-> corrections[c].new,
              row |-> [id |-> i, absent |-> absences[i].absent]])

ReviewStore(w) ==
    LET t == tx[w] IN
    /\ CorrectionIsLive(t.correction)
    /\ corrections' = IF t.decision = "PENDING" THEN corrections
                      ELSE [corrections EXCEPT ![t.correction].status =
                                t.decision]
    /\ absences' = IF t.decision = "APPROVED"
                   THEN [absences EXCEPT ![t.row.id].absent =
                            Merged(t.row, t.new)]
                   ELSE absences
    /\ Finish(w, Reply("review", NULL, NULL, NULL))

\* The correction went with its absence: its UPDATE finds no row.
ReviewFail(w) ==
    ~CorrectionIsLive(tx[w].correction) /\ Abort(w, NULL, NULL)

ReviewCommit(w) ==
    /\ tx[w] # Idle /\ tx[w].op = "review"
    /\ ReviewStore(w) \/ ReviewFail(w)

\* The clock passes 15 minutes after the end of s (only corrections look).
WindowCloses(s) ==
    /\ "correct" \in Ops
    /\ s \in freeWindow
    /\ freeWindow' = freeWindow \ {s}
    /\ answer' = NoAnswer
    /\ UNCHANGED <<absences, corrections, requests, roster, tx>>
-----------------------------------------------------------------------------
TxTypeOK == tx \in [Workers -> AttendanceTx \cup {Idle}]

TablesTypeOK ==
    /\ absences \in [AbsenceIds -> AbsenceRow \cup {Free, Gone}]
    /\ corrections \in [CorrectionIds -> CorrectionRow \cup {Free, Gone}]
    /\ requests \in [RequestIds -> RequestRow \cup {Free}]
    /\ roster \subseteq Sessions \X Students
    /\ freeWindow \subseteq Sessions
    /\ answer \in Answer \cup {NoAnswer}

\* Every table, request in flight and answer has its type.
TypeOK == TablesTypeOK /\ TxTypeOK

UniqueIn(table) ==
    \A i, j \in AbsenceIds :
        /\ table[i] \notin {Free, Gone} /\ table[j] \notin {Free, Gone}
        /\ table[i].session = table[j].session
        /\ table[i].student = table[j].student
        => i = j

ASSUME InitialAssumption ==
    /\ InitialAbsences \in [AbsenceIds -> AbsenceRow \cup {Free}]
    /\ UniqueIn(InitialAbsences)
    /\ InitialRequests \in [RequestIds -> RequestRow \cup {Free}]

Init ==
    /\ absences = InitialAbsences
    /\ corrections = [c \in CorrectionIds |-> Free]
    /\ requests = InitialRequests
    /\ roster = {k \in Sessions \X Students :
                    \E r \in RequestIds :
                        /\ requests[r] # Free
                        /\ requests[r].status = "APPROVED"
                        /\ k = <<requests[r].session, requests[r].student>>}
    /\ freeWindow = Sessions
    /\ tx = [w \in Workers |-> Idle]
    /\ answer = NoAnswer

Start(w) ==
    \/ \E s \in Sessions, m \in Students, v \in BOOLEAN : TapStart(w, s, m, v)
    \/ \E u \in Teachers, s \in Sessions, class \in (SUBSET Students) \ {{}} :
            \E away \in SUBSET class : BulkStart(w, u, s, class, away)
    \/ \E s \in Sessions, m \in Students : ScanStart(w, s, m)
    \/ \E i \in AbsenceIds, v \in BOOLEAN : CorrectStart(w, i, v)
    \/ \E c \in CorrectionIds, d \in CorrectionStatus : ReviewStart(w, c, d)

Advance(w) ==
    TapCommit(w) \/ BulkCommit(w) \/ ScanUpsert(w) \/ ScanLookup(w)
        \/ ScanCommit(w) \/ CorrectCommit(w) \/ ReviewCommit(w)

Next ==
    \/ \E w \in Workers : Start(w) \/ Advance(w)
    \/ \E s \in Sessions : WindowCloses(s)

\* A request that was started is carried on: the handlers are coroutines of
\* one event loop and every database wait ends when its holder commits.
Spec == Init /\ [][Next]_vars /\ \A w \in Workers : WF_vars(Advance(w))
-----------------------------------------------------------------------------
(* Properties.                                                             *)

\* At most one row per session and student, whatever taps, sheets and scans
\* race to insert it; and an uncommitted savepoint of a scan never competes
\* with a committed row or with another savepoint.
UniqueAbsence ==
    /\ UniqueIn(absences)
    /\ \A s \in Sessions, m \in Students :
            Reserved(s, m) => RowsOf(s, m) = {}
    /\ \A w, x \in Workers, s \in Sessions, m \in Students :
            HoldsKey(w, s, m) /\ HoldsKey(x, s, m) => w = x

\* A correction, pending or decided, always refers to a row that exists: a
\* scan that deletes an original absence takes its corrections with it, and a
\* correction requested while the row was being deleted is refused.  A review
\* in flight holds the row its correction refers to, while there is one.
CorrectionsHaveRows ==
    /\ \A c \in CorrectionIds :
            CorrectionIsLive(c) => AbsenceIsLive(corrections[c].absence)
    /\ \A w \in Workers :
            tx[w] # Idle /\ tx[w].op = "review" =>
                LET c == tx[w].correction IN
                /\ corrections[c] # Free
                /\ CorrectionIsLive(c) => tx[w].row.id = corrections[c].absence

\* upsert_absence answers with the value that is stored when it commits, even
\* when a concurrent request made the UPDATE skip the column.
TapAnswerIsStored ==
    answer # NoAnswer /\ answer.op = "tap" /\ answer.ok =>
        \E i \in RowsOf(answer.session, answer.student) :
            absences[i].absent = answer.absent

\* The response of mark_present says that the student is marked present: the
\* row it committed says so too.  A race breaks it (README, section 3).
ScanMarksPresent ==
    answer # NoAnswer /\ answer.op = "scan" /\ answer.ok =>
        \E i \in RowsOf(answer.session, answer.student) : ~absences[i].absent

\* A row that was deleted never comes back: a tap, sheet or correction that
\* loaded it before the deletion fails instead of writing it again.
NoResurrection ==
    [][\A i \in AbsenceIds : absences[i] = Gone => absences'[i] = Gone]_vars

\* The table as a reader sees it.
LedgerOf(table) ==
    [k \in Sessions \X Students |->
        IF \E i \in AbsenceIds : /\ table[i] \notin {Free, Gone}
                                 /\ table[i].session = k[1]
                                 /\ table[i].student = k[2]
        THEN IF \E i \in AbsenceIds : /\ table[i] \notin {Free, Gone}
                                      /\ table[i].session = k[1]
                                      /\ table[i].student = k[2]
                                      /\ table[i].absent
             THEN "absent" ELSE "present"
        ELSE "none"]

Ledger == INSTANCE AttendanceLedger WITH ledger <- LedgerOf(absences)

\* However requests interleave, readers see the ledger: one entry per student
\* and session, written session by session, and lost only in the very step
\* that leaves the student an entry in the session made up for it.
ImplementsLedger == Ledger!Spec

\* Every request is answered: no request waits forever for a savepoint.
EveryRequestAnswered ==
    \A w \in Workers : tx[w] # Idle ~> tx[w] = Idle
=============================================================================
