--------------------------- MODULE Attendance_proofs ---------------------------
(* Theorems about Attendance, and about Compensation which extends it, for *)
(* any number of workers, sessions, students, rows and requests.           *)
EXTENDS Compensation, TLAPS

(***************************************************************************)
(* Typing.  The lemmas on the handlers of Attendance allow other requests  *)
(* in the workers' slots, so that they serve Compensation too.             *)
(***************************************************************************)

OwnOps == {"tap", "bulk", "scan", "correct", "review"}

\* The requests that Attendance serves have their types.
FlightOK ==
    /\ tx = [w \in Workers |-> tx[w]]
    /\ \A w \in Workers : tx[w] # Idle =>
            /\ tx[w].op \in Handlers
            /\ tx[w].op \in OwnOps => tx[w] \in AttendanceTx

Typed == TablesTypeOK /\ FlightOK

\* Load finds a snapshot of a live row of the key, or there is no such row.
LEMMA LoadSnapshot ==
    ASSUME NEW s, NEW m, absences \in [AbsenceIds -> AbsenceRow \cup {Free, Gone}]
    PROVE  /\ Load(s, m) \in Snapshot \cup {NULL}
           /\ Load(s, m) = NULL <=> RowsOf(s, m) = {}
           /\ Load(s, m) # NULL => Load(s, m).id \in RowsOf(s, m)
<1>1. CASE RowsOf(s, m) = {}
    BY <1>1 DEF Load
<1>2. CASE RowsOf(s, m) # {}
    <2>1. PICK i \in RowsOf(s, m) :
              Load(s, m) = [id |-> i, absent |-> absences[i].absent]
        BY <1>2 DEF Load
    <2>2. i \in AbsenceIds /\ absences[i] \in AbsenceRow
        BY DEF RowsOf, AbsenceIsLive
    <2>3. Load(s, m) \in Snapshot /\ Load(s, m).id = i
        BY <2>1, <2>2 DEF AbsenceRow, Snapshot
    <2>. QED
        BY <1>2, <2>3, MarksAssumption
<1>. QED
    BY <1>1, <1>2

\* The op of a request in flight tells what its record holds.
LEMMA InFlight ==
    ASSUME FlightOK, NEW w \in Workers, tx[w] # Idle
    PROVE  /\ tx[w].op = "tap" => tx[w] \in TapTx
           /\ tx[w].op = "bulk" => tx[w] \in BulkTx
           /\ tx[w].op = "scan" => tx[w] \in ScanTx
           /\ tx[w].op = "correct" => tx[w] \in CorrectTx
           /\ tx[w].op = "review" => tx[w] \in ReviewTx
           /\ tx[w].op \in Handlers
<1>1. tx[w].op \in OwnOps => tx[w] \in AttendanceTx
    BY DEF FlightOK
<1>2. tx[w] \in TapTx => tx[w].op = "tap"
    BY DEF TapTx
<1>3. tx[w] \in BulkTx => tx[w].op = "bulk"
    BY DEF BulkTx
<1>4. tx[w] \in ScanTx => tx[w].op = "scan"
    BY DEF ScanTx
<1>5. tx[w] \in CorrectTx => tx[w].op = "correct"
    BY DEF CorrectTx
<1>6. tx[w] \in ReviewTx => tx[w].op = "review"
    BY DEF ReviewTx
<1>. QED
    BY <1>1, <1>2, <1>3, <1>4, <1>5, <1>6
       DEF AttendanceTx, OwnOps, FlightOK

\* The value an UPDATE leaves in is_absent is a Boolean.
LEMMA MergedBoolean ==
    ASSUME Typed, NEW row \in Snapshot, NEW v \in BOOLEAN,
           AbsenceIsLive(row.id)
    PROVE  Merged(row, v) \in BOOLEAN
<1>1. row.id \in AbsenceIds
    BY DEF Snapshot
<1>2. absences[row.id] \in AbsenceRow
    BY <1>1 DEF Typed, TablesTypeOK, AbsenceIsLive
<1>. QED
    BY <1>2 DEF Merged, AbsenceRow

\* Every response has its type.
LEMMA AnswerTyped ==
    ASSUME NEW op \in Handlers, NEW s \in Sessions \cup {NULL},
           NEW m \in Students \cup {NULL}, NEW a \in BOOLEAN \cup {NULL}
    PROVE  Reply(op, s, m, a) \in Answer /\ Failure(op, s, m) \in Answer
BY DEF Reply, Failure, Answer

\* A request of Attendance that fills a slot keeps the types of the slots.
LEMMA SlotTyped ==
    ASSUME FlightOK, NEW w \in Workers, NEW t \in AttendanceTx,
           tx' = [tx EXCEPT ![w] = t]
    PROVE  FlightOK'
<1>1. t.op \in Handlers
    BY DEF AttendanceTx, TapTx, BulkTx, ScanTx, CorrectTx, ReviewTx, Handlers
<1>2. /\ \A x \in Workers : tx'[x] = IF x = w THEN t ELSE tx[x]
      /\ tx' = [x \in Workers |-> tx'[x]]
    BY DEF FlightOK
<1>. QED
    BY <1>1, <1>2 DEF FlightOK

\* The start of a request only fills the worker's slot.
LEMMA BeginTyped ==
    ASSUME Typed, NEW w \in Workers, NEW op, NEW t \in AttendanceTx,
           Begin(w, op, t)
    PROVE  Typed'
<1>1. FlightOK'
    BY SlotTyped DEF Typed, Begin
<1>. QED
    BY <1>1 DEF Typed, TablesTypeOK, Begin

\* A commit empties the slot; it keeps the types if what it writes has them.
LEMMA FinishTyped ==
    ASSUME Typed, NEW w \in Workers, NEW a \in Answer \cup {NoAnswer},
           Finish(w, a),
           absences' \in [AbsenceIds -> AbsenceRow \cup {Free, Gone}],
           corrections' \in [CorrectionIds -> CorrectionRow \cup {Free, Gone}]
    PROVE  Typed'
BY DEF Typed, TablesTypeOK, FlightOK, Finish

\* A rollback leaves the tables alone.
LEMMA AbortTyped ==
    ASSUME Typed, NEW w \in Workers, tx[w] # Idle,
           NEW s \in Sessions \cup {NULL}, NEW m \in Students \cup {NULL},
           Abort(w, s, m)
    PROVE  Typed'
<1>1. Failure(tx[w].op, s, m) \in Answer
    BY InFlight, AnswerTyped DEF Typed
<1>. QED
    BY <1>1 DEF Typed, TablesTypeOK, FlightOK, Abort

\* The start of any request keeps the types.
LEMMA StartTyped ==
    ASSUME Typed, CorrectionsHaveRows, NEW w \in Workers, Start(w)
    PROVE  Typed'
<1>1. absences \in [AbsenceIds -> AbsenceRow \cup {Free, Gone}]
    BY DEF Typed, TablesTypeOK
<1>2. ASSUME NEW s \in Sessions, NEW m \in Students, NEW v \in BOOLEAN,
             TapStart(w, s, m, v)
      PROVE  Typed'
    <2>1. [op |-> "tap", session |-> s, student |-> m, absent |-> v,
           row |-> Load(s, m)] \in AttendanceTx
        BY <1>1, LoadSnapshot DEF AttendanceTx, TapTx
    <2>. QED
        BY <1>2, <2>1, BeginTyped DEF TapStart
<1>3. ASSUME NEW u \in Teachers, NEW s \in Sessions,
             NEW class \in SUBSET Students, NEW away \in SUBSET class,
             BulkStart(w, u, s, class, away)
      PROVE  Typed'
    <2>. DEFINE loads == [m \in Students |->
                            IF m \in class THEN Load(s, m) ELSE NULL]
    <2>1. loads \in [Students -> Snapshot \cup {NULL}]
        BY <1>1, LoadSnapshot
    <2>2. [op |-> "bulk", session |-> s, class |-> class, absent |-> away,
           row |-> loads] \in AttendanceTx
        BY <2>1 DEF AttendanceTx, BulkTx
    <2>. QED
        BY <1>3, <2>2, BeginTyped DEF BulkStart
<1>4. ASSUME NEW s \in Sessions, NEW m \in Students, ScanStart(w, s, m)
      PROVE  Typed'
    <2>1. [op |-> "scan", phase |-> "read", session |-> s, student |-> m,
           row |-> Load(s, m), original |-> NULL] \in AttendanceTx
        BY <1>1, LoadSnapshot DEF AttendanceTx, ScanTx
    <2>. QED
        BY <1>4, <2>1, BeginTyped DEF ScanStart
<1>5. ASSUME NEW i \in AbsenceIds, NEW v \in BOOLEAN, CorrectStart(w, i, v)
      PROVE  Typed'
    <2>1. absences[i] \in AbsenceRow
        BY <1>1, <1>5 DEF CorrectStart, AbsenceIsLive
    <2>2. [op |-> "correct", row |-> [id |-> i, absent |-> absences[i].absent],
           new |-> v, inWindow |-> absences[i].session \in freeWindow]
             \in AttendanceTx
        BY <2>1 DEF AttendanceTx, CorrectTx, Snapshot, AbsenceRow
    <2>. QED
        BY <1>5, <2>2, BeginTyped DEF CorrectStart
<1>6. ASSUME NEW c \in CorrectionIds, NEW d \in CorrectionStatus,
             ReviewStart(w, c, d)
      PROVE  Typed'
    <2>1. /\ corrections[c] \in CorrectionRow
          /\ absences[corrections[c].absence] \in AbsenceRow
        BY <1>1, <1>6 DEF ReviewStart, CorrectionIsLive, AbsenceIsLive,
           CorrectionsHaveRows, Typed, TablesTypeOK, CorrectionRow
    <2>2. [op |-> "review", correction |-> c, decision |-> d,
           new |-> corrections[c].new,
           row |-> [id |-> corrections[c].absence,
                    absent |-> absences[corrections[c].absence].absent]]
             \in AttendanceTx
        BY <2>1 DEF AttendanceTx, ReviewTx, Snapshot, AbsenceRow, CorrectionRow
    <2>. QED
        BY <1>6, <2>2, BeginTyped DEF ReviewStart
<1>. QED
    BY <1>2, <1>3, <1>4, <1>5, <1>6 DEF Start

\* An UPDATE of is_absent keeps the table's type.
LEMMA UpdateTyped ==
    ASSUME Typed, NEW row \in Snapshot, NEW v \in BOOLEAN,
           AbsenceIsLive(row.id)
    PROVE  [absences EXCEPT ![row.id].absent = Merged(row, v)]
               \in [AbsenceIds -> AbsenceRow \cup {Free, Gone}]
<1>1. row.id \in AbsenceIds /\ absences[row.id] \in AbsenceRow
    BY DEF Snapshot, AbsenceIsLive, Typed, TablesTypeOK
<1>2. Merged(row, v) \in BOOLEAN
    BY MergedBoolean
<1>3. [absences[row.id] EXCEPT !.absent = Merged(row, v)] \in AbsenceRow
    BY <1>1, <1>2 DEF AbsenceRow
<1>. QED
    BY <1>1, <1>3 DEF Typed, TablesTypeOK

\* A tap that commits or fails keeps the types.
LEMMA TapTyped ==
    ASSUME Typed, NEW w \in Workers, TapCommit(w)
    PROVE  Typed'
<1>1. tx[w] \in TapTx /\ tx[w] # Idle
    BY InFlight DEF Typed, TapCommit
<1>2. /\ tx[w].session \in Sessions /\ tx[w].student \in Students
      /\ tx[w].absent \in BOOLEAN /\ tx[w].row \in Snapshot \cup {NULL}
    BY <1>1 DEF TapTx
<1>3. /\ corrections \in [CorrectionIds -> CorrectionRow \cup {Free, Gone}]
      /\ absences \in [AbsenceIds -> AbsenceRow \cup {Free, Gone}]
    BY DEF Typed, TablesTypeOK
<1>4. CASE TapUpdate(w)
    <2>1. Merged(tx[w].row, tx[w].absent) \in BOOLEAN
        BY <1>2, <1>4, MergedBoolean DEF TapUpdate
    <2>2. Reply("tap", tx[w].session, tx[w].student,
                Merged(tx[w].row, tx[w].absent)) \in Answer
        BY <1>2, <2>1, AnswerTyped DEF Handlers
    <2>3. absences' \in [AbsenceIds -> AbsenceRow \cup {Free, Gone}]
        BY <1>2, <1>4, UpdateTyped DEF TapUpdate
    <2>. QED
        BY <1>3, <1>4, <2>2, <2>3, FinishTyped DEF TapUpdate
<1>5. CASE TapFail(w)
    BY <1>1, <1>2, <1>5, AbortTyped DEF TapFail
<1>6. ASSUME NEW i \in AbsenceIds, TapInsert(w, i)
      PROVE  Typed'
    <2>1. Reply("tap", tx[w].session, tx[w].student, tx[w].absent) \in Answer
        BY <1>2, AnswerTyped DEF Handlers
    <2>2. absences' \in [AbsenceIds -> AbsenceRow \cup {Free, Gone}]
        BY <1>2, <1>3, <1>6 DEF TapInsert, AbsenceRow
    <2>. QED
        BY <1>3, <1>6, <2>1, <2>2, FinishTyped DEF TapInsert
<1>. QED
    BY <1>4, <1>5, <1>6 DEF TapCommit

\* A sheet keeps every row there is, under its key.
LEMMA BulkUpdates ==
    ASSUME Typed, NEW w \in Workers, tx[w] \in BulkTx,
           NEW f \in [tx[w].class -> AbsenceIds], BulkStore(w, f),
           NEW i \in AbsenceIds, AbsenceIsLive(i)
    PROVE  /\ absences'[i] \in AbsenceRow
           /\ absences'[i].session = absences[i].session
           /\ absences'[i].student = absences[i].student
<1>. DEFINE t == tx[w]
<1>1. absences[i] \in AbsenceRow
    BY DEF AbsenceIsLive, Typed, TablesTypeOK
<1>2. ~\E m \in NewIn(t) : f[m] = i
    BY DEF BulkStore, AbsenceIsLive
<1>3. CASE \E m \in StillIn(t) : f[m] = i
    <2>1. PICK m \in StillIn(t) :
              /\ f[m] = i
              /\ absences'[i] = [absences[i] EXCEPT !.absent =
                                    Merged(t.row[m], m \in t.absent)]
        BY <1>2, <1>3 DEF BulkStore
    <2>2. t.row[m] \in Snapshot
        BY DEF StillIn, KnownIn, NewIn, BulkTx
    <2>3. i = t.row[m].id /\ AbsenceIsLive(t.row[m].id)
        BY <2>1 DEF BulkStore, StillIn
    <2>4. Merged(t.row[m], m \in t.absent) \in BOOLEAN
        <3>. DEFINE v == m \in t.absent
        <3>1. v \in BOOLEAN
            OBVIOUS
        <3>. HIDE DEF v
        <3>2. Merged(t.row[m], v) \in BOOLEAN
            BY <2>2, <2>3, <3>1, MergedBoolean
        <3>. QED
            BY <3>2 DEF v
    <2>. QED
        BY <1>1, <2>1, <2>4 DEF AbsenceRow
<1>4. CASE ~\E m \in StillIn(t) : f[m] = i
    BY <1>1, <1>2, <1>4 DEF BulkStore
<1>. QED
    BY <1>3, <1>4

\* A sheet stores rows or is rolled back.
LEMMA BulkTyped ==
    ASSUME Typed, NEW w \in Workers, BulkCommit(w)
    PROVE  Typed'
<1>1. tx[w] \in BulkTx /\ tx[w] # Idle
    BY InFlight DEF Typed, BulkCommit
<1>2. /\ tx[w].session \in Sessions /\ tx[w].class \subseteq Students
      /\ tx[w].row \in [Students -> Snapshot \cup {NULL}]
    BY <1>1 DEF BulkTx
<1>3. /\ corrections \in [CorrectionIds -> CorrectionRow \cup {Free, Gone}]
      /\ absences \in [AbsenceIds -> AbsenceRow \cup {Free, Gone}]
    BY DEF Typed, TablesTypeOK
<1>4. CASE BulkFail(w)
    BY <1>1, <1>2, <1>4, AbortTyped DEF BulkFail
<1>5. ASSUME NEW f \in [tx[w].class -> AbsenceIds], BulkStore(w, f)
      PROVE  Typed'
    <2>. DEFINE t == tx[w]
    <2>1. Reply("bulk", t.session, NULL, NULL) \in Answer
        BY <1>2, AnswerTyped DEF Handlers
    <2>2. ASSUME NEW i \in AbsenceIds
          PROVE  absences'[i] \in AbsenceRow \cup {Free, Gone}
        <3>1. CASE \E m \in NewIn(t) : f[m] = i
            <4>1. PICK m \in NewIn(t) :
                      absences'[i] = [session |-> t.session, student |-> m,
                                      absent |-> m \in t.absent]
                BY <1>5, <3>1 DEF BulkStore
            <4>2. m \in Students
                BY <1>2 DEF NewIn
            <4>. QED
                BY <1>2, <4>1, <4>2 DEF AbsenceRow
        <3>2. CASE /\ ~\E m \in NewIn(t) : f[m] = i
                   /\ \E m \in StillIn(t) : f[m] = i
            <4>1. AbsenceIsLive(i)
                BY <1>5, <3>2 DEF BulkStore, StillIn
            <4>. QED
                BY <1>1, <1>5, <4>1, BulkUpdates
        <3>3. CASE /\ ~\E m \in NewIn(t) : f[m] = i
                   /\ ~\E m \in StillIn(t) : f[m] = i
            BY <1>3, <1>5, <3>3 DEF BulkStore
        <3>. QED
            BY <3>1, <3>2, <3>3
    <2>3. absences' \in [AbsenceIds -> AbsenceRow \cup {Free, Gone}]
        <3>1. absences' = [i \in AbsenceIds |-> absences'[i]]
            BY <1>5 DEF BulkStore
        <3>. QED
            BY <2>2, <3>1
    <2>. QED
        BY <1>3, <1>5, <2>1, <2>3, FinishTyped DEF BulkStore
<1>. QED
    BY <1>4, <1>5 DEF BulkCommit

\* What a scan is about to delete is a row id, or nothing.
LEMMA OriginalTyped ==
    ASSUME Typed, NEW s, NEW m
    PROVE  OriginalAbsence(s, m) \in AbsenceIds \cup {NULL}
<1>1. CASE Compensating(s, m) = {}
    BY <1>1 DEF OriginalAbsence
<1>2. CASE Compensating(s, m) # {}
    <2>. DEFINE r == CHOOSE r \in Compensating(s, m) : TRUE
                l == Load(requests[r].original, m)
    <2>1. OriginalAbsence(s, m) = IF l # NULL /\ l.absent THEN l.id ELSE NULL
        BY <1>2, Zenon DEF OriginalAbsence
    <2>2. l \in Snapshot \cup {NULL}
        BY LoadSnapshot DEF Typed, TablesTypeOK
    <2>. HIDE DEF l
    <2>. QED
        BY <2>1, <2>2 DEF Snapshot
<1>. QED
    BY <1>1, <1>2

\* The savepoint of a scan inserts its key, or loads the row that has it.
LEMMA UpsertFacts ==
    ASSUME Typed, NEW w \in Workers, ScanUpsert(w)
    PROVE  /\ tx[w] \in ScanTx /\ tx[w] # Idle /\ tx[w].op = "scan"
           /\ tx[w].row = NULL => ~Reserved(tx[w].session, tx[w].student)
           /\ \A x \in Workers \ {w} : tx'[x] = tx[x]
           /\ tx' = [tx EXCEPT ![w] = tx'[w]]
           /\ tx'[w] \in ScanTx /\ tx'[w].op = "scan"
           /\ tx'[w].phase = "upserted"
           /\ tx'[w].session = tx[w].session /\ tx'[w].student = tx[w].student
           /\ tx'[w].row = IF tx[w].row = NULL
                           THEN Load(tx[w].session, tx[w].student)
                           ELSE tx[w].row
           /\ UNCHANGED <<absences, corrections, requests, roster, freeWindow>>
           /\ answer' = NoAnswer
<1>. DEFINE t == tx[w]
            row == IF t.row = NULL THEN Load(t.session, t.student) ELSE t.row
            new == [t EXCEPT !.phase = "upserted", !.row = row]
<1>1. t \in ScanTx /\ t # Idle /\ t.op = "scan"
    BY InFlight DEF Typed, ScanUpsert
<1>2. row \in Snapshot \cup {NULL}
    BY <1>1, LoadSnapshot DEF ScanTx, Typed, TablesTypeOK
<1>3. tx' = [tx EXCEPT ![w] = new]
    BY DEF ScanUpsert
<1>4. \A x \in Workers : tx'[x] = IF x = w THEN new ELSE tx[x]
    BY <1>3 DEF Typed, FlightOK
<1>. HIDE DEF row
<1>5. /\ new \in ScanTx /\ new.op = "scan" /\ new.phase = "upserted"
      /\ new.session = t.session /\ new.student = t.student /\ new.row = row
    BY <1>1, <1>2 DEF ScanTx
<1>. HIDE DEF new
<1>6. /\ UNCHANGED <<absences, corrections, requests, roster, freeWindow>>
      /\ answer' = NoAnswer
      /\ t.row = NULL => ~Reserved(t.session, t.student)
    BY DEF ScanUpsert
<1>. QED
    BY <1>1, <1>3, <1>4, <1>5, <1>6 DEF row

\* A scan that is not rolled back then holds the absence that it makes up for.
LEMMA LookupFacts ==
    ASSUME Typed, NEW w \in Workers, ScanLookup(w),
           ~Abort(w, tx[w].session, tx[w].student)
    PROVE  /\ tx[w] \in ScanTx /\ tx[w] # Idle /\ tx[w].op = "scan"
           /\ tx[w].phase = "upserted"
           /\ \A x \in Workers \ {w} : tx'[x] = tx[x]
           /\ tx' = [tx EXCEPT ![w] = tx'[w]]
           /\ tx'[w] \in ScanTx /\ tx'[w].op = "scan"
           /\ tx'[w].phase = "looked"
           /\ tx'[w].session = tx[w].session /\ tx'[w].student = tx[w].student
           /\ tx'[w].row = tx[w].row
           /\ tx'[w].original = OriginalAbsence(tx[w].session, tx[w].student)
           /\ UNCHANGED <<absences, corrections, requests, roster, freeWindow>>
           /\ answer' = NoAnswer
<1>. DEFINE t == tx[w]
            o == OriginalAbsence(t.session, t.student)
            new == [t EXCEPT !.phase = "looked", !.original = o]
<1>1. t \in ScanTx /\ t # Idle /\ t.op = "scan" /\ t.phase = "upserted"
    BY InFlight DEF Typed, ScanLookup
<1>2. o \in AbsenceIds \cup {NULL}
    BY OriginalTyped
<1>3. tx' = [tx EXCEPT ![w] = new]
    BY DEF ScanLookup
<1>4. \A x \in Workers : tx'[x] = IF x = w THEN new ELSE tx[x]
    BY <1>3 DEF Typed, FlightOK
<1>. HIDE DEF o
<1>5. /\ new \in ScanTx /\ new.op = "scan" /\ new.phase = "looked"
      /\ new.session = t.session /\ new.student = t.student
      /\ new.row = t.row /\ new.original = o
    BY <1>1, <1>2 DEF ScanTx
<1>. HIDE DEF new
<1>6. /\ UNCHANGED <<absences, corrections, requests, roster, freeWindow>>
      /\ answer' = NoAnswer
    BY DEF ScanLookup
<1>. QED
    BY <1>1, <1>3, <1>4, <1>5, <1>6 DEF o

\* The savepoint and the lookup of a scan keep the types.
LEMMA UpsertTyped ==
    ASSUME Typed, NEW w \in Workers, ScanUpsert(w) \/ ScanLookup(w)
    PROVE  Typed'
<1>1. tx[w] \in ScanTx /\ tx[w] # Idle
    BY InFlight DEF Typed, ScanUpsert, ScanLookup
<1>2. tx[w].session \in Sessions /\ tx[w].student \in Students
    BY <1>1 DEF ScanTx
<1>3. CASE Abort(w, tx[w].session, tx[w].student)
    BY <1>1, <1>2, <1>3, AbortTyped
<1>4. CASE ScanUpsert(w) \/ ~Abort(w, tx[w].session, tx[w].student)
    <2>1. /\ tx' = [tx EXCEPT ![w] = tx'[w]] /\ tx'[w] \in ScanTx
          /\ UNCHANGED <<absences, corrections, requests, roster, freeWindow>>
          /\ answer' = NoAnswer
        BY <1>4, UpsertFacts, LookupFacts
    <2>2. PICK new : tx' = [tx EXCEPT ![w] = new] /\ new \in ScanTx
        BY <2>1
    <2>3. FlightOK'
        BY <2>2, SlotTyped DEF Typed, AttendanceTx
    <2>. QED
        BY <2>1, <2>3 DEF Typed, TablesTypeOK
<1>. QED
    BY <1>3, <1>4

\* A cascade keeps the corrections' type.
LEMMA CascadeTyped ==
    ASSUME Typed, NEW D
    PROVE  Cascade(D) \in [CorrectionIds -> CorrectionRow \cup {Free, Gone}]
BY DEF Cascade, Typed, TablesTypeOK

\* The commit of a scan keeps the types.
LEMMA ScanTyped ==
    ASSUME Typed, NEW w \in Workers, ScanCommit(w)
    PROVE  Typed'
<1>1. tx[w] \in ScanTx /\ tx[w] # Idle
    BY InFlight DEF Typed, ScanCommit
<1>2. /\ tx[w].session \in Sessions /\ tx[w].student \in Students
      /\ tx[w].row \in Snapshot \cup {NULL}
    BY <1>1 DEF ScanTx
<1>3. /\ corrections \in [CorrectionIds -> CorrectionRow \cup {Free, Gone}]
      /\ absences \in [AbsenceIds -> AbsenceRow \cup {Free, Gone}]
    BY DEF Typed, TablesTypeOK
<1>4. Reply("scan", tx[w].session, tx[w].student, FALSE) \in Answer
    BY <1>2, AnswerTyped DEF Handlers
<1>5. CASE ScanFail(w)
    BY <1>1, <1>2, <1>5, AbortTyped DEF ScanFail
<1>6. CASE ScanDeletedTwice(w)
    BY <1>3, <1>4, <1>6, FinishTyped DEF ScanDeletedTwice
<1>7. ASSUME NEW i \in AbsenceIds, ScanStore(w, i)
      PROVE  Typed'
    <2>1. ASSUME i # tx[w].original \/ ~AbsenceIsLive(i)
          PROVE  CheckIn(tx[w], i) \in AbsenceRow
        <3>1. CASE tx[w].row = NULL
            BY <1>2, <3>1 DEF CheckIn, AbsenceRow
        <3>2. CASE tx[w].row # NULL
            <4>1. /\ i = tx[w].row.id /\ tx[w].row \in Snapshot
                  /\ AbsenceIsLive(i) /\ AbsenceIsLive(tx[w].row.id)
                BY <1>2, <1>7, <3>2 DEF ScanStore
            <4>2. Merged(tx[w].row, FALSE) \in BOOLEAN
                BY <4>1, MergedBoolean
            <4>. QED
                BY <1>3, <3>2, <4>1, <4>2 DEF CheckIn, AbsenceRow, AbsenceIsLive
        <3>. QED
            BY <3>1, <3>2
    <2>2. absences' \in [AbsenceIds -> AbsenceRow \cup {Free, Gone}]
        BY <1>3, <1>7, <2>1 DEF ScanStore
    <2>3. corrections' \in [CorrectionIds -> CorrectionRow \cup {Free, Gone}]
        BY <1>7, CascadeTyped DEF ScanStore
    <2>. QED
        BY <1>4, <1>7, <2>2, <2>3, FinishTyped DEF ScanStore
<1>. QED
    BY <1>5, <1>6, <1>7 DEF ScanCommit

\* Requesting a correction, with or without applying it, keeps the types.
LEMMA CorrectTyped ==
    ASSUME Typed, NEW w \in Workers, CorrectCommit(w)
    PROVE  Typed'
<1>1. tx[w] \in CorrectTx /\ tx[w] # Idle
    BY InFlight DEF Typed, CorrectCommit
<1>2. /\ tx[w].row \in Snapshot /\ tx[w].new \in BOOLEAN
      /\ tx[w].row.id \in AbsenceIds /\ tx[w].row.absent \in BOOLEAN
    BY <1>1 DEF CorrectTx, Snapshot
<1>3. /\ corrections \in [CorrectionIds -> CorrectionRow \cup {Free, Gone}]
      /\ absences \in [AbsenceIds -> AbsenceRow \cup {Free, Gone}]
    BY DEF Typed, TablesTypeOK
<1>4. Reply("correct", NULL, NULL, NULL) \in Answer
    BY AnswerTyped DEF Handlers
<1>5. CASE CorrectFail(w)
    BY <1>1, <1>5, AbortTyped DEF CorrectFail
<1>6. ASSUME NEW c \in CorrectionIds, CorrectStore(w, c)
      PROVE  Typed'
    <2>1. corrections' \in [CorrectionIds -> CorrectionRow \cup {Free, Gone}]
        BY <1>2, <1>3, <1>6 DEF CorrectStore, CorrectionRow, CorrectionStatus
    <2>2. absences' \in [AbsenceIds -> AbsenceRow \cup {Free, Gone}]
        BY <1>2, <1>3, <1>6, UpdateTyped DEF CorrectStore
    <2>. QED
        BY <1>4, <1>6, <2>1, <2>2, FinishTyped DEF CorrectStore
<1>. QED
    BY <1>5, <1>6 DEF CorrectCommit

\* The row a review is about to write is there as long as its correction is.
LEMMA ReviewedRowLives ==
    ASSUME Typed, CorrectionsHaveRows, NEW w \in Workers, tx[w] \in ReviewTx,
           tx[w] # Idle, CorrectionIsLive(tx[w].correction)
    PROVE  AbsenceIsLive(tx[w].row.id)
<1>1. tx[w].op = "review" /\ tx[w].correction \in CorrectionIds
    BY DEF ReviewTx
<1>2. tx[w].row.id = corrections[tx[w].correction].absence
    BY <1>1 DEF CorrectionsHaveRows
<1>3. AbsenceIsLive(corrections[tx[w].correction].absence)
    BY <1>1 DEF CorrectionsHaveRows
<1>. QED
    BY <1>2, <1>3 DEF AbsenceIsLive

\* A review writes a status and perhaps is_absent, or is rolled back.
LEMMA ReviewTyped ==
    ASSUME Typed, NEW w \in Workers, ReviewCommit(w),
           CorrectionsHaveRows
    PROVE  Typed'
<1>1. tx[w] \in ReviewTx /\ tx[w] # Idle
    BY InFlight DEF Typed, ReviewCommit
<1>2. /\ tx[w].row \in Snapshot /\ tx[w].new \in BOOLEAN
      /\ tx[w].correction \in CorrectionIds
      /\ tx[w].decision \in CorrectionStatus
    BY <1>1 DEF ReviewTx, Snapshot
<1>3. /\ corrections \in [CorrectionIds -> CorrectionRow \cup {Free, Gone}]
      /\ absences \in [AbsenceIds -> AbsenceRow \cup {Free, Gone}]
    BY DEF Typed, TablesTypeOK
<1>4. Reply("review", NULL, NULL, NULL) \in Answer
    BY AnswerTyped DEF Handlers
<1>5. CASE ReviewFail(w)
    BY <1>1, <1>5, AbortTyped DEF ReviewFail
<1>6. CASE ReviewStore(w)
    <2>1. corrections' \in [CorrectionIds -> CorrectionRow \cup {Free, Gone}]
        BY <1>2, <1>3, <1>6 DEF ReviewStore, CorrectionRow, CorrectionIsLive
    <2>2. AbsenceIsLive(tx[w].row.id)
        BY <1>1, <1>6, ReviewedRowLives DEF ReviewStore
    <2>3. absences' \in [AbsenceIds -> AbsenceRow \cup {Free, Gone}]
        BY <1>2, <1>3, <1>6, <2>2, UpdateTyped DEF ReviewStore
    <2>. QED
        BY <1>4, <1>6, <2>1, <2>3, FinishTyped DEF ReviewStore
<1>. QED
    BY <1>5, <1>6 DEF ReviewCommit

\* The tables a run starts from have their types.
LEMMA InitTyped == Init => Typed
<1>. SUFFICES ASSUME Init PROVE Typed
    OBVIOUS
<1>1. absences \in [AbsenceIds -> AbsenceRow \cup {Free, Gone}]
    BY InitialAssumption DEF Init
<1>2. requests \in [RequestIds -> RequestRow \cup {Free}]
    BY InitialAssumption DEF Init
<1>. QED
    BY <1>1, <1>2 DEF Init, Typed, TablesTypeOK, FlightOK

\* Every step keeps the types.
LEMMA NextTyped ==
    ASSUME Typed, CorrectionsHaveRows, [Next]_vars
    PROVE  Typed'
<1>1. ASSUME NEW w \in Workers, Advance(w)
      PROVE  Typed'
    BY <1>1, TapTyped, BulkTyped, UpsertTyped, ScanTyped, CorrectTyped,
       ReviewTyped DEF Advance
<1>2. ASSUME NEW s \in Sessions, WindowCloses(s)
      PROVE  Typed'
    BY <1>2 DEF WindowCloses, Typed, TablesTypeOK, FlightOK
<1>3. CASE UNCHANGED vars
    BY <1>3 DEF vars, Typed, TablesTypeOK, FlightOK
<1>. QED
    BY <1>1, <1>2, <1>3, StartTyped DEF Next

(***************************************************************************)
(* One row per student and session.                                        *)
(***************************************************************************)

\* No row is new or changes its key.
NoNewRow ==
    \A i \in AbsenceIds :
        AbsenceIsLive(i)' =>
            /\ AbsenceIsLive(i)
            /\ absences'[i].session = absences[i].session
            /\ absences'[i].student = absences[i].student

\* No scan takes a key.
NoNewHold ==
    \A w \in Workers, s \in Sessions, m \in Students :
        HoldsKey(w, s, m)' => HoldsKey(w, s, m)

\* A step that makes no row and reserves no key keeps at most one row per key.
LEMMA UniqueKept ==
    ASSUME UniqueAbsence, NoNewRow, NoNewHold
    PROVE  UniqueAbsence'
<1>1. \A s, m : RowsOf(s, m)' \subseteq RowsOf(s, m)
    BY DEF NoNewRow, RowsOf
<1>2. \A s \in Sessions, m \in Students : Reserved(s, m)' => Reserved(s, m)
    BY DEF NoNewHold, Reserved
<1>3. UniqueIn(absences')
    BY DEF UniqueAbsence, UniqueIn, NoNewRow, AbsenceIsLive
<1>. QED
    BY <1>1, <1>2, <1>3 DEF UniqueAbsence, NoNewHold

\* A request that begins, ends or is rolled back takes no key.
LEMMA BeginHoldsNothing ==
    ASSUME Typed, NEW w \in Workers, NEW op, NEW t, Begin(w, op, t),
           t.op = "scan" => t.phase = "read"
    PROVE  NoNewHold /\ NoNewRow
<1>1. \A x \in Workers : tx'[x] = IF x = w THEN t ELSE tx[x]
    BY DEF Begin, Typed, FlightOK
<1>2. absences' = absences
    BY DEF Begin
<1>. QED
    BY <1>1, <1>2 DEF NoNewHold, HoldsKey, NoNewRow, AbsenceIsLive

\* A request that is over frees the key it held, and nobody takes one.
LEMMA IdleHoldsNothing ==
    ASSUME Typed, NEW w \in Workers, tx' = [tx EXCEPT ![w] = Idle]
    PROVE  /\ NoNewHold
           /\ \A s \in Sessions, m \in Students : ~HoldsKey(w, s, m)'
<1>1. \A x \in Workers : tx'[x] = IF x = w THEN Idle ELSE tx[x]
    BY DEF Typed, FlightOK
<1>. QED
    BY <1>1 DEF NoNewHold, HoldsKey

\* Writing is_absent of live rows makes no row.
LEMMA UpdateMakesNoRow ==
    ASSUME Typed, NEW i \in AbsenceIds, AbsenceIsLive(i), NEW v \in BOOLEAN,
           absences' = [absences EXCEPT ![i].absent = v]
    PROVE  NoNewRow
<1>1. absences[i] \in AbsenceRow
    BY DEF AbsenceIsLive, Typed, TablesTypeOK
<1>2. \A j \in AbsenceIds :
        absences'[j] = IF j = i THEN [absences[i] EXCEPT !.absent = v]
                                ELSE absences[j]
    BY DEF Typed, TablesTypeOK
<1>3. /\ [absences[i] EXCEPT !.absent = v].session = absences[i].session
      /\ [absences[i] EXCEPT !.absent = v].student = absences[i].student
    BY <1>1 DEF AbsenceRow
<1>. QED
    BY <1>2, <1>3 DEF NoNewRow, AbsenceIsLive

\* Rows inserted under keys that no row and no other scan has stay unique.
LEMMA UniqueInsert ==
    ASSUME Typed, UniqueAbsence, NoNewHold,
           NEW N \in SUBSET AbsenceIds,
           \A i \in AbsenceIds \ N :
                AbsenceIsLive(i)' =>
                    /\ AbsenceIsLive(i)
                    /\ absences'[i].session = absences[i].session
                    /\ absences'[i].student = absences[i].student,
           \A i \in N, s \in Sessions, m \in Students :
                absences'[i].session = s /\ absences'[i].student = m =>
                    RowsOf(s, m) = {} /\ ~Reserved(s, m)',
           \A i \in N : absences'[i] \in AbsenceRow,
           \A i, j \in N :
                /\ absences'[i].session = absences'[j].session
                /\ absences'[i].student = absences'[j].student
                => i = j
    PROVE  UniqueAbsence'
<1>1. UniqueIn(absences')
    <2>. SUFFICES ASSUME NEW i \in AbsenceIds, NEW j \in AbsenceIds,
                         AbsenceIsLive(i)', AbsenceIsLive(j)',
                         absences'[i].session = absences'[j].session,
                         absences'[i].student = absences'[j].student
                  PROVE  i = j
        BY DEF UniqueIn, AbsenceIsLive
    <2>1. CASE i \in N /\ j \in N
        BY <2>1
    <2>2. CASE i \in N /\ j \notin N
        <3>1. absences'[i].session \in Sessions /\ absences'[i].student \in Students
            BY <2>2 DEF AbsenceRow
        <3>2. RowsOf(absences'[i].session, absences'[i].student) = {}
            BY <2>2, <3>1
        <3>. QED
            BY <2>2, <3>2 DEF RowsOf
    <2>3. CASE i \notin N /\ j \in N
        <3>1. absences'[j].session \in Sessions /\ absences'[j].student \in Students
            BY <2>3 DEF AbsenceRow
        <3>2. RowsOf(absences'[j].session, absences'[j].student) = {}
            BY <2>3, <3>1
        <3>. QED
            BY <2>3, <3>2 DEF RowsOf
    <2>4. CASE i \notin N /\ j \notin N
        BY <2>4 DEF UniqueAbsence, UniqueIn, AbsenceIsLive
    <2>. QED
        BY <2>1, <2>2, <2>3, <2>4
<1>2. ASSUME NEW s \in Sessions, NEW m \in Students, Reserved(s, m)'
      PROVE  RowsOf(s, m)' = {}
    <2>1. Reserved(s, m)
        BY <1>2 DEF NoNewHold, Reserved
    <2>2. RowsOf(s, m) = {}
        BY <2>1 DEF UniqueAbsence
    <2>3. ASSUME NEW i \in RowsOf(s, m)'
          PROVE  FALSE
        <3>1. i \in AbsenceIds /\ AbsenceIsLive(i)'
              /\ absences'[i].session = s /\ absences'[i].student = m
            BY <2>3 DEF RowsOf
        <3>2. CASE i \in N
            BY <1>2, <3>1, <3>2
        <3>3. CASE i \notin N
            BY <2>2, <3>1, <3>3 DEF RowsOf
        <3>. QED
            BY <3>2, <3>3
    <2>. QED
        BY <2>3
<1>. QED
    BY <1>1, <1>2 DEF UniqueAbsence, NoNewHold

\* A rollback keeps one row per key and frees the keys its worker held.
LEMMA AbortUnique ==
    ASSUME Typed, UniqueAbsence, NEW w \in Workers, NEW s, NEW m,
           Abort(w, s, m)
    PROVE  UniqueAbsence'
<1>1. NoNewHold
    BY IdleHoldsNothing DEF Abort
<1>2. NoNewRow
    BY DEF Abort, NoNewRow, AbsenceIsLive
<1>. QED
    BY <1>1, <1>2, UniqueKept

\* A request that starts has written nothing and holds no key.
LEMMA StartUnique ==
    ASSUME Typed, UniqueAbsence, NEW w \in Workers, Start(w)
    PROVE  UniqueAbsence'
<1>1. \E op, t : Begin(w, op, t) /\ (t.op = "scan" => t.phase = "read")
    <2>1. ASSUME NEW s, NEW m, NEW v, TapStart(w, s, m, v)
          PROVE  \E op, t : Begin(w, op, t) /\ (t.op = "scan" => t.phase = "read")
        BY <2>1 DEF TapStart
    <2>2. ASSUME NEW u, NEW s, NEW class, NEW away,
                 BulkStart(w, u, s, class, away)
          PROVE  \E op, t : Begin(w, op, t) /\ (t.op = "scan" => t.phase = "read")
        BY <2>2 DEF BulkStart
    <2>3. ASSUME NEW s, NEW m, ScanStart(w, s, m)
          PROVE  \E op, t : Begin(w, op, t) /\ (t.op = "scan" => t.phase = "read")
        BY <2>3 DEF ScanStart
    <2>4. ASSUME NEW i, NEW v, CorrectStart(w, i, v)
          PROVE  \E op, t : Begin(w, op, t) /\ (t.op = "scan" => t.phase = "read")
        BY <2>4 DEF CorrectStart
    <2>5. ASSUME NEW c, NEW d, ReviewStart(w, c, d)
          PROVE  \E op, t : Begin(w, op, t) /\ (t.op = "scan" => t.phase = "read")
        BY <2>5 DEF ReviewStart
    <2>. QED
        BY <2>1, <2>2, <2>3, <2>4, <2>5 DEF Start
<1>2. NoNewHold /\ NoNewRow
    BY <1>1, BeginHoldsNothing
<1>. QED
    BY <1>2, UniqueKept

\* A tap inserts a key that is neither taken nor reserved, or updates in place.
LEMMA TapUnique ==
    ASSUME Typed, UniqueAbsence, NEW w \in Workers, TapCommit(w)
    PROVE  UniqueAbsence'
<1>1. tx[w] \in TapTx
    BY InFlight DEF Typed, TapCommit
<1>2. /\ tx[w].session \in Sessions /\ tx[w].student \in Students
      /\ tx[w].absent \in BOOLEAN /\ tx[w].row \in Snapshot \cup {NULL}
    BY <1>1 DEF TapTx
<1>3. CASE TapUpdate(w)
    <2>1. Merged(tx[w].row, tx[w].absent) \in BOOLEAN
        BY <1>2, <1>3, MergedBoolean DEF TapUpdate
    <2>2. tx[w].row.id \in AbsenceIds
        BY <1>2, <1>3 DEF TapUpdate, Snapshot
    <2>3. NoNewRow
        BY <1>3, <2>1, <2>2, UpdateMakesNoRow DEF TapUpdate
    <2>4. NoNewHold
        BY <1>3, IdleHoldsNothing DEF TapUpdate, Finish
    <2>. QED
        BY <2>3, <2>4, UniqueKept
<1>4. CASE TapFail(w)
    BY <1>4, AbortUnique DEF TapFail
<1>5. ASSUME NEW i \in AbsenceIds, TapInsert(w, i)
      PROVE  UniqueAbsence'
    <2>1. absences'[i] = [session |-> tx[w].session, student |-> tx[w].student,
                          absent |-> tx[w].absent]
        BY <1>5 DEF TapInsert, Typed, TablesTypeOK
    <2>2. absences'[i] \in AbsenceRow
        BY <1>2, <2>1 DEF AbsenceRow
    <2>3. \A j \in AbsenceIds \ {i} : absences'[j] = absences[j]
        BY <1>5 DEF TapInsert, Typed, TablesTypeOK
    <2>4. NoNewHold
        BY <1>5, IdleHoldsNothing DEF TapInsert, Finish
    <2>5. ~Reserved(tx[w].session, tx[w].student)
          /\ RowsOf(tx[w].session, tx[w].student) = {}
        BY <1>5 DEF TapInsert, Conflict
    <2>6. \A s \in Sessions, m \in Students : Reserved(s, m)' => Reserved(s, m)
        BY <2>4 DEF NoNewHold, Reserved
    <2>7. \A s \in Sessions, m \in Students :
            absences'[i].session = s /\ absences'[i].student = m =>
                RowsOf(s, m) = {} /\ ~Reserved(s, m)'
        BY <1>2, <2>1, <2>5, <2>6
    <2>8. \A j \in AbsenceIds \ {i} :
            AbsenceIsLive(j)' =>
                /\ AbsenceIsLive(j)
                /\ absences'[j].session = absences[j].session
                /\ absences'[j].student = absences[j].student
        BY <2>3 DEF AbsenceIsLive
    <2>. DEFINE N == {i}
    <2>9. N \in SUBSET AbsenceIds
        OBVIOUS
    <2>. QED
        BY <2>2, <2>4, <2>7, <2>8, <2>9, UniqueInsert
<1>. QED
    BY <1>3, <1>4, <1>5 DEF TapCommit

\* A sheet inserts distinct students, none taken and none reserved.
LEMMA BulkUnique ==
    ASSUME Typed, UniqueAbsence, NEW w \in Workers, BulkCommit(w)
    PROVE  UniqueAbsence'
<1>1. tx[w] \in BulkTx
    BY InFlight DEF Typed, BulkCommit
<1>2. /\ tx[w].session \in Sessions /\ tx[w].class \subseteq Students
      /\ tx[w].row \in [Students -> Snapshot \cup {NULL}]
    BY <1>1 DEF BulkTx
<1>3. CASE BulkFail(w)
    BY <1>3, AbortUnique DEF BulkFail
<1>4. ASSUME NEW f \in [tx[w].class -> AbsenceIds], BulkStore(w, f)
      PROVE  UniqueAbsence'
    <2>. DEFINE t == tx[w]
                N == {f[m] : m \in NewIn(t)}
    <2>1. NewIn(t) \subseteq t.class
        BY DEF NewIn
    <2>2. N \in SUBSET AbsenceIds
        BY <2>1
    <2>3. NoNewHold
        BY <1>4, IdleHoldsNothing DEF BulkStore, Finish
    <2>4. ASSUME NEW m \in NewIn(t)
          PROVE  /\ absences'[f[m]] \in AbsenceRow
                 /\ absences'[f[m]].session = t.session
                 /\ absences'[f[m]].student = m
        <3>1. f[m] \in AbsenceIds /\ m \in Students
            BY <1>2, <2>1
        <3>2. PICK n \in NewIn(t) :
                 /\ f[n] = f[m]
                 /\ absences'[f[m]] = [session |-> t.session, student |-> n,
                                       absent |-> n \in t.absent]
            BY <1>4, <3>1 DEF BulkStore
        <3>3. n = m
            BY <1>4, <3>2 DEF BulkStore
        <3>. QED
            BY <1>2, <3>1, <3>2, <3>3 DEF AbsenceRow
    <2>5. \A i \in N : absences'[i] \in AbsenceRow
        BY <2>4
    <2>6. ASSUME NEW i \in AbsenceIds \ N, AbsenceIsLive(i)'
          PROVE  /\ AbsenceIsLive(i)
                 /\ absences'[i].session = absences[i].session
                 /\ absences'[i].student = absences[i].student
        <3>1. CASE \E m \in StillIn(t) : f[m] = i
            <4>1. AbsenceIsLive(i)
                BY <1>4, <3>1 DEF BulkStore, StillIn
            <4>. QED
                BY <1>1, <1>4, <4>1, BulkUpdates
        <3>2. CASE ~\E m \in StillIn(t) : f[m] = i
            <4>1. absences'[i] = absences[i]
                BY <1>4, <2>6, <3>2 DEF BulkStore
            <4>. QED
                BY <2>6, <4>1 DEF AbsenceIsLive
        <3>. QED
            BY <3>1, <3>2
    <2>7. \A s \in Sessions, m \in Students : Reserved(s, m)' => Reserved(s, m)
        BY <2>3 DEF NoNewHold, Reserved
    <2>8. ASSUME NEW i \in N, NEW s \in Sessions, NEW m \in Students,
                 absences'[i].session = s, absences'[i].student = m
          PROVE  RowsOf(s, m) = {} /\ ~Reserved(s, m)'
        <3>1. PICK n \in NewIn(t) : i = f[n]
            OBVIOUS
        <3>2. s = t.session /\ m = n
            BY <2>4, <2>8, <3>1
        <3>3. ~Reserved(t.session, n) /\ RowsOf(t.session, n) = {}
            BY <1>4 DEF BulkStore, Conflict
        <3>. QED
            BY <2>7, <3>2, <3>3
    <2>9. ASSUME NEW i \in N, NEW j \in N,
                 absences'[i].student = absences'[j].student
          PROVE  i = j
        <3>1. PICK m \in NewIn(t) : i = f[m]
            OBVIOUS
        <3>2. PICK n \in NewIn(t) : j = f[n]
            OBVIOUS
        <3>. QED
            BY <2>4, <2>9, <3>1, <3>2
    <2>. HIDE DEF N
    <2>. QED
        BY <2>2, <2>3, <2>5, <2>6, <2>8, <2>9, UniqueInsert
<1>. QED
    BY <1>3, <1>4 DEF BulkCommit

\* A savepoint takes its key only while no row and no other savepoint has it.
LEMMA UpsertUnique ==
    ASSUME Typed, UniqueAbsence, NEW w \in Workers, ScanUpsert(w)
    PROVE  UniqueAbsence'
<1>. DEFINE t == tx[w]
            row == tx'[w].row
<1>1. /\ absences' = absences /\ \A x \in Workers \ {w} : tx'[x] = tx[x]
      /\ tx'[w].session = t.session /\ tx'[w].student = t.student
    BY UpsertFacts
<1>2. row = NULL => /\ ~Reserved(t.session, t.student)
                    /\ RowsOf(t.session, t.student) = {}
    <2>1. /\ row = IF t.row = NULL THEN Load(t.session, t.student) ELSE t.row
          /\ t.row = NULL => ~Reserved(t.session, t.student)
        BY UpsertFacts
    <2>. QED
        BY <2>1, LoadSnapshot DEF Typed, TablesTypeOK
<1>3. \A s, m : RowsOf(s, m)' = RowsOf(s, m)
    BY <1>1 DEF RowsOf, AbsenceIsLive
<1>4. \A x \in Workers \ {w} : \A s, m : HoldsKey(x, s, m)' <=> HoldsKey(x, s, m)
    BY <1>1 DEF HoldsKey
<1>5. \A s, m : HoldsKey(w, s, m)' =>
                    row = NULL /\ s = t.session /\ m = t.student
    BY <1>1 DEF HoldsKey
<1>. HIDE DEF row
<1>6. UniqueIn(absences')
    BY <1>1 DEF UniqueAbsence
<1>7. ASSUME NEW s \in Sessions, NEW m \in Students,
             NEW x \in Workers, HoldsKey(x, s, m)'
      PROVE  RowsOf(s, m)' = {}
    <2>1. CASE x = w
        BY <1>2, <1>3, <1>5, <1>7, <2>1
    <2>2. CASE x # w
        BY <1>3, <1>4, <1>7, <2>2 DEF UniqueAbsence, Reserved
    <2>. QED
        BY <2>1, <2>2
<1>8. ASSUME NEW s \in Sessions, NEW m \in Students, NEW x \in Workers,
             NEW y \in Workers, HoldsKey(x, s, m)', HoldsKey(y, s, m)'
      PROVE  x = y
    <2>1. CASE x = w /\ y # w
        BY <1>2, <1>4, <1>5, <1>8, <2>1 DEF Reserved
    <2>2. CASE x # w /\ y = w
        BY <1>2, <1>4, <1>5, <1>8, <2>2 DEF Reserved
    <2>3. CASE x # w /\ y # w
        BY <1>4, <1>8, <2>3 DEF UniqueAbsence
    <2>. QED
        BY <2>1, <2>2, <2>3
<1>9. \A s \in Sessions, m \in Students : Reserved(s, m)' => RowsOf(s, m)' = {}
    BY <1>7 DEF Reserved
<1>. QED
    BY <1>6, <1>8, <1>9 DEF UniqueAbsence

\* While a scan looks for its original absence it keeps the key it holds.
LEMMA LookupUnique ==
    ASSUME Typed, UniqueAbsence, NEW w \in Workers, ScanLookup(w)
    PROVE  UniqueAbsence'
<1>1. CASE Abort(w, tx[w].session, tx[w].student)
    BY <1>1, AbortUnique
<1>2. CASE ~Abort(w, tx[w].session, tx[w].student)
    <2>1. NoNewRow
        BY <1>2, LookupFacts DEF NoNewRow, AbsenceIsLive
    <2>2. NoNewHold
        BY <1>2, LookupFacts DEF NoNewHold, HoldsKey
    <2>. QED
        BY <2>1, <2>2, UniqueKept
<1>. QED
    BY <1>1, <1>2

\* A scan stores the row it inserted, under the key it holds, or updates one.
LEMMA ScanUnique ==
    ASSUME Typed, UniqueAbsence, NEW w \in Workers, ScanCommit(w)
    PROVE  UniqueAbsence'
<1>1. tx[w] \in ScanTx
    BY InFlight DEF Typed, ScanCommit
<1>2. /\ tx[w].session \in Sessions /\ tx[w].student \in Students
      /\ tx[w].row \in Snapshot \cup {NULL}
    BY <1>1 DEF ScanTx
<1>3. CASE ScanFail(w)
    BY <1>3, AbortUnique DEF ScanFail
<1>4. CASE ScanDeletedTwice(w)
    <2>1. NoNewRow
        BY <1>4 DEF ScanDeletedTwice, NoNewRow, AbsenceIsLive
    <2>2. NoNewHold
        BY <1>4, IdleHoldsNothing DEF ScanDeletedTwice, Finish
    <2>. QED
        BY <2>1, <2>2, UniqueKept
<1>5. ASSUME NEW i \in AbsenceIds, ScanStore(w, i)
      PROVE  UniqueAbsence'
    <2>. DEFINE t == tx[w]
    <2>1. /\ NoNewHold
          /\ \A s \in Sessions, m \in Students : ~HoldsKey(w, s, m)'
        BY <1>5, IdleHoldsNothing DEF ScanStore, Finish
    <2>2. \A j \in AbsenceIds \ {i} :
            absences'[j] = absences[j] \/ absences'[j] = Gone
        BY <1>5 DEF ScanStore
    <2>3. absences'[i] = Gone \/ absences'[i] = CheckIn(t, i)
        BY <1>5 DEF ScanStore
    <2>4. \A j \in AbsenceIds \ {i} :
            AbsenceIsLive(j)' =>
                /\ AbsenceIsLive(j)
                /\ absences'[j].session = absences[j].session
                /\ absences'[j].student = absences[j].student
        BY <2>2 DEF AbsenceIsLive
    <2>5. CASE t.row # NULL
        <3>1. AbsenceIsLive(i)
            BY <1>5, <2>5 DEF ScanStore
        <3>2. absences[i] \in AbsenceRow
            BY <3>1 DEF AbsenceIsLive, Typed, TablesTypeOK
        <3>3. /\ CheckIn(t, i).session = absences[i].session
              /\ CheckIn(t, i).student = absences[i].student
            BY <2>5, <3>2 DEF CheckIn, AbsenceRow
        <3>4. NoNewRow
            BY <2>3, <2>4, <3>1, <3>3 DEF NoNewRow, AbsenceIsLive
        <3>. QED
            BY <2>1, <3>4, UniqueKept
    <2>6. CASE t.row = NULL
        <3>1. ~AbsenceIsLive(i)
            BY <1>5, <2>6 DEF ScanStore, AbsenceIsLive
        <3>2. absences'[i] = [session |-> t.session, student |-> t.student,
                              absent |-> FALSE]
            BY <1>5, <2>6, <3>1 DEF ScanStore, CheckIn
        <3>3. absences'[i] \in AbsenceRow
            BY <1>2, <3>2 DEF AbsenceRow
        <3>4. HoldsKey(w, t.session, t.student)
            BY <2>6 DEF HoldsKey, ScanCommit
        <3>5. RowsOf(t.session, t.student) = {}
            BY <1>2, <3>4 DEF UniqueAbsence, Reserved
        <3>6. ASSUME NEW s \in Sessions, NEW m \in Students, NEW x \in Workers,
                     s = t.session, m = t.student, HoldsKey(x, s, m)'
              PROVE  FALSE
            <4>1. HoldsKey(x, s, m)
                BY <2>1, <3>6 DEF NoNewHold
            <4>2. HoldsKey(w, s, m)
                BY <3>4, <3>6
            <4>3. x = w
                BY <4>1, <4>2 DEF UniqueAbsence
            <4>. QED
                BY <2>1, <3>6, <4>3
        <3>7. ASSUME NEW s \in Sessions, NEW m \in Students,
                     absences'[i].session = s, absences'[i].student = m
              PROVE  RowsOf(s, m) = {} /\ ~Reserved(s, m)'
            <4>1. s = t.session /\ m = t.student
                BY <3>2, <3>7
            <4>. QED
                BY <3>5, <3>6, <4>1 DEF Reserved
        <3>. DEFINE N == {i}
        <3>8. N \in SUBSET AbsenceIds
            OBVIOUS
        <3>. QED
            BY <2>1, <2>4, <3>3, <3>7, <3>8, UniqueInsert
    <2>. QED
        BY <2>5, <2>6
<1>. QED
    BY <1>3, <1>4, <1>5 DEF ScanCommit

\* A correction makes no absence row.
LEMMA CorrectUnique ==
    ASSUME Typed, UniqueAbsence, NEW w \in Workers, CorrectCommit(w)
    PROVE  UniqueAbsence'
<1>1. tx[w] \in CorrectTx
    BY InFlight DEF Typed, CorrectCommit
<1>2. /\ tx[w].row \in Snapshot /\ tx[w].new \in BOOLEAN
      /\ tx[w].row.id \in AbsenceIds
    BY <1>1 DEF CorrectTx, Snapshot
<1>3. CASE CorrectFail(w)
    BY <1>3, AbortUnique DEF CorrectFail
<1>4. ASSUME NEW c \in CorrectionIds, CorrectStore(w, c)
      PROVE  UniqueAbsence'
    <2>1. Merged(tx[w].row, tx[w].new) \in BOOLEAN
        BY <1>2, <1>4, MergedBoolean DEF CorrectStore
    <2>2. NoNewRow
        <3>1. CASE tx[w].inWindow
            BY <1>2, <1>4, <2>1, <3>1, UpdateMakesNoRow DEF CorrectStore
        <3>2. CASE ~tx[w].inWindow
            BY <1>4, <3>2 DEF CorrectStore, NoNewRow, AbsenceIsLive
        <3>. QED
            BY <3>1, <3>2
    <2>3. NoNewHold
        BY <1>4, IdleHoldsNothing DEF CorrectStore, Finish
    <2>. QED
        BY <2>2, <2>3, UniqueKept
<1>. QED
    BY <1>3, <1>4 DEF CorrectCommit

\* Nor does a review.
LEMMA ReviewUnique ==
    ASSUME Typed, UniqueAbsence, CorrectionsHaveRows, NEW w \in Workers,
           ReviewCommit(w)
    PROVE  UniqueAbsence'
<1>1. tx[w] \in ReviewTx /\ tx[w] # Idle
    BY InFlight DEF Typed, ReviewCommit
<1>2. /\ tx[w].row \in Snapshot /\ tx[w].new \in BOOLEAN
      /\ tx[w].row.id \in AbsenceIds
    BY <1>1 DEF ReviewTx, Snapshot
<1>3. CASE ReviewFail(w)
    BY <1>3, AbortUnique DEF ReviewFail
<1>4. CASE ReviewStore(w)
    <2>1. AbsenceIsLive(tx[w].row.id)
        BY <1>1, <1>4, ReviewedRowLives DEF ReviewStore
    <2>2. Merged(tx[w].row, tx[w].new) \in BOOLEAN
        BY <1>2, <2>1, MergedBoolean
    <2>3. NoNewRow
        <3>1. CASE tx[w].decision = "APPROVED"
            BY <1>2, <1>4, <2>1, <2>2, <3>1, UpdateMakesNoRow DEF ReviewStore
        <3>2. CASE tx[w].decision # "APPROVED"
            BY <1>4, <3>2 DEF ReviewStore, NoNewRow, AbsenceIsLive
        <3>. QED
            BY <3>1, <3>2
    <2>4. NoNewHold
        BY <1>4, IdleHoldsNothing DEF ReviewStore, Finish
    <2>. QED
        BY <2>3, <2>4, UniqueKept
<1>. QED
    BY <1>3, <1>4 DEF ReviewCommit

\* Every step keeps at most one row per session and student.
LEMMA NextUnique ==
    ASSUME Typed, UniqueAbsence, CorrectionsHaveRows, [Next]_vars
    PROVE  UniqueAbsence'
<1>1. ASSUME NEW w \in Workers, Advance(w)
      PROVE  UniqueAbsence'
    BY <1>1, TapUnique, BulkUnique, UpsertUnique, LookupUnique, ScanUnique,
       CorrectUnique,
       ReviewUnique DEF Advance
<1>2. CASE UNCHANGED <<absences, tx>>
    BY <1>2, UniqueKept DEF NoNewRow, NoNewHold, AbsenceIsLive, HoldsKey
<1>3. ASSUME NEW s \in Sessions, WindowCloses(s)
      PROVE  UniqueAbsence'
    BY <1>2, <1>3 DEF WindowCloses
<1>4. CASE UNCHANGED vars
    BY <1>2, <1>4 DEF vars
<1>. QED
    BY <1>1, <1>3, <1>4, StartUnique DEF Next

\* The initial table has no duplicates and no scan is in flight.
LEMMA InitUnique == Init => UniqueAbsence
<1>. SUFFICES ASSUME Init PROVE UniqueAbsence
    OBVIOUS
<1>1. UniqueIn(absences)
    BY InitialAssumption DEF Init
<1>2. \A w \in Workers : \A s, m : ~HoldsKey(w, s, m)
    BY DEF Init, HoldsKey
<1>. QED
    BY <1>1, <1>2 DEF UniqueAbsence, Reserved

(***************************************************************************)
(* Every correction refers to a row that exists.                           *)
(***************************************************************************)

\* Rows stay in the table.
RowsStay == \A i \in AbsenceIds : AbsenceIsLive(i) => AbsenceIsLive(i)'

\* No correction is new or refers to another row.
NoNewReference ==
    \A c \in CorrectionIds :
        /\ corrections[c] # Free => corrections'[c] # Free
        /\ CorrectionIsLive(c)' =>
            CorrectionIsLive(c) /\ corrections'[c].absence = corrections[c].absence

\* No review begins.
NoNewReview ==
    \A w \in Workers :
        tx'[w] # Idle /\ tx'[w].op = "review" => tx[w] # Idle /\ tx'[w] = tx[w]

\* Reviews in flight keep the row of their correction.
LEMMA ReviewsKept ==
    ASSUME Typed, CorrectionsHaveRows, NoNewReference, NoNewReview
    PROVE  \A w \in Workers : \A c :
            /\ tx'[w] # Idle /\ tx'[w].op = "review"
            /\ c = tx'[w].correction
            => /\ corrections'[c] # Free
               /\ CorrectionIsLive(c)' => tx'[w].row.id = corrections'[c].absence
<1>. SUFFICES ASSUME NEW w \in Workers, tx'[w] # Idle, tx'[w].op = "review",
                     NEW c, c = tx'[w].correction
              PROVE  /\ corrections'[c] # Free
                     /\ CorrectionIsLive(c)' =>
                            tx'[w].row.id = corrections'[c].absence
    OBVIOUS
<1>1. tx[w] # Idle /\ tx'[w] = tx[w] /\ tx[w].op = "review"
    BY DEF NoNewReview
<1>2. tx[w] \in ReviewTx
    BY <1>1, InFlight DEF Typed
<1>3. c \in CorrectionIds /\ c = tx[w].correction
    BY <1>1, <1>2 DEF ReviewTx
<1>4. /\ corrections[c] # Free
      /\ CorrectionIsLive(c) => tx[w].row.id = corrections[c].absence
    BY <1>1, <1>3 DEF CorrectionsHaveRows
<1>. QED
    BY <1>1, <1>3, <1>4 DEF NoNewReference

\* With no row deleted and no correction or review begun, nothing is lost.
LEMMA CorrectionsKept ==
    ASSUME Typed, CorrectionsHaveRows, RowsStay, NoNewReference, NoNewReview
    PROVE  CorrectionsHaveRows'
<1>1. ASSUME NEW c \in CorrectionIds, CorrectionIsLive(c)',
             NEW i, i = corrections'[c].absence
      PROVE  AbsenceIsLive(i)'
    <2>1. CorrectionIsLive(c) /\ i = corrections[c].absence
        BY <1>1 DEF NoNewReference
    <2>2. i \in AbsenceIds
        BY <2>1 DEF CorrectionIsLive, Typed, TablesTypeOK, CorrectionRow
    <2>3. AbsenceIsLive(i)
        BY <2>1 DEF CorrectionsHaveRows, AbsenceIsLive
    <2>. QED
        BY <2>2, <2>3 DEF RowsStay
<1>2. \A c \in CorrectionIds : \A i :
        CorrectionIsLive(c)' /\ i = corrections'[c].absence => AbsenceIsLive(i)'
    BY <1>1
<1>. QED
    BY <1>2, ReviewsKept DEF CorrectionsHaveRows, CorrectionIsLive, AbsenceIsLive

\* An UPDATE of a live row deletes nothing.
LEMMA UpdateKeepsRows ==
    ASSUME Typed, NEW i \in AbsenceIds, AbsenceIsLive(i), NEW v \in BOOLEAN,
           absences' = [absences EXCEPT ![i].absent = v]
    PROVE  RowsStay
<1>1. absences[i] \in AbsenceRow
    BY DEF AbsenceIsLive, Typed, TablesTypeOK
<1>2. \A j \in AbsenceIds :
        absences'[j] = IF j = i THEN [absences[i] EXCEPT !.absent = v]
                                ELSE absences[j]
    BY DEF Typed, TablesTypeOK
<1>3. [absences[i] EXCEPT !.absent = v] \in AbsenceRow
    BY <1>1 DEF AbsenceRow
<1>. QED
    BY <1>2, <1>3, MarksAssumption DEF RowsStay, AbsenceIsLive

\* Corrections that are not written refer to what they did.
LEMMA SameReferences ==
    ASSUME corrections' = corrections
    PROVE  NoNewReference
BY DEF NoNewReference, CorrectionIsLive

\* A request that ends is not a new review.
LEMMA IdleIsNoReview ==
    ASSUME Typed, NEW w \in Workers, tx' = [tx EXCEPT ![w] = Idle]
    PROVE  NoNewReview
<1>1. \A x \in Workers : tx'[x] = IF x = w THEN Idle ELSE tx[x]
    BY DEF Typed, FlightOK
<1>. QED
    BY <1>1 DEF NoNewReview

\* A rollback leaves every correction its row.
LEMMA AbortCorrections ==
    ASSUME Typed, CorrectionsHaveRows, NEW w \in Workers, NEW s, NEW m,
           Abort(w, s, m)
    PROVE  CorrectionsHaveRows'
<1>1. NoNewReference /\ NoNewReview
    BY SameReferences, IdleIsNoReview DEF Abort
<1>2. RowsStay
    BY DEF Abort, RowsStay, AbsenceIsLive
<1>. QED
    BY <1>1, <1>2, CorrectionsKept

\* A tap deletes no row, so it leaves every correction its row.
LEMMA TapCorrections ==
    ASSUME Typed, CorrectionsHaveRows, NEW w \in Workers, TapCommit(w)
    PROVE  CorrectionsHaveRows'
<1>1. tx[w] \in TapTx
    BY InFlight DEF Typed, TapCommit
<1>2. /\ tx[w].session \in Sessions /\ tx[w].student \in Students
      /\ tx[w].absent \in BOOLEAN /\ tx[w].row \in Snapshot \cup {NULL}
    BY <1>1 DEF TapTx
<1>3. CASE TapFail(w)
    BY <1>3, AbortCorrections DEF TapFail
<1>4. CASE TapUpdate(w)
    <2>1. tx[w].row.id \in AbsenceIds
        BY <1>2, <1>4 DEF TapUpdate, Snapshot
    <2>2. Merged(tx[w].row, tx[w].absent) \in BOOLEAN
        BY <1>2, <1>4, MergedBoolean DEF TapUpdate
    <2>3. RowsStay
        BY <1>4, <2>1, <2>2, UpdateKeepsRows DEF TapUpdate
    <2>4. NoNewReference /\ NoNewReview
        BY <1>4, SameReferences, IdleIsNoReview DEF TapUpdate, Finish
    <2>. QED
        BY <2>3, <2>4, CorrectionsKept
<1>5. ASSUME NEW i \in AbsenceIds, TapInsert(w, i)
      PROVE  CorrectionsHaveRows'
    <2>1. RowsStay
        BY <1>5 DEF TapInsert, Typed, TablesTypeOK, RowsStay, AbsenceIsLive
    <2>2. NoNewReference /\ NoNewReview
        BY <1>5, SameReferences, IdleIsNoReview DEF TapInsert, Finish
    <2>. QED
        BY <2>1, <2>2, CorrectionsKept
<1>. QED
    BY <1>3, <1>4, <1>5 DEF TapCommit

\* A sheet deletes no row, so it leaves every correction its row.
LEMMA BulkCorrections ==
    ASSUME Typed, CorrectionsHaveRows, NEW w \in Workers, BulkCommit(w)
    PROVE  CorrectionsHaveRows'
<1>1. tx[w] \in BulkTx
    BY InFlight DEF Typed, BulkCommit
<1>2. CASE BulkFail(w)
    BY <1>2, AbortCorrections DEF BulkFail
<1>3. ASSUME NEW f \in [tx[w].class -> AbsenceIds], BulkStore(w, f)
      PROVE  CorrectionsHaveRows'
    <2>1. RowsStay
        BY <1>1, <1>3, BulkUpdates, MarksAssumption DEF RowsStay, AbsenceIsLive
    <2>2. NoNewReference /\ NoNewReview
        BY <1>3, SameReferences, IdleIsNoReview DEF BulkStore, Finish
    <2>. QED
        BY <2>1, <2>2, CorrectionsKept
<1>. QED
    BY <1>2, <1>3 DEF BulkCommit

\* The savepoint and the lookup of a scan touch no committed row.
LEMMA UpsertCorrections ==
    ASSUME Typed, CorrectionsHaveRows, NEW w \in Workers,
           ScanUpsert(w) \/ ScanLookup(w)
    PROVE  CorrectionsHaveRows'
<1>1. CASE Abort(w, tx[w].session, tx[w].student)
    BY <1>1, AbortCorrections
<1>2. CASE ScanUpsert(w) \/ ~Abort(w, tx[w].session, tx[w].student)
    <2>1. /\ absences' = absences /\ corrections' = corrections
          /\ tx'[w].op = "scan"
          /\ \A x \in Workers \ {w} : tx'[x] = tx[x]
        BY <1>2, UpsertFacts, LookupFacts
    <2>2. NoNewReview
        BY <2>1 DEF NoNewReview
    <2>3. NoNewReference
        BY <2>1, SameReferences
    <2>4. RowsStay
        BY <2>1 DEF RowsStay, AbsenceIsLive
    <2>. QED
        BY <2>2, <2>3, <2>4, CorrectionsKept
<1>. QED
    BY <1>1, <1>2

\* The rows a scan deletes take their corrections with them.
LEMMA ScanCorrections ==
    ASSUME Typed, CorrectionsHaveRows, NEW w \in Workers, ScanCommit(w)
    PROVE  CorrectionsHaveRows'
<1>1. tx[w] \in ScanTx
    BY InFlight DEF Typed, ScanCommit
<1>2. CASE ScanFail(w)
    BY <1>2, AbortCorrections DEF ScanFail
<1>3. CASE ScanDeletedTwice(w)
    <2>1. NoNewReference /\ NoNewReview /\ RowsStay
        BY <1>3, SameReferences, IdleIsNoReview
           DEF ScanDeletedTwice, Finish, RowsStay, AbsenceIsLive
    <2>. QED
        BY <2>1, CorrectionsKept
<1>4. ASSUME NEW i \in AbsenceIds, ScanStore(w, i)
      PROVE  CorrectionsHaveRows'
    <2>. DEFINE D == {j \in AbsenceIds : j = tx[w].original /\ AbsenceIsLive(j)}
    <2>1. /\ corrections' = Cascade(D)
          /\ \A j \in AbsenceIds \ D :
                absences'[j] = IF j = i THEN CheckIn(tx[w], i) ELSE absences[j]
        BY <1>4 DEF ScanStore
    <2>2. NoNewReview
        BY <1>4, IdleIsNoReview DEF ScanStore, Finish
    <2>3. \A c \in CorrectionIds :
            /\ corrections[c] # Free => corrections'[c] # Free
            /\ CorrectionIsLive(c)' =>
                    /\ CorrectionIsLive(c)
                    /\ corrections'[c] = corrections[c]
                    /\ corrections[c].absence \notin D
        BY <2>1, MarksAssumption DEF Cascade, CorrectionIsLive
    <2>4. NoNewReference
        BY <2>3 DEF NoNewReference
    <2>5. ASSUME NEW j \in AbsenceIds \ D, AbsenceIsLive(j)
          PROVE  AbsenceIsLive(j)'
        <3>1. CASE j # i
            BY <2>1, <2>5, <3>1 DEF AbsenceIsLive
        <3>2. CASE j = i
            <4>1. absences'[i] = CheckIn(tx[w], i)
                BY <2>1, <2>5, <3>2
            <4>2. absences'[i] \in AbsenceRow
                <5>1. tx[w].row # NULL
                    BY <1>4, <2>5, <3>2 DEF ScanStore, AbsenceIsLive
                <5>2. /\ tx[w].row \in Snapshot /\ AbsenceIsLive(tx[w].row.id)
                      /\ absences[i] \in AbsenceRow
                    BY <1>1, <1>4, <5>1
                       DEF ScanTx, ScanStore, AbsenceIsLive, Typed, TablesTypeOK
                <5>3. Merged(tx[w].row, FALSE) \in BOOLEAN
                    BY <5>2, MergedBoolean
                <5>. QED
                    BY <4>1, <5>1, <5>2, <5>3 DEF CheckIn, AbsenceRow
            <4>. QED
                BY <3>2, <4>2, MarksAssumption DEF AbsenceIsLive
        <3>. QED
            BY <3>1, <3>2
    <2>6. ASSUME NEW c \in CorrectionIds, CorrectionIsLive(c)',
                 NEW j, j = corrections'[c].absence
          PROVE  AbsenceIsLive(j)'
        <3>1. /\ CorrectionIsLive(c) /\ j = corrections[c].absence
              /\ j \notin D
            BY <2>3, <2>6
        <3>2. j \in AbsenceIds
            BY <3>1 DEF CorrectionIsLive, Typed, TablesTypeOK, CorrectionRow
        <3>3. AbsenceIsLive(j)
            BY <3>1 DEF CorrectionsHaveRows, AbsenceIsLive
        <3>. QED
            BY <2>5, <3>1, <3>2, <3>3
    <2>. HIDE DEF D
    <2>. QED
        BY <2>2, <2>4, <2>6, ReviewsKept
           DEF CorrectionsHaveRows, CorrectionIsLive, AbsenceIsLive
<1>. QED
    BY <1>2, <1>3, <1>4 DEF ScanCommit

\* A new correction refers to the row its transaction just found; a review in
\* flight is of an older one.
LEMMA CorrectCorrections ==
    ASSUME Typed, CorrectionsHaveRows, NEW w \in Workers, CorrectCommit(w)
    PROVE  CorrectionsHaveRows'
<1>1. tx[w] \in CorrectTx
    BY InFlight DEF Typed, CorrectCommit
<1>2. /\ tx[w].row \in Snapshot /\ tx[w].new \in BOOLEAN
      /\ tx[w].row.id \in AbsenceIds
    BY <1>1 DEF CorrectTx, Snapshot
<1>3. CASE CorrectFail(w)
    BY <1>3, AbortCorrections DEF CorrectFail
<1>4. ASSUME NEW c \in CorrectionIds, CorrectStore(w, c)
      PROVE  CorrectionsHaveRows'
    <2>1. Merged(tx[w].row, tx[w].new) \in BOOLEAN
        BY <1>2, <1>4, MergedBoolean DEF CorrectStore
    <2>2. RowsStay
        <3>1. CASE tx[w].inWindow
            BY <1>2, <1>4, <2>1, <3>1, UpdateKeepsRows DEF CorrectStore
        <3>2. CASE ~tx[w].inWindow
            BY <1>4, <3>2 DEF CorrectStore, RowsStay, AbsenceIsLive
        <3>. QED
            BY <3>1, <3>2
    <2>3. /\ corrections[c] = Free
          /\ corrections'[c] \notin {Free, Gone}
          /\ corrections'[c].absence = tx[w].row.id
          /\ \A d \in CorrectionIds \ {c} : corrections'[d] = corrections[d]
        <3>1. corrections'[c] =
                [absence |-> tx[w].row.id, original |-> tx[w].row.absent,
                 new |-> tx[w].new,
                 status |-> IF tx[w].inWindow THEN "APPROVED" ELSE "PENDING"]
            BY <1>4 DEF CorrectStore, Typed, TablesTypeOK
        <3>2. corrections'[c] \in CorrectionRow
            BY <1>2, <3>1 DEF CorrectionRow, CorrectionStatus, Snapshot
        <3>. QED
            BY <1>4, <3>1, <3>2, MarksAssumption
               DEF CorrectStore, Typed, TablesTypeOK
    <2>4. NoNewReview
        BY <1>4, IdleIsNoReview DEF CorrectStore, Finish
    <2>5. ASSUME NEW d \in CorrectionIds, CorrectionIsLive(d)',
                 NEW i, i = corrections'[d].absence
          PROVE  AbsenceIsLive(i)'
        <3>1. CASE d = c
            BY <1>2, <1>4, <2>2, <2>3, <2>5, <3>1
               DEF CorrectStore, RowsStay, AbsenceIsLive
        <3>2. CASE d # c
            <4>1. CorrectionIsLive(d) /\ i = corrections[d].absence
                BY <2>3, <2>5, <3>2 DEF CorrectionIsLive
            <4>2. i \in AbsenceIds
                BY <4>1 DEF CorrectionIsLive, Typed, TablesTypeOK, CorrectionRow
            <4>3. AbsenceIsLive(i)
                BY <4>1 DEF CorrectionsHaveRows, AbsenceIsLive
            <4>. QED
                BY <2>2, <4>2, <4>3 DEF RowsStay
        <3>. QED
            BY <3>1, <3>2
    <2>6. ASSUME NEW x \in Workers, tx'[x] # Idle, tx'[x].op = "review",
                 NEW d, d = tx'[x].correction
          PROVE  /\ corrections'[d] # Free
                 /\ CorrectionIsLive(d)' => tx'[x].row.id = corrections'[d].absence
        <3>1. tx[x] # Idle /\ tx'[x] = tx[x] /\ tx[x].op = "review"
            BY <2>4, <2>6 DEF NoNewReview
        <3>2. tx[x] \in ReviewTx
            BY <3>1, InFlight DEF Typed
        <3>3. d \in CorrectionIds /\ d = tx[x].correction
            BY <2>6, <3>1, <3>2 DEF ReviewTx
        <3>4. /\ corrections[d] # Free
              /\ CorrectionIsLive(d) => tx[x].row.id = corrections[d].absence
            BY <3>1, <3>3 DEF CorrectionsHaveRows
        <3>. QED
            BY <2>3, <3>1, <3>3, <3>4 DEF CorrectionIsLive
    <2>. QED
        BY <2>5, <2>6 DEF CorrectionsHaveRows, CorrectionIsLive, AbsenceIsLive
<1>. QED
    BY <1>3, <1>4 DEF CorrectCommit

\* A review changes no reference.
LEMMA ReviewCorrections ==
    ASSUME Typed, CorrectionsHaveRows, NEW w \in Workers, ReviewCommit(w)
    PROVE  CorrectionsHaveRows'
<1>1. tx[w] \in ReviewTx /\ tx[w] # Idle
    BY InFlight DEF Typed, ReviewCommit
<1>2. /\ tx[w].row \in Snapshot /\ tx[w].new \in BOOLEAN
      /\ tx[w].row.id \in AbsenceIds /\ tx[w].correction \in CorrectionIds
      /\ tx[w].decision \in CorrectionStatus
    BY <1>1 DEF ReviewTx, Snapshot
<1>3. CASE ReviewFail(w)
    BY <1>3, AbortCorrections DEF ReviewFail
<1>4. CASE ReviewStore(w)
    <2>. DEFINE c == tx[w].correction
    <2>1. AbsenceIsLive(tx[w].row.id)
        BY <1>1, <1>4, ReviewedRowLives DEF ReviewStore
    <2>2. Merged(tx[w].row, tx[w].new) \in BOOLEAN
        BY <1>2, <2>1, MergedBoolean
    <2>3. RowsStay
        <3>1. CASE tx[w].decision = "APPROVED"
            BY <1>2, <1>4, <2>1, <2>2, <3>1, UpdateKeepsRows DEF ReviewStore
        <3>2. CASE tx[w].decision # "APPROVED"
            BY <1>4, <3>2 DEF ReviewStore, RowsStay, AbsenceIsLive
        <3>. QED
            BY <3>1, <3>2
    <2>4. NoNewReview
        BY <1>4, IdleIsNoReview DEF ReviewStore, Finish
    <2>5. corrections[c] \in CorrectionRow
        BY <1>2, <1>4 DEF ReviewStore, CorrectionIsLive, Typed, TablesTypeOK
    <2>6. \A d \in CorrectionIds :
            \/ corrections'[d] = corrections[d]
            \/ /\ d = c
               /\ corrections'[d] \in CorrectionRow
               /\ corrections'[d].absence = corrections[d].absence
        BY <1>2, <1>4, <2>5 DEF ReviewStore, Typed, TablesTypeOK, CorrectionRow
    <2>7. NoNewReference
        BY <1>2, <2>5, <2>6, MarksAssumption DEF NoNewReference, CorrectionIsLive
    <2>. QED
        BY <2>3, <2>4, <2>7, CorrectionsKept
<1>. QED
    BY <1>3, <1>4 DEF ReviewCommit

\* A review begins with the row of a correction that is there.
LEMMA StartCorrections ==
    ASSUME Typed, CorrectionsHaveRows, NEW w \in Workers, Start(w)
    PROVE  CorrectionsHaveRows'
<1>1. ASSUME NEW op, NEW t, Begin(w, op, t), t.op # "review"
      PROVE  CorrectionsHaveRows'
    <2>1. /\ tx'[w].op # "review"
          /\ \A x \in Workers \ {w} : tx'[x] = tx[x]
        BY <1>1 DEF Begin, Typed, FlightOK
    <2>2. NoNewReview
        BY <2>1 DEF NoNewReview
    <2>3. NoNewReference
        BY <1>1, SameReferences DEF Begin
    <2>4. RowsStay
        BY <1>1 DEF Begin, RowsStay, AbsenceIsLive
    <2>. QED
        BY <2>2, <2>3, <2>4, CorrectionsKept
<1>2. ASSUME NEW c \in CorrectionIds, NEW d, ReviewStart(w, c, d)
      PROVE  CorrectionsHaveRows'
    <2>1. /\ absences' = absences /\ corrections' = corrections
          /\ tx[w] = Idle /\ CorrectionIsLive(c)
        BY <1>2 DEF ReviewStart, Begin
    <2>2. /\ \A x \in Workers \ {w} : tx'[x] = tx[x]
          /\ tx'[w].correction = c
          /\ tx'[w].row.id = corrections[c].absence
        BY <1>2 DEF ReviewStart, Begin, Typed, FlightOK
    <2>. QED
        BY <2>1, <2>2 DEF CorrectionsHaveRows, CorrectionIsLive, AbsenceIsLive
<1>3. ASSUME NEW s, NEW m, NEW v, TapStart(w, s, m, v)
      PROVE  CorrectionsHaveRows'
    BY <1>1, <1>3 DEF TapStart
<1>4. ASSUME NEW u, NEW s, NEW class, NEW away, BulkStart(w, u, s, class, away)
      PROVE  CorrectionsHaveRows'
    BY <1>1, <1>4 DEF BulkStart
<1>5. ASSUME NEW s, NEW m, ScanStart(w, s, m)
      PROVE  CorrectionsHaveRows'
    BY <1>1, <1>5 DEF ScanStart
<1>6. ASSUME NEW i, NEW v, CorrectStart(w, i, v)
      PROVE  CorrectionsHaveRows'
    BY <1>1, <1>6 DEF CorrectStart
<1>. QED
    BY <1>2, <1>3, <1>4, <1>5, <1>6 DEF Start

\* Every step keeps the corrections' rows.
LEMMA NextCorrections ==
    ASSUME Typed, CorrectionsHaveRows, [Next]_vars
    PROVE  CorrectionsHaveRows'
<1>1. ASSUME NEW w \in Workers, Advance(w)
      PROVE  CorrectionsHaveRows'
    BY <1>1, TapCorrections, BulkCorrections, UpsertCorrections,
       ScanCorrections, CorrectCorrections, ReviewCorrections DEF Advance
<1>2. CASE UNCHANGED <<absences, corrections, tx>>
    BY <1>2 DEF CorrectionsHaveRows, CorrectionIsLive, AbsenceIsLive
<1>3. ASSUME NEW s \in Sessions, WindowCloses(s)
      PROVE  CorrectionsHaveRows'
    BY <1>2, <1>3 DEF WindowCloses
<1>4. CASE UNCHANGED vars
    BY <1>2, <1>4 DEF vars
<1>. QED
    BY <1>1, <1>3, <1>4, StartCorrections DEF Next

\* There is no correction, and no review, at the start.
LEMMA InitCorrections == Init => CorrectionsHaveRows
BY DEF Init, CorrectionsHaveRows, CorrectionIsLive

(***************************************************************************)
(* What a request has loaded stays the row of its key, or goes for good.   *)
(***************************************************************************)

\* i is the id of a row of the key in the table, or of one deleted since.
OfKey(table, i, s, m) ==
    /\ table[i] # Free
    /\ table[i] # Gone => table[i].session = s /\ table[i].student = m

\* A tap, a sheet and a scan write the rows they loaded for their keys.
Loaded(table, t) ==
    /\ t.op \in {"tap", "scan"} /\ t.row # NULL =>
            OfKey(table, t.row.id, t.session, t.student)
    /\ t.op = "bulk" =>
            \A m \in KnownIn(t) : OfKey(table, t.row[m].id, t.session, m)

KeysInv == \A w \in Workers : tx[w] # Idle => Loaded(absences, tx[w])

\* The row under id i is written, or inserted, for session s.
Written(i, s) ==
    /\ absences'[i] \in AbsenceRow /\ absences'[i].session = s
    /\ \/ absences[i] = Free
       \/ /\ AbsenceIsLive(i) /\ absences[i].session = s
          /\ absences[i].student = absences'[i].student

\* A step writes rows of session s alone, and deletes none.
Writes(s) ==
    \A i \in AbsenceIds : absences'[i] = absences[i] \/ Written(i, s)

\* The row under id i is written, or inserted, for a key.
CheckedIn(i, s, m) == Written(i, s) /\ absences'[i].student = m

\* A scan deletes the row it found to be the original, and writes one row of
\* its own key unless that was the original.
Strikes(w) ==
    LET t == tx[w] IN
    /\ t \in ScanTx /\ t # Idle /\ t.phase = "looked"
    /\ t.original \in AbsenceIds
    /\ AbsenceIsLive(t.original) /\ absences'[t.original] = Gone
    /\ \A i \in AbsenceIds \ {t.original} :
            absences'[i] = absences[i] \/ CheckedIn(i, t.session, t.student)
    /\ \/ t.row # NULL /\ t.row.id = t.original
       \/ \E i \in AbsenceIds : CheckedIn(i, t.session, t.student)

\* Rows keep their key, and rows once deleted stay so.
RowsEvolve ==
    \A i \in AbsenceIds : absences[i] # Free =>
        /\ absences'[i] # Free
        /\ AbsenceIsLive(i)' =>
            /\ AbsenceIsLive(i)
            /\ absences'[i].session = absences[i].session
            /\ absences'[i].student = absences[i].student

\* An UPDATE of a live row writes rows of its session.
LEMMA UpdateWrites ==
    ASSUME Typed, NEW row \in Snapshot, NEW v \in BOOLEAN,
           AbsenceIsLive(row.id),
           absences' = [absences EXCEPT ![row.id].absent = Merged(row, v)]
    PROVE  /\ absences[row.id].session \in Sessions
           /\ Writes(absences[row.id].session)
<1>1. row.id \in AbsenceIds /\ absences[row.id] \in AbsenceRow
    BY DEF Snapshot, AbsenceIsLive, Typed, TablesTypeOK
<1>2. Merged(row, v) \in BOOLEAN
    BY MergedBoolean
<1>3. \A i \in AbsenceIds :
        absences'[i] = IF i = row.id
                       THEN [absences[row.id] EXCEPT !.absent = Merged(row, v)]
                       ELSE absences[i]
    BY <1>1 DEF Typed, TablesTypeOK
<1>4. Written(row.id, absences[row.id].session)
    BY <1>1, <1>2, <1>3 DEF Written, AbsenceRow
<1>. QED
    BY <1>1, <1>3, <1>4 DEF Writes, AbsenceRow

\* A commit of a tap writes a row of its session.
LEMMA TapWrites ==
    ASSUME Typed, KeysInv, NEW w \in Workers, TapCommit(w)
    PROVE  UNCHANGED absences \/ Writes(tx[w].session)
<1>1. tx[w] \in TapTx /\ tx[w] # Idle /\ tx[w].op = "tap"
    BY InFlight DEF Typed, TapCommit
<1>2. /\ tx[w].session \in Sessions /\ tx[w].student \in Students
      /\ tx[w].absent \in BOOLEAN /\ tx[w].row \in Snapshot \cup {NULL}
    BY <1>1 DEF TapTx
<1>3. CASE TapUpdate(w)
    <2>1. tx[w].row \in Snapshot /\ AbsenceIsLive(tx[w].row.id)
        BY <1>2, <1>3 DEF TapUpdate
    <2>2. absences[tx[w].row.id].session = tx[w].session
        BY <1>1, <1>3, <2>1 DEF TapUpdate, KeysInv, Loaded, OfKey, AbsenceIsLive
    <2>. QED
        BY <1>2, <1>3, <2>1, <2>2, UpdateWrites DEF TapUpdate
<1>4. CASE TapFail(w)
    BY <1>4 DEF TapFail, Abort
<1>5. ASSUME NEW i \in AbsenceIds, TapInsert(w, i)
      PROVE  Writes(tx[w].session)
    <2>1. Written(i, tx[w].session)
        BY <1>2, <1>5 DEF TapInsert, Written, AbsenceRow, Typed, TablesTypeOK
    <2>. QED
        BY <1>5, <2>1 DEF TapInsert, Writes, Typed, TablesTypeOK
<1>. QED
    BY <1>3, <1>4, <1>5 DEF TapCommit

\* A sheet writes rows of its session.
LEMMA BulkWrites ==
    ASSUME Typed, KeysInv, NEW w \in Workers, BulkCommit(w)
    PROVE  UNCHANGED absences \/ Writes(tx[w].session)
<1>. DEFINE t == tx[w]
<1>1. tx[w] \in BulkTx /\ tx[w] # Idle /\ tx[w].op = "bulk"
    BY InFlight DEF Typed, BulkCommit
<1>2. CASE BulkFail(w)
    BY <1>2 DEF BulkFail, Abort
<1>3. ASSUME NEW f \in [tx[w].class -> AbsenceIds], BulkStore(w, f),
             NEW i \in AbsenceIds
      PROVE  absences'[i] = absences[i] \/ Written(i, tx[w].session)
    <2>1. CASE \E m \in NewIn(t) : f[m] = i
        <3>1. PICK m \in NewIn(t) :
                  absences'[i] = [session |-> t.session, student |-> m,
                                  absent |-> m \in t.absent]
            BY <1>3, <2>1 DEF BulkStore
        <3>2. absences[i] = Free
            BY <1>3, <2>1 DEF BulkStore
        <3>3. m \in Students /\ t.session \in Sessions
            BY <1>1 DEF NewIn, BulkTx
        <3>4. absences'[i] \in AbsenceRow /\ absences'[i].session = t.session
            BY <3>1, <3>3 DEF AbsenceRow
        <3>. QED
            BY <3>2, <3>4 DEF Written
    <2>2. CASE /\ ~\E m \in NewIn(t) : f[m] = i
               /\ \E m \in StillIn(t) : f[m] = i
        <3>1. PICK m \in StillIn(t) : f[m] = i
            BY <2>2
        <3>2. i = t.row[m].id /\ AbsenceIsLive(i)
            BY <1>3, <3>1 DEF BulkStore, StillIn
        <3>3. absences[i].session = t.session
            BY <1>1, <3>1, <3>2 DEF StillIn, KeysInv, Loaded, OfKey, AbsenceIsLive
        <3>4. /\ absences'[i] \in AbsenceRow
              /\ absences'[i].session = absences[i].session
              /\ absences'[i].student = absences[i].student
            BY <1>1, <1>3, <3>2, BulkUpdates
        <3>. QED
            BY <3>2, <3>3, <3>4 DEF Written
    <2>3. CASE /\ ~\E m \in NewIn(t) : f[m] = i
               /\ ~\E m \in StillIn(t) : f[m] = i
        BY <1>3, <2>3 DEF BulkStore
    <2>. QED
        BY <2>1, <2>2, <2>3
<1>. QED
    BY <1>2, <1>3 DEF BulkCommit, Writes

\* A scan writes a row of its session, and may delete the original.
LEMMA ScanWrites ==
    ASSUME Typed, KeysInv, NEW w \in Workers, ScanCommit(w)
    PROVE  UNCHANGED absences \/ Writes(tx[w].session) \/ Strikes(w)
<1>. DEFINE t == tx[w]
            D == {j \in AbsenceIds : j = t.original /\ AbsenceIsLive(j)}
<1>1. /\ tx[w] \in ScanTx /\ tx[w] # Idle /\ tx[w].op = "scan"
      /\ tx[w].phase = "looked"
    BY InFlight DEF Typed, ScanCommit
<1>2. /\ t.session \in Sessions /\ t.student \in Students
      /\ t.row \in Snapshot \cup {NULL} /\ t.original \in AbsenceIds \cup {NULL}
    BY <1>1 DEF ScanTx
<1>3. CASE ScanFail(w) \/ ScanDeletedTwice(w)
    BY <1>3 DEF ScanFail, ScanDeletedTwice, Abort
<1>4. ASSUME NEW i \in AbsenceIds, ScanStore(w, i)
      PROVE  Writes(t.session) \/ Strikes(w)
    <2>1. \A j \in AbsenceIds :
              absences'[j] = IF j \in D THEN Gone
                             ELSE IF j = i THEN CheckIn(t, i)
                             ELSE absences[j]
        BY <1>4 DEF ScanStore
    <2>2. ASSUME i \notin D PROVE CheckedIn(i, t.session, t.student)
        <3>1. CASE t.row = NULL
            BY <1>2, <1>4, <2>1, <2>2, <3>1
               DEF ScanStore, CheckIn, CheckedIn, Written, AbsenceRow
        <3>2. CASE t.row # NULL
            <4>1. i = t.row.id /\ AbsenceIsLive(i) /\ t.row \in Snapshot
                BY <1>2, <1>4, <3>2 DEF ScanStore
            <4>2. /\ absences[i] \in AbsenceRow
                  /\ absences[i].session = t.session
                  /\ absences[i].student = t.student
                BY <1>1, <3>2, <4>1
                   DEF KeysInv, Loaded, OfKey, AbsenceIsLive, Typed, TablesTypeOK
            <4>3. Merged(t.row, FALSE) \in BOOLEAN
                BY <4>1, MergedBoolean
            <4>4. absences'[i] = [absences[i] EXCEPT !.absent =
                                      Merged(t.row, FALSE)]
                BY <2>1, <2>2, <3>2 DEF CheckIn
            <4>. QED
                BY <4>1, <4>2, <4>3, <4>4 DEF CheckedIn, Written, AbsenceRow
        <3>. QED
            BY <3>1, <3>2
    <2>3. CASE D = {}
        BY <2>1, <2>2, <2>3 DEF Writes, CheckedIn
    <2>4. CASE D # {}
        <3>1. t.original \in D /\ D = {t.original}
            BY <2>4
        <3>2. i \in D => t.row # NULL /\ t.row.id = t.original
            BY <1>4, <3>1 DEF ScanStore, AbsenceIsLive
        <3>3. \A j \in AbsenceIds \ D :
                  absences'[j] = absences[j] \/ CheckedIn(j, t.session, t.student)
            BY <2>1, <2>2
        <3>4. absences'[t.original] = Gone
            BY <2>1, <3>1
        <3>. QED
            BY <1>1, <2>2, <3>1, <3>2, <3>3, <3>4 DEF Strikes
    <2>. QED
        BY <2>3, <2>4
<1>. QED
    BY <1>3, <1>4 DEF ScanCommit

\* What the commit of a request does to the rows.
LEMMA AdvanceWrites ==
    ASSUME Typed, CorrectionsHaveRows, KeysInv, NEW w \in Workers, Advance(w)
    PROVE  \/ UNCHANGED absences
           \/ \E s \in Sessions : Writes(s)
           \/ ScanCommit(w) /\ Strikes(w)
<1>1. CASE TapCommit(w)
    BY <1>1, TapWrites, InFlight DEF Typed, TapCommit, TapTx
<1>2. CASE BulkCommit(w)
    BY <1>2, BulkWrites, InFlight DEF Typed, BulkCommit, BulkTx
<1>3. CASE ScanUpsert(w) \/ ScanLookup(w)
    BY <1>3 DEF ScanUpsert, ScanLookup, Abort
<1>4. CASE ScanCommit(w)
    BY <1>4, ScanWrites, InFlight DEF Typed, ScanCommit, ScanTx
<1>5. CASE CorrectCommit(w)
    <2>1. tx[w].row \in Snapshot /\ tx[w].new \in BOOLEAN
        BY <1>5, InFlight DEF Typed, CorrectCommit, CorrectTx
    <2>. QED
        BY <1>5, <2>1, UpdateWrites
           DEF CorrectCommit, CorrectFail, CorrectStore, Abort
<1>6. CASE ReviewCommit(w)
    <2>1. tx[w] \in ReviewTx /\ tx[w] # Idle
        BY <1>6, InFlight DEF Typed, ReviewCommit
    <2>2. tx[w].row \in Snapshot /\ tx[w].new \in BOOLEAN
        BY <2>1 DEF ReviewTx
    <2>3. ReviewStore(w) => AbsenceIsLive(tx[w].row.id)
        BY <2>1, ReviewedRowLives DEF ReviewStore
    <2>. QED
        BY <1>6, <2>2, <2>3, UpdateWrites
           DEF ReviewCommit, ReviewFail, ReviewStore, Abort
<1>. QED
    BY <1>1, <1>2, <1>3, <1>4, <1>5, <1>6 DEF Advance

\* However a request ends, rows keep their keys and deleted rows stay deleted.
LEMMA AdvanceEvolves ==
    ASSUME Typed, CorrectionsHaveRows, KeysInv, NEW w \in Workers, Advance(w)
    PROVE  RowsEvolve
<1>1. CASE UNCHANGED absences
    BY <1>1 DEF RowsEvolve, AbsenceIsLive
<1>2. ASSUME NEW i \in AbsenceIds, NEW s, Written(i, s), absences[i] # Free
      PROVE  /\ absences'[i] # Free /\ AbsenceIsLive(i)
             /\ absences'[i].session = absences[i].session
             /\ absences'[i].student = absences[i].student
    BY <1>2, MarksAssumption DEF Written
<1>3. ASSUME NEW s, Writes(s) PROVE RowsEvolve
    BY <1>2, <1>3 DEF Writes, RowsEvolve, AbsenceIsLive
<1>4. CASE Strikes(w)
    BY <1>2, <1>4, MarksAssumption
       DEF Strikes, CheckedIn, RowsEvolve, AbsenceIsLive
<1>. QED
    BY <1>1, <1>3, <1>4, AdvanceWrites

\* A step in which rows evolve and no request loads one.
LEMMA KeysKept ==
    ASSUME Typed, KeysInv, RowsEvolve,
           \A w \in Workers : \/ tx'[w] \in {tx[w], Idle}
                              \/ tx'[w].op \notin {"tap", "bulk", "scan"}
    PROVE  KeysInv'
<1>1. ASSUME NEW i \in AbsenceIds, NEW s, NEW m, OfKey(absences, i, s, m)
      PROVE  OfKey(absences', i, s, m)
    BY <1>1 DEF RowsEvolve, OfKey, AbsenceIsLive
<1>2. ASSUME NEW w \in Workers, tx[w] # Idle
      PROVE  Loaded(absences', tx[w])
    <2>1. ASSUME tx[w].op \in {"tap", "scan"}, tx[w].row # NULL
          PROVE  tx[w].row.id \in AbsenceIds
        BY <1>2, <2>1, InFlight DEF Typed, TapTx, ScanTx, Snapshot
    <2>2. ASSUME tx[w].op = "bulk", NEW m \in KnownIn(tx[w])
          PROVE  tx[w].row[m].id \in AbsenceIds
        BY <1>2, <2>2, InFlight DEF Typed, BulkTx, KnownIn, NewIn, Snapshot
    <2>. QED
        BY <1>1, <1>2, <2>1, <2>2 DEF KeysInv, Loaded
<1>3. \A t : t.op \notin {"tap", "bulk", "scan"} => Loaded(absences', t)
    BY DEF Loaded
<1>4. \A w \in Workers : tx'[w] # Idle => Loaded(absences', tx'[w])
    BY <1>2, <1>3
<1>. QED
    BY <1>4 DEF KeysInv

\* A slot that is filled with a request that has loaded its rows now.
LEMMA SlotKeys ==
    ASSUME Typed, KeysInv, UNCHANGED absences, NEW w \in Workers, NEW t,
           tx' = [tx EXCEPT ![w] = t], t = Idle \/ Loaded(absences, t)
    PROVE  KeysInv'
<1>1. \A x \in Workers : tx'[x] = IF x = w THEN t ELSE tx[x]
    BY DEF Typed, FlightOK
<1>2. \A x \in Workers : tx'[x] # Idle => Loaded(absences', tx'[x])
    BY <1>1 DEF KeysInv
<1>. QED
    BY <1>2 DEF KeysInv

\* Load finds the row of the key.
LEMMA LoadKey ==
    ASSUME Typed, NEW s, NEW m, Load(s, m) # NULL
    PROVE  OfKey(absences, Load(s, m).id, s, m)
BY LoadSnapshot DEF Typed, TablesTypeOK, OfKey, RowsOf, AbsenceIsLive

\* A request that begins has loaded the rows of its keys.
LEMMA StartKeys ==
    ASSUME Typed, KeysInv, NEW w \in Workers, Start(w)
    PROVE  KeysInv' /\ UNCHANGED absences
<1>1. ASSUME NEW op, NEW t, Begin(w, op, t), Loaded(absences, t)
      PROVE  KeysInv' /\ UNCHANGED absences
    BY <1>1, SlotKeys DEF Begin
<1>2. ASSUME NEW s \in Sessions, NEW m \in Students, NEW v \in BOOLEAN,
             TapStart(w, s, m, v)
      PROVE  KeysInv' /\ UNCHANGED absences
    <2>. DEFINE t == [op |-> "tap", session |-> s, student |-> m,
                      absent |-> v, row |-> Load(s, m)]
    <2>1. Loaded(absences, t)
        BY LoadKey DEF Loaded
    <2>. HIDE DEF t
    <2>2. Begin(w, "tap", t)
        BY <1>2 DEF TapStart, t
    <2>. QED
        BY <1>1, <2>1, <2>2
<1>3. ASSUME NEW u \in Teachers, NEW s \in Sessions,
             NEW class \in SUBSET Students, NEW away \in SUBSET class,
             BulkStart(w, u, s, class, away)
      PROVE  KeysInv' /\ UNCHANGED absences
    <2>. DEFINE loads == [m \in Students |->
                            IF m \in class THEN Load(s, m) ELSE NULL]
                t == [op |-> "bulk", session |-> s, class |-> class,
                      absent |-> away, row |-> loads]
    <2>1. \A m \in class : loads[m] # NULL => OfKey(absences, loads[m].id, s, m)
        BY LoadKey
    <2>2. Begin(w, "bulk", t)
        BY <1>3 DEF BulkStart
    <2>. HIDE DEF loads
    <2>3. /\ t.op = "bulk" /\ t.session = s /\ t.class = class /\ t.row = loads
        OBVIOUS
    <2>. HIDE DEF t
    <2>4. Loaded(absences, t)
        BY <2>1, <2>3 DEF Loaded, KnownIn, NewIn
    <2>. QED
        BY <1>1, <2>2, <2>4
<1>4. ASSUME NEW s \in Sessions, NEW m \in Students, ScanStart(w, s, m)
      PROVE  KeysInv' /\ UNCHANGED absences
    <2>. DEFINE t == [op |-> "scan", phase |-> "read", session |-> s,
                      student |-> m, row |-> Load(s, m), original |-> NULL]
    <2>1. Loaded(absences, t)
        BY LoadKey DEF Loaded
    <2>. HIDE DEF t
    <2>2. Begin(w, "scan", t)
        BY <1>4 DEF ScanStart, t
    <2>. QED
        BY <1>1, <2>1, <2>2
<1>5. ASSUME NEW i \in AbsenceIds, NEW v \in BOOLEAN, CorrectStart(w, i, v)
      PROVE  KeysInv' /\ UNCHANGED absences
    <2>. DEFINE t == [op |-> "correct",
                      row |-> [id |-> i, absent |-> absences[i].absent],
                      new |-> v,
                      inWindow |-> absences[i].session \in freeWindow]
    <2>1. Loaded(absences, t)
        BY DEF Loaded
    <2>. HIDE DEF t
    <2>2. Begin(w, "correct", t)
        BY <1>5 DEF CorrectStart, t
    <2>. QED
        BY <1>1, <2>1, <2>2
<1>6. ASSUME NEW c \in CorrectionIds, NEW d \in CorrectionStatus,
             ReviewStart(w, c, d)
      PROVE  KeysInv' /\ UNCHANGED absences
    <2>. DEFINE i == corrections[c].absence
                t == [op |-> "review", correction |-> c, decision |-> d,
                      new |-> corrections[c].new,
                      row |-> [id |-> i, absent |-> absences[i].absent]]
    <2>1. Loaded(absences, t)
        BY DEF Loaded
    <2>2. Begin(w, "review", t)
        BY <1>6 DEF ReviewStart
    <2>. HIDE DEF t
    <2>. QED
        BY <1>1, <2>1, <2>2
<1>. QED
    BY <1>2, <1>3, <1>4, <1>5, <1>6 DEF Start

\* A scan that finds its key inserted meanwhile loads that row, and keeps it.
LEMMA UpsertKeys ==
    ASSUME Typed, KeysInv, NEW w \in Workers, ScanUpsert(w) \/ ScanLookup(w)
    PROVE  KeysInv'
<1>. DEFINE t == tx[w]
<1>1. CASE Abort(w, t.session, t.student)
    BY <1>1, SlotKeys DEF Abort
<1>2. CASE ScanUpsert(w) \/ ~Abort(w, t.session, t.student)
    <2>1. PICK new :
            /\ tx' = [tx EXCEPT ![w] = new] /\ UNCHANGED absences
            /\ t # Idle /\ t.op = "scan" /\ new.op = "scan"
            /\ new.session = t.session /\ new.student = t.student
            /\ new.row \in {t.row, Load(t.session, t.student)}
        BY <1>2, UpsertFacts, LookupFacts
    <2>2. new.row # NULL => OfKey(absences, new.row.id, t.session, t.student)
        BY <2>1, LoadKey DEF KeysInv, Loaded
    <2>3. Loaded(absences, new)
        BY <2>1, <2>2 DEF Loaded
    <2>. QED
        BY <2>1, <2>3, SlotKeys
<1>. QED
    BY <1>1, <1>2

\* Every step keeps what requests have loaded, and the keys of rows.
LEMMA NextKeys ==
    ASSUME Typed, CorrectionsHaveRows, KeysInv, [Next]_vars
    PROVE  KeysInv' /\ RowsEvolve
<1>1. UNCHANGED absences => RowsEvolve
    BY DEF RowsEvolve, AbsenceIsLive
<1>2. ASSUME NEW w \in Workers, Start(w) PROVE KeysInv' /\ RowsEvolve
    BY <1>1, <1>2, StartKeys
<1>3. ASSUME NEW w \in Workers, Advance(w) PROVE KeysInv' /\ RowsEvolve
    <2>1. RowsEvolve
        BY <1>3, AdvanceEvolves
    <2>2. CASE ScanUpsert(w) \/ ScanLookup(w)
        BY <2>1, <2>2, UpsertKeys
    <2>3. CASE tx' = [tx EXCEPT ![w] = Idle]
        <3>1. \A x \in Workers : tx'[x] \in {tx[x], Idle}
            BY <2>3 DEF Typed, FlightOK
        <3>. QED
            BY <2>1, <3>1, KeysKept
    <2>. QED
        BY <1>3, <2>2, <2>3
           DEF Advance, TapCommit, TapUpdate, TapFail, TapInsert, BulkCommit,
               BulkFail, BulkStore, ScanCommit, ScanFail, ScanDeletedTwice,
               ScanStore, CorrectCommit, CorrectFail, CorrectStore,
               ReviewCommit, ReviewStore, ReviewFail, Finish, Abort
<1>4. ASSUME UNCHANGED <<absences, tx>> PROVE KeysInv' /\ RowsEvolve
    BY <1>1, <1>4 DEF KeysInv
<1>. QED
    BY <1>2, <1>3, <1>4 DEF Next, WindowCloses, vars

\* No key is held at first.
LEMMA InitKeys == Init => KeysInv
BY DEF Init, KeysInv

(***************************************************************************)
(* A tap answers with what it has stored.                                  *)
(***************************************************************************)

\* Only the commit of a tap answers, with the row it leaves; any other step
\* takes the answer away.
LEMMA NextAnswer ==
    ASSUME Typed, KeysInv, TapAnswerIsStored, [Next]_vars
    PROVE  TapAnswerIsStored'
<1>1. ASSUME answer' = NoAnswer PROVE TapAnswerIsStored'
    BY <1>1 DEF TapAnswerIsStored
<1>2. ASSUME NEW w \in Workers, NEW s, NEW m, Abort(w, s, m)
      PROVE  TapAnswerIsStored'
    BY <1>2 DEF Abort, Failure, TapAnswerIsStored
<1>3. ASSUME NEW w \in Workers, NEW op, NEW s, NEW m, NEW v, op # "tap",
             Finish(w, Reply(op, s, m, v))
      PROVE  TapAnswerIsStored'
    BY <1>3 DEF Finish, Reply, TapAnswerIsStored
<1>4. ASSUME NEW w \in Workers, Start(w) PROVE TapAnswerIsStored'
    BY <1>1, <1>4 DEF Start, TapStart, BulkStart, ScanStart, CorrectStart,
       ReviewStart, Begin
<1>5. ASSUME NEW w \in Workers, TapCommit(w) PROVE TapAnswerIsStored'
    <2>. DEFINE t == tx[w]
    <2>1. t \in TapTx /\ t # Idle /\ t.op = "tap"
        BY <1>5, InFlight DEF Typed, TapCommit
    <2>2. ASSUME NEW v, Finish(w, Reply("tap", t.session, t.student, v)),
                 NEW i \in AbsenceIds, absences'[i] \in AbsenceRow,
                 absences'[i].session = t.session,
                 absences'[i].student = t.student, absences'[i].absent = v
          PROVE  TapAnswerIsStored'
        <3>1. AbsenceIsLive(i)'
            BY <2>2, MarksAssumption DEF AbsenceIsLive
        <3>2. /\ answer'.session = t.session /\ answer'.student = t.student
              /\ answer'.absent = v
            BY <2>2 DEF Finish, Reply
        <3>3. \E j \in AbsenceIds :
                  /\ AbsenceIsLive(j)'
                  /\ absences'[j].session = answer'.session
                  /\ absences'[j].student = answer'.student
                  /\ absences'[j].absent = answer'.absent
            BY <2>2, <3>1, <3>2
        <3>. QED
            BY <3>3 DEF TapAnswerIsStored, RowsOf
    <2>3. CASE TapUpdate(w)
        <3>. DEFINE i == t.row.id
                    v == Merged(t.row, t.absent)
        <3>1. /\ t.row \in Snapshot /\ i \in AbsenceIds /\ AbsenceIsLive(i)
              /\ t.absent \in BOOLEAN /\ absences[i] \in AbsenceRow
            BY <2>1, <2>3 DEF TapUpdate, TapTx, Snapshot, AbsenceIsLive, Typed,
               TablesTypeOK
        <3>2. /\ absences[i].session = t.session
              /\ absences[i].student = t.student
            BY <2>1, <2>3, <3>1
               DEF TapUpdate, KeysInv, Loaded, OfKey, AbsenceIsLive
        <3>3. v \in BOOLEAN
            BY <3>1, MergedBoolean
        <3>4. absences'[i] = [absences[i] EXCEPT !.absent = v]
            BY <2>3, <3>1 DEF TapUpdate, Typed, TablesTypeOK
        <3>5. /\ absences'[i] \in AbsenceRow
              /\ absences'[i].session = t.session
              /\ absences'[i].student = t.student /\ absences'[i].absent = v
            BY <3>1, <3>2, <3>3, <3>4 DEF AbsenceRow
        <3>6. Finish(w, Reply("tap", t.session, t.student, v))
            BY <2>3 DEF TapUpdate
        <3>. HIDE DEF v, i
        <3>. QED
            BY <2>2, <3>1, <3>5, <3>6
    <2>4. ASSUME NEW i \in AbsenceIds, TapInsert(w, i)
          PROVE  TapAnswerIsStored'
        <3>1. absences'[i] = [session |-> t.session, student |-> t.student,
                              absent |-> t.absent]
            BY <2>4 DEF TapInsert, Typed, TablesTypeOK
        <3>2. absences'[i] \in AbsenceRow
            BY <2>1, <3>1 DEF TapTx, AbsenceRow
        <3>. QED
            BY <2>2, <2>4, <3>1, <3>2 DEF TapInsert
    <2>. QED
        BY <1>2, <1>5, <2>3, <2>4 DEF TapCommit, TapFail
<1>6. ASSUME NEW w \in Workers, Advance(w), ~TapCommit(w)
      PROVE  TapAnswerIsStored'
    BY <1>1, <1>2, <1>3, <1>6
       DEF Advance, BulkCommit, BulkFail, BulkStore, ScanUpsert, ScanLookup,
           ScanCommit, ScanFail, ScanDeletedTwice, ScanStore, CorrectCommit, CorrectFail,
           CorrectStore, ReviewCommit, ReviewFail, ReviewStore
<1>7. ASSUME NEW s \in Sessions, WindowCloses(s) PROVE TapAnswerIsStored'
    BY <1>1, <1>7 DEF WindowCloses
<1>8. CASE UNCHANGED vars
    BY <1>8 DEF vars, TapAnswerIsStored, RowsOf, AbsenceIsLive
<1>. QED
    BY <1>4, <1>5, <1>6, <1>7, <1>8 DEF Next

(***************************************************************************)
(* A scan that is about to delete an absence has grounds for it.           *)
(***************************************************************************)

\* An approved request is for a student linked to its session.
LinkedInv ==
    \A r \in RequestIds :
        requests[r] # Free /\ requests[r].status = "APPROVED" =>
            <<requests[r].session, requests[r].student>> \in roster

\* r is a decided request of the student for the session that t has scanned,
\* and the absence t has found is of the session that r names.
Grounds(table, row, links, t) ==
    /\ row # Free /\ row.status # "PENDING"
    /\ row.session = t.session /\ row.student = t.student
    /\ <<t.session, t.student>> \in links
    /\ OfKey(table, t.original, row.original, t.student)

\* The request of w is about to delete an absence.
Deleting(t) ==
    /\ t # Idle /\ t.op = "scan" /\ t.phase = "looked" /\ t.original # NULL

OriginalsInv ==
    \A w \in Workers : Deleting(tx[w]) =>
        \E r \in RequestIds : Grounds(absences, requests[r], roster, tx[w])

\* Requests keep what they ask for and are not pending again, links stay.
RequestsEvolve ==
    /\ roster \subseteq roster'
    /\ \A r \in RequestIds : requests[r] # Free =>
            /\ requests'[r] # Free
            /\ requests'[r].session = requests[r].session
            /\ requests'[r].student = requests[r].student
            /\ requests'[r].original = requests[r].original
            /\ requests[r].status # "PENDING" => requests'[r].status # "PENDING"

\* A step in which no scan looks for its original.
LEMMA OriginalsKept ==
    ASSUME Typed, OriginalsInv, RowsEvolve, RequestsEvolve,
           \A w \in Workers : tx'[w] = tx[w] \/ ~Deleting(tx'[w])
    PROVE  OriginalsInv'
<1>1. ASSUME NEW w \in Workers, Deleting(tx[w])
      PROVE  \E r \in RequestIds : Grounds(absences', requests'[r], roster', tx[w])
    <2>1. PICK r \in RequestIds : Grounds(absences, requests[r], roster, tx[w])
        BY <1>1 DEF OriginalsInv
    <2>2. tx[w].original \in AbsenceIds
        BY <1>1, InFlight DEF Deleting, Typed, ScanTx
    <2>3. Grounds(absences', requests'[r], roster', tx[w])
        BY <2>1, <2>2
           DEF Grounds, OfKey, RowsEvolve, RequestsEvolve, AbsenceIsLive
    <2>. QED
        BY <2>3
<1>2. \A w \in Workers : Deleting(tx'[w]) =>
          \E r \in RequestIds : Grounds(absences', requests'[r], roster', tx'[w])
    BY <1>1
<1>. QED
    BY <1>2 DEF OriginalsInv

\* A scan finds the absence through an approved request.
LEMMA LookupOriginals ==
    ASSUME Typed, OriginalsInv, LinkedInv, NEW w \in Workers, ScanLookup(w)
    PROVE  OriginalsInv'
<1>. DEFINE t == tx[w]
            o == OriginalAbsence(t.session, t.student)
<1>1. t \in ScanTx /\ t # Idle /\ t.op = "scan"
    BY InFlight DEF Typed, ScanLookup
<1>2. UNCHANGED <<absences, requests, roster>>
    BY DEF ScanLookup, Abort
<1>3. ASSUME NEW new, tx' = [tx EXCEPT ![w] = new],
             Deleting(new) => \E r \in RequestIds :
                                 Grounds(absences, requests[r], roster, new)
      PROVE  OriginalsInv'
    <2>1. \A x \in Workers : tx'[x] = IF x = w THEN new ELSE tx[x]
        BY <1>3 DEF Typed, FlightOK
    <2>2. \A x \in Workers : Deleting(tx'[x]) =>
              \E r \in RequestIds :
                  Grounds(absences', requests'[r], roster', tx'[x])
        BY <1>2, <1>3, <2>1 DEF OriginalsInv
    <2>. QED
        BY <2>2 DEF OriginalsInv
<1>4. CASE Abort(w, t.session, t.student)
    BY <1>3, <1>4 DEF Abort, Deleting
<1>5. CASE ~Abort(w, t.session, t.student)
    <2>1. PICK new : /\ tx' = [tx EXCEPT ![w] = new]
                     /\ new.session = t.session /\ new.student = t.student
                     /\ new.original = o
        BY <1>5, LookupFacts
    <2>2. ASSUME o # NULL
          PROVE  \E r \in RequestIds :
                    /\ r \in Compensating(t.session, t.student)
                    /\ OfKey(absences, o, requests[r].original, t.student)
        <3>1. PICK r \in Compensating(t.session, t.student) :
                  /\ Load(requests[r].original, t.student) # NULL
                  /\ o = Load(requests[r].original, t.student).id
            BY <2>2 DEF OriginalAbsence
        <3>2. r \in RequestIds
            BY DEF Compensating
        <3>. QED
            BY <3>1, <3>2, LoadKey
    <2>. HIDE DEF o
    <2>3. ASSUME Deleting(new)
          PROVE  \E r \in RequestIds : Grounds(absences, requests[r], roster, new)
        <3>1. PICK r \in RequestIds :
                    /\ r \in Compensating(t.session, t.student)
                    /\ OfKey(absences, o, requests[r].original, t.student)
            BY <2>1, <2>2, <2>3 DEF Deleting
        <3>2. /\ requests[r] # Free /\ requests[r].status = "APPROVED"
              /\ requests[r].session = t.session
              /\ requests[r].student = t.student
            BY <3>1 DEF Compensating
        <3>3. <<t.session, t.student>> \in roster
            BY <3>2 DEF LinkedInv
        <3>4. Grounds(absences, requests[r], roster, new)
            BY <2>1, <3>1, <3>2, <3>3 DEF Grounds
        <3>. QED
            BY <3>4
    <2>. QED
        BY <1>3, <2>1, <2>3
<1>. QED
    BY <1>4, <1>5

\* Every step of these handlers leaves the grounds of a scan, and the requests.
LEMMA NextOriginals ==
    ASSUME Typed, CorrectionsHaveRows, KeysInv, OriginalsInv, LinkedInv,
           [Next]_vars
    PROVE  OriginalsInv' /\ UNCHANGED <<requests, roster>>
<1>1. RowsEvolve
    BY NextKeys
<1>2. ASSUME NEW w \in Workers, Start(w)
      PROVE  /\ UNCHANGED <<requests, roster>>
             /\ \A x \in Workers : tx'[x] = tx[x] \/ ~Deleting(tx'[x])
    <2>1. ASSUME NEW op, NEW t, Begin(w, op, t), ~Deleting(t)
          PROVE  /\ UNCHANGED <<requests, roster>>
                 /\ \A x \in Workers : tx'[x] = tx[x] \/ ~Deleting(tx'[x])
        <3>1. \A x \in Workers : tx'[x] = IF x = w THEN t ELSE tx[x]
            BY <2>1 DEF Begin, Typed, FlightOK
        <3>. QED
            BY <2>1, <3>1 DEF Begin
    <2>. QED
        BY <1>2, <2>1 DEF Start, TapStart, BulkStart, ScanStart, CorrectStart,
           ReviewStart, Deleting
<1>3. ASSUME NEW w \in Workers, Advance(w)
      PROVE  UNCHANGED <<requests, roster>>
    BY <1>3
       DEF Advance, TapCommit, TapUpdate, TapFail, TapInsert, BulkCommit,
           BulkFail, BulkStore, ScanUpsert, ScanLookup, ScanCommit, ScanFail,
           ScanDeletedTwice, ScanStore, CorrectCommit, CorrectFail,
           CorrectStore, ReviewCommit, ReviewStore, ReviewFail, Finish, Abort
<1>4. ASSUME NEW w \in Workers, Advance(w), ~ScanLookup(w)
      PROVE  \A x \in Workers : tx'[x] = tx[x] \/ ~Deleting(tx'[x])
    <2>1. CASE ScanUpsert(w)
        BY <2>1, UpsertFacts DEF Deleting
    <2>2. CASE ~ScanUpsert(w)
        <3>1. tx' = [tx EXCEPT ![w] = Idle]
            BY <1>4, <2>2
               DEF Advance, TapCommit, TapUpdate, TapFail, TapInsert,
                   BulkCommit, BulkFail, BulkStore, ScanCommit, ScanFail,
                   ScanDeletedTwice, ScanStore, CorrectCommit, CorrectFail,
                   CorrectStore, ReviewCommit, ReviewStore, ReviewFail,
                   Finish, Abort
        <3>2. \A x \in Workers : tx'[x] \in {tx[x], Idle}
            BY <3>1 DEF Typed, FlightOK
        <3>. QED
            BY <3>2 DEF Deleting
    <2>. QED
        BY <2>1, <2>2
<1>5. UNCHANGED <<requests, roster>> => RequestsEvolve
    BY DEF RequestsEvolve
<1>6. UNCHANGED <<requests, roster>>
    BY <1>2, <1>3 DEF Next, WindowCloses, vars
<1>7. ASSUME NEW w \in Workers, ScanLookup(w) PROVE OriginalsInv'
    BY <1>7, LookupOriginals
<1>8. \/ \E w \in Workers : ScanLookup(w)
      \/ \A x \in Workers : tx'[x] = tx[x] \/ ~Deleting(tx'[x])
    BY <1>2, <1>4 DEF Next, WindowCloses, vars
<1>. QED
    BY <1>1, <1>5, <1>6, <1>7, <1>8, OriginalsKept

\* The approved requests that are there at first are linked.
LEMMA InitOriginals == Init => OriginalsInv /\ LinkedInv
<1>. SUFFICES ASSUME Init PROVE OriginalsInv /\ LinkedInv
    OBVIOUS
<1>1. OriginalsInv
    BY DEF Init, OriginalsInv, Deleting
<1>2. \A r \in RequestIds : requests[r] # Free =>
          requests[r].session \in Sessions /\ requests[r].student \in Students
    BY InitTyped DEF Typed, TablesTypeOK, RequestRow
<1>3. LinkedInv
    BY <1>2 DEF Init, LinkedInv
<1>. QED
    BY <1>1, <1>3

(***************************************************************************)
(* Readers see the ledger.                                                 *)
(***************************************************************************)

\* Requests name a missed session other than the one that makes up for it.
Elsewhere(table) ==
    \A r \in RequestIds :
        table[r] # Free => table[r].original # table[r].session

\* The row under id i is the entry of key k.
Holds(table, i, k) ==
    /\ table[i] \notin {Free, Gone}
    /\ table[i].session = k[1] /\ table[i].student = k[2]

Keys == Sessions \X Students

\* The ledger of a table has an entry exactly where a row holds the key.
LEMMA Entries ==
    ASSUME NEW table
    PROVE  /\ LedgerOf(table) \in [Keys -> Ledger!Marks \cup {"none"}]
           /\ \A k \in Keys : LedgerOf(table)[k] # "none" <=>
                  \E i \in AbsenceIds : Holds(table, i, k)
<1>. USE DEF Ledger!Marks
<1>1. \A k \in Keys :
          LedgerOf(table)[k] =
              IF \E i \in AbsenceIds : Holds(table, i, k)
              THEN IF \E i \in AbsenceIds : Holds(table, i, k) /\ table[i].absent
                   THEN "absent" ELSE "present"
              ELSE "none"
    BY DEF LedgerOf, Holds, Keys
<1>2. LedgerOf(table) = [k \in Keys |-> LedgerOf(table)[k]]
    BY DEF LedgerOf, Keys
<1>3. \A k \in Keys : LedgerOf(table)[k] \in {"present", "absent", "none"}
    BY <1>1
<1>4. \A k \in Keys : LedgerOf(table)[k] # "none" <=>
          \E i \in AbsenceIds : Holds(table, i, k)
    BY <1>1
<1>. QED
    BY <1>2, <1>3, <1>4

\* An entry stays the same if its rows do.
LEMMA SameEntry ==
    ASSUME NEW t1, NEW t2, NEW k \in Keys,
           \A i \in AbsenceIds : Holds(t1, i, k) \/ Holds(t2, i, k) =>
                t1[i] = t2[i]
    PROVE  LedgerOf(t1)[k] = LedgerOf(t2)[k]
<1>1. \A i \in AbsenceIds : Holds(t1, i, k) <=> Holds(t2, i, k)
    BY DEF Holds
<1>2. \A i \in AbsenceIds : Holds(t1, i, k) => t1[i] = t2[i]
    OBVIOUS
<1>. QED
    BY <1>1, <1>2 DEF LedgerOf, Holds, Keys

\* Rows written for one session mark students of that session.
LEMMA WritesMark ==
    ASSUME NEW s \in Sessions, Writes(s)
    PROVE  Ledger!Mark(s)
<1>1. LedgerOf(absences') \in [Keys -> Ledger!Marks \cup {"none"}]
    BY Entries
<1>2. ASSUME NEW k \in Keys, k[1] # s
      PROVE  LedgerOf(absences')[k] = LedgerOf(absences)[k]
    <2>1. \A i \in AbsenceIds :
              Holds(absences, i, k) \/ Holds(absences', i, k) =>
                  absences[i] = absences'[i]
        BY <1>2 DEF Writes, Written, Holds
    <2>. QED
        BY <2>1, SameEntry
<1>3. ASSUME NEW k \in Keys, LedgerOf(absences)[k] # "none"
      PROVE  LedgerOf(absences')[k] # "none"
    <2>1. PICK i \in AbsenceIds : Holds(absences, i, k)
        BY <1>3, Entries
    <2>2. absences'[i] = absences[i] \/ Written(i, s)
        BY DEF Writes
    <2>3. Holds(absences', i, k)
        BY <2>1, <2>2, MarksAssumption DEF Written, Holds, AbsenceIsLive
    <2>. QED
        BY <2>3, Entries
<1>. QED
    BY <1>1, <1>2, <1>3 DEF Ledger!Mark, Keys

\* The row a scan deletes is of the session that a decided request named as
\* missed, and another row is written for the session of the request.
LEMMA StrikesFor ==
    ASSUME Typed, KeysInv, OriginalsInv, Elsewhere(requests),
           NEW w \in Workers, Strikes(w)
    PROVE  /\ \E r \in RequestIds :
                /\ Grounds(absences, requests[r], roster, tx[w])
                /\ requests[r].original = absences[tx[w].original].session
                /\ requests[r].original # tx[w].session
           /\ absences[tx[w].original].student = tx[w].student
           /\ \E i \in AbsenceIds :
                CheckedIn(i, tx[w].session, tx[w].student)
<1>. DEFINE t == tx[w]
            x == t.original
<1>1. /\ t \in ScanTx /\ t # Idle /\ t.phase = "looked" /\ x \in AbsenceIds
      /\ AbsenceIsLive(x)
    BY DEF Strikes
<1>2. t.op = "scan"
    BY <1>1 DEF ScanTx
<1>3. Deleting(t)
    BY <1>1, <1>2, MarksAssumption DEF Deleting
<1>4. PICK r \in RequestIds : Grounds(absences, requests[r], roster, t)
    BY <1>3 DEF OriginalsInv
<1>5. /\ requests[r].session = t.session
      /\ requests[r].original = absences[x].session
      /\ absences[x].student = t.student
      /\ requests[r].original # requests[r].session
    BY <1>1, <1>4 DEF Grounds, OfKey, AbsenceIsLive, Elsewhere
<1>6. ASSUME t.row # NULL, t.row.id = x PROVE FALSE
    <2>1. OfKey(absences, x, t.session, t.student)
        BY <1>1, <1>2, <1>6 DEF KeysInv, Loaded
    <2>. QED
        BY <1>1, <1>5, <2>1 DEF OfKey, AbsenceIsLive
<1>7. \E i \in AbsenceIds : CheckedIn(i, t.session, t.student)
    BY <1>6 DEF Strikes
<1>. QED
    BY <1>4, <1>5, <1>7

\* A scan that deletes an original absence trades it for the row it writes.
LEMMA StrikesTrade ==
    ASSUME Typed, UniqueAbsence, KeysInv, OriginalsInv, Elsewhere(requests),
           NEW w \in Workers, Strikes(w)
    PROVE  \E s, o \in Sessions, m \in Students : Ledger!Trade(s, o, m)
<1>. DEFINE t == tx[w]
            x == t.original
            s == t.session
            m == t.student
            o == absences[x].session
<1>1. /\ t \in ScanTx /\ t # Idle /\ t.phase = "looked" /\ x \in AbsenceIds
      /\ AbsenceIsLive(x) /\ absences'[x] = Gone
      /\ \A i \in AbsenceIds \ {x} :
            absences'[i] = absences[i] \/ CheckedIn(i, s, m)
    BY DEF Strikes
<1>2. s \in Sessions /\ m \in Students /\ absences[x] \in AbsenceRow
    BY <1>1 DEF ScanTx, AbsenceIsLive, Typed, TablesTypeOK
<1>3. o \in Sessions /\ absences[x].student = m /\ o # s
    BY <1>2, StrikesFor DEF AbsenceRow
<1>4. PICK i \in AbsenceIds : CheckedIn(i, s, m)
    BY StrikesFor
<1>. DEFINE old == LedgerOf(absences)
            new == LedgerOf(absences')
            ko == <<o, m>>
            ks == <<s, m>>
<1>5. ko \in Keys /\ ks \in Keys /\ ko # ks
    BY <1>2, <1>3 DEF Keys
<1>6. old[ko] # "none"
    <2>1. Holds(absences, x, ko)
        BY <1>1, <1>3 DEF Holds, AbsenceIsLive
    <2>. QED
        BY <1>1, <1>5, <2>1, Entries
<1>7. new[ko] = "none"
    <2>1. ASSUME NEW j \in AbsenceIds, Holds(absences', j, ko) PROVE FALSE
        <3>1. j # x
            BY <1>1, <2>1 DEF Holds
        <3>2. absences'[j] = absences[j]
            BY <1>1, <1>3, <2>1, <3>1 DEF Holds, CheckedIn, Written
        <3>. QED
            BY <1>1, <1>3, <2>1, <3>1, <3>2
               DEF Holds, UniqueAbsence, UniqueIn, AbsenceIsLive
    <2>. QED
        BY <1>5, <2>1, Entries
<1>8. new[ks] \in Ledger!Marks
    <2>1. Holds(absences', i, ks)
        BY <1>4, MarksAssumption DEF CheckedIn, Written, Holds
    <2>. QED
        BY <1>5, <2>1, Entries DEF Ledger!Marks
<1>9. ASSUME NEW k \in Keys, k # ko, k # ks PROVE new[k] = old[k]
    <2>1. k = <<k[1], k[2]>>
        BY DEF Keys
    <2>2. ASSUME NEW j \in AbsenceIds,
                 Holds(absences, j, k) \/ Holds(absences', j, k)
          PROVE  absences[j] = absences'[j]
        <3>1. j # x
            BY <1>1, <1>3, <1>9, <2>1, <2>2 DEF Holds
        <3>2. ~CheckedIn(j, s, m)
            BY <1>9, <2>1, <2>2, MarksAssumption
               DEF Holds, CheckedIn, Written, AbsenceIsLive
        <3>. QED
            BY <1>1, <3>1, <3>2
    <2>. QED
        BY <2>2, SameEntry
<1>10. old = [k \in Keys |-> old[k]] /\ new = [k \in Keys |-> new[k]]
    BY DEF LedgerOf, Keys
<1>. HIDE DEF old, new, s, o, m
<1>11. new = [old EXCEPT ![ko] = "none", ![ks] = new[ks]]
    BY <1>5, <1>7, <1>9, <1>10
<1>12. Ledger!Trade(s, o, m)
    BY <1>3, <1>6, <1>8, <1>11 DEF Ledger!Trade, old, new
<1>. QED
    BY <1>2, <1>3, <1>12 DEF s, o, m

\* Every step of the handlers is a step of the ledger or leaves it alone.
LEMMA NextLedger ==
    ASSUME Typed, UniqueAbsence, CorrectionsHaveRows, KeysInv, OriginalsInv,
           Elsewhere(requests), [Next]_vars
    PROVE  [Ledger!Next]_(LedgerOf(absences))
<1>1. ASSUME UNCHANGED absences PROVE UNCHANGED LedgerOf(absences)
    BY <1>1
<1>2. ASSUME NEW w \in Workers, Start(w) PROVE UNCHANGED absences
    BY <1>2, StartKeys
<1>3. ASSUME NEW w \in Workers, Advance(w)
      PROVE  UNCHANGED absences \/ Ledger!Next
    <2>1. CASE \E s \in Sessions : Writes(s)
        BY <2>1, WritesMark DEF Ledger!Next
    <2>2. CASE ScanCommit(w) /\ Strikes(w)
        BY <2>2, StrikesTrade DEF Ledger!Next
    <2>. QED
        BY <1>3, <2>1, <2>2, AdvanceWrites
<1>. QED
    BY <1>1, <1>2, <1>3 DEF Next, WindowCloses, vars

(***************************************************************************)
(* The theorems.                                                           *)
(***************************************************************************)

\* Requests of this module's handlers are the only ones in flight.
OwnOnly == \A w \in Workers : tx[w] # Idle => tx[w].op \in OwnOps

\* A step fills slots with requests of this module's handlers, or empties them.
LEMMA NextSlots ==
    ASSUME Typed, [Next]_vars
    PROVE  \A x \in Workers : tx'[x] \in {tx[x], Idle} \/ tx'[x].op \in OwnOps
<1>. DEFINE P == \A x \in Workers :
                    tx'[x] \in {tx[x], Idle} \/ tx'[x].op \in OwnOps
<1>1. ASSUME NEW w \in Workers, NEW op, NEW t, Begin(w, op, t), t.op \in OwnOps
      PROVE  P
    <2>1. \A x \in Workers : tx'[x] = IF x = w THEN t ELSE tx[x]
        BY <1>1 DEF Begin, Typed, FlightOK
    <2>. QED
        BY <1>1, <2>1
<1>2. ASSUME NEW w \in Workers, Start(w) PROVE P
    BY <1>1, <1>2 DEF Start, TapStart, BulkStart, ScanStart, CorrectStart,
       ReviewStart, OwnOps
<1>3. ASSUME NEW w \in Workers, tx' = [tx EXCEPT ![w] = Idle] PROVE P
    BY <1>3 DEF Typed, FlightOK
<1>4. ASSUME NEW w \in Workers, ScanUpsert(w) \/ ScanLookup(w) PROVE P
    <2>1. CASE Abort(w, tx[w].session, tx[w].student)
        BY <1>3, <2>1 DEF Abort
    <2>2. CASE ScanUpsert(w) \/ ~Abort(w, tx[w].session, tx[w].student)
        <3>1. /\ \A x \in Workers \ {w} : tx'[x] = tx[x]
              /\ tx'[w].op = "scan"
            BY <1>4, <2>2, UpsertFacts, LookupFacts
        <3>. QED
            BY <3>1 DEF OwnOps
    <2>. QED
        BY <1>4, <2>1, <2>2
<1>5. ASSUME NEW w \in Workers, Advance(w) PROVE P
    BY <1>3, <1>4, <1>5
       DEF Advance, TapCommit, TapUpdate, TapFail, TapInsert, BulkCommit,
           BulkFail, BulkStore, ScanCommit, ScanFail, ScanDeletedTwice,
           ScanStore, CorrectCommit, CorrectFail, CorrectStore,
           ReviewCommit, ReviewStore, ReviewFail, Finish, Abort
<1>. QED
    BY <1>2, <1>5 DEF Next, WindowCloses, vars

\* The inductive invariant.  The type of a row that a review writes rests on
\* its correction having a row; the uniqueness of keys on the types; that a
\* tap answers with its row's value, on KeysInv: the row a request has loaded
\* is still of the key it was loaded for, or deleted; that a deletion is a
\* trade, on OriginalsInv: a request asked for it and names that session.
IInv ==
    /\ Typed
    /\ OwnOnly
    /\ UniqueAbsence
    /\ CorrectionsHaveRows
    /\ KeysInv
    /\ TapAnswerIsStored
    /\ OriginalsInv
    /\ LinkedInv

\* Every reachable state satisfies the inductive invariant.
THEOREM Inductive == Spec => []IInv
<1>1. Init => IInv
    BY InitTyped, InitUnique, InitCorrections, InitKeys, InitOriginals
       DEF IInv, Init, OwnOnly, TapAnswerIsStored
<1>2. ASSUME IInv, [Next]_vars PROVE IInv'
    <2>1. LinkedInv'
        BY <1>2, NextOriginals DEF IInv, LinkedInv
    <2>2. OwnOnly'
        BY <1>2, NextSlots DEF IInv, OwnOnly
    <2>. QED
        BY <1>2, <2>1, <2>2, NextTyped, NextUnique, NextCorrections,
           NextKeys, NextAnswer, NextOriginals DEF IInv
<1>. QED
    BY <1>1, <1>2, PTL DEF Spec

\* Tables, requests in flight and answers always have their types.
THEOREM TypeCorrect == Spec => []TypeOK
<1>1. IInv => TypeOK
    BY DEF IInv, OwnOnly, Typed, FlightOK, TypeOK, TxTypeOK
<1>. QED
    BY <1>1, Inductive, PTL

\* upsert_absence, the attendance sheet and the QR scan, racing to insert,
\* never leave two rows for one student and session.
THEOREM AtMostOneRow == Spec => []UniqueAbsence
<1>1. IInv => UniqueAbsence
    BY DEF IInv
<1>. QED
    BY <1>1, Inductive, PTL

\* No correction outlives its absence row, whichever way request_correction,
\* review_correction and the deletion by mark_present interleave.
THEOREM NoOrphanCorrection == Spec => []CorrectionsHaveRows
<1>1. IInv => CorrectionsHaveRows
    BY DEF IInv
<1>. QED
    BY <1>1, Inductive, PTL

\* What upsert_absence answers is what is stored when it answers, whichever
\* requests have written the row since it was loaded.
THEOREM TapsAnswerTheTruth == Spec => []TapAnswerIsStored
<1>1. IInv => TapAnswerIsStored
    BY DEF IInv
<1>. QED
    BY <1>1, Inductive, PTL

\* A tap, sheet, scan or correction that loaded a row before mark_present
\* deleted it never brings the row back.
THEOREM DeletedStaysDeleted == Spec => NoResurrection
<1>1. ASSUME IInv, [Next]_vars
      PROVE  [\A i \in AbsenceIds : absences[i] = Gone => absences'[i] = Gone]_vars
    <2>1. RowsEvolve /\ absences' \in [AbsenceIds -> AbsenceRow \cup {Free, Gone}]
        BY <1>1, NextKeys, NextTyped DEF IInv, Typed, TablesTypeOK
    <2>2. \A i \in AbsenceIds : absences[i] = Gone => absences'[i] = Gone
        BY <2>1, MarksAssumption DEF RowsEvolve, AbsenceIsLive
    <2>. QED
        BY <2>2
<1>. QED
    BY <1>1, Inductive, PTL DEF Spec, NoResurrection

\* However the handlers interleave, the table implements the ledger, as long
\* as no compensation request names its own session as the one missed.
THEOREM AttendanceIsALedger ==
    ASSUME Elsewhere(InitialRequests)
    PROVE  Spec => ImplementsLedger
<1>1. Init => Elsewhere(requests)
    BY DEF Init, Elsewhere
<1>2. IInv /\ Elsewhere(requests) /\ [Next]_vars => Elsewhere(requests)'
    BY NextOriginals DEF IInv, Elsewhere
<1>3. Init => Ledger!Init
    BY Entries DEF Ledger!Init, Ledger!TypeOK, Keys
<1>4. IInv /\ Elsewhere(requests) /\ [Next]_vars
          => [Ledger!Next]_(LedgerOf(absences))
    BY NextLedger DEF IInv
<1>. QED
    BY <1>1, <1>2, <1>3, <1>4, Inductive, PTL
       DEF Spec, ImplementsLedger, Ledger!Spec

(***************************************************************************)
(* Compensation: the inductive invariant.  The steps of Attendance are     *)
(* covered by the lemmas above.                                            *)
(***************************************************************************)

\* What a request of this module in flight holds: a decision is about a
\* compensation request that exists.
OwnFlight(t) ==
    /\ t \in CompensationTx
    /\ t.op \in {"approve", "reject"} => requests[t.request] # Free

FlightInv ==
    \A w \in Workers :
        tx[w] # Idle /\ tx[w].op \notin OwnOps => OwnFlight(tx[w])

\* Beyond the types: an approved request is linked when its student scans, so
\* the absence a scan is about to delete was asked for by a decided request
\* (OriginalsInv); the rows loaded are of the keys loaded (KeysInv).
CompensationInv ==
    /\ Typed
    /\ FlightInv
    /\ UniqueAbsence
    /\ CorrectionsHaveRows
    /\ KeysInv
    /\ OriginalsInv
    /\ LinkedInv

\* The op of a request of this module tells what its record holds.
LEMMA OwnInFlight ==
    ASSUME NEW t \in CompensationTx
    PROVE  /\ t.op = "request" => t \in RequestTx
           /\ t.op \in {"approve", "reject"} => t \in DecideTx
           /\ t.op = "link" => t \in LinkTx
           /\ t.op \in Handlers \ OwnOps
<1>1. t \in RequestTx => t.op = "request"
    BY DEF RequestTx
<1>2. t \in DecideTx => t.op \in {"approve", "reject"}
    BY DEF DecideTx
<1>3. t \in LinkTx => t.op = "link"
    BY DEF LinkTx
<1>. QED
    BY <1>1, <1>2, <1>3 DEF CompensationTx, Handlers, OwnOps

(***************************************************************************)
(* The steps of this module's handlers.                                    *)
(***************************************************************************)

\* A step of w that touches neither rows nor corrections, and leaves a request
\* of this module or none in the slot of w.
Quiet(w, t) ==
    /\ UNCHANGED <<absences, corrections, freeWindow>>
    /\ tx' = [tx EXCEPT ![w] = t]
    /\ t = Idle \/ t \in CompensationTx
    /\ answer' \in Answer \cup {NoAnswer}

\* The start of a request reads, and fills the slot.
LEMMA StartQuiet ==
    ASSUME Typed, NEW w \in Workers, CompensationStart(w)
    PROVE  /\ \E t : /\ Quiet(w, t) /\ t # Idle /\ OwnFlight(t)
                     /\ t.op = "request" => <<t.session, t.original>> \in Offers
           /\ UNCHANGED <<requests, roster>>
<1>1. ASSUME NEW op, NEW t, Begin(w, op, t), t \in CompensationTx
      PROVE  Quiet(w, t) /\ t # Idle /\ UNCHANGED <<requests, roster>>
    BY <1>1, IdleAssumption DEF Begin, Quiet
<1>2. ASSUME NEW k \in Offers, NEW m \in Students, RequestStart(w, k[1], k[2], m)
      PROVE  \E t : /\ Begin(w, "request", t) /\ OwnFlight(t)
                    /\ t.op = "request" => <<t.session, t.original>> \in Offers
    <2>. DEFINE t == [op |-> "request", session |-> k[1], student |-> m,
                      original |-> k[2]]
    <2>1. t \in RequestTx
        BY OffersAssumption DEF RequestTx
    <2>2. Begin(w, "request", t)
        BY <1>2 DEF RequestStart
    <2>3. <<t.session, t.original>> \in Offers
        BY <1>2 DEF RequestStart
    <2>. QED
        BY <2>1, <2>2, <2>3 DEF OwnFlight, CompensationTx
<1>3. ASSUME NEW u, NEW r \in RequestIds, NEW op \in {"approve", "reject"},
             DecideStart(w, u, r, op)
      PROVE  \E t : Begin(w, op, t) /\ OwnFlight(t) /\ t.op # "request"
    <2>. DEFINE t == [op |-> op, request |-> r, linked |-> KeyOf(r) \in roster]
    <2>1. t \in DecideTx
        BY DEF DecideTx
    <2>2. Begin(w, op, t) /\ requests[r] # Free
        BY <1>3 DEF DecideStart
    <2>. QED
        BY <2>1, <2>2 DEF OwnFlight, CompensationTx
<1>4. ASSUME NEW u, NEW s \in Sessions, NEW m \in Students, LinkStart(w, u, s, m)
      PROVE  \E t : Begin(w, "link", t) /\ OwnFlight(t) /\ t.op # "request"
    <2>. DEFINE t == [op |-> "link", session |-> s, student |-> m]
    <2>1. t \in LinkTx
        BY DEF LinkTx
    <2>2. Begin(w, "link", t)
        BY <1>4 DEF LinkStart
    <2>. QED
        BY <2>1, <2>2 DEF OwnFlight, CompensationTx
<1>5. \E op, t : /\ Begin(w, op, t) /\ OwnFlight(t)
                 /\ t.op = "request" => <<t.session, t.original>> \in Offers
    BY <1>2, <1>3, <1>4 DEF CompensationStart
<1>. QED
    BY <1>1, <1>5 DEF OwnFlight

\* What a commit does to the requests and the roster: links stay, requests keep
\* what they ask for, a decided one is not pending again, and one that is
\* approved is linked.
LEMMA AdvanceQuiet ==
    ASSUME Typed, FlightInv, LinkedInv, NEW w \in Workers,
           CompensationAdvance(w)
    PROVE  /\ Quiet(w, Idle)
           /\ requests' \in [RequestIds -> RequestRow \cup {Free}]
           /\ roster' \subseteq Sessions \X Students
           /\ RequestsEvolve
           /\ LinkedInv'
<1>. DEFINE t == tx[w]
<1>1. requests \in [RequestIds -> RequestRow \cup {Free}] /\
      roster \subseteq Sessions \X Students
    BY DEF Typed, TablesTypeOK
<1>2. t # Idle /\ t.op \in {"request", "approve", "reject", "link"}
    BY DEF CompensationAdvance, RequestCommit, ApproveCommit, RejectCommit,
       LinkCommit
<1>3. OwnFlight(t)
    BY <1>2 DEF FlightInv, OwnOps
<1>4. ASSUME NEW s \in Sessions, NEW m \in Students, NEW op \in Handlers,
             FinishWith(w, op, s, m)
      PROVE  Quiet(w, Idle)
    BY <1>4, AnswerTyped DEF FinishWith, Quiet
<1>5. ASSUME NEW s \in Sessions, NEW m \in Students, Abort(w, s, m)
      PROVE  /\ Quiet(w, Idle) /\ UNCHANGED <<requests, roster>>
    BY <1>2, <1>5, AnswerTyped DEF Abort, Quiet, Handlers
<1>6. UNCHANGED <<requests, roster>> =>
        /\ requests' \in [RequestIds -> RequestRow \cup {Free}]
        /\ roster' \subseteq Sessions \X Students
        /\ RequestsEvolve /\ LinkedInv'
    BY <1>1 DEF RequestsEvolve, LinkedInv
<1>7. CASE RequestCommit(w)
    <2>1. t \in RequestTx
        BY <1>3, <1>7, OwnInFlight DEF OwnFlight, RequestCommit
    <2>. DEFINE new == [session |-> t.session, student |-> t.student,
                        original |-> t.original, status |-> "PENDING"]
    <2>2. PICK r \in RequestIds :
              requests[r] = Free /\ requests' = [requests EXCEPT ![r] = new]
        BY <1>7 DEF RequestCommit
    <2>3. new \in RequestRow
        BY <2>1 DEF RequestTx, RequestRow, CorrectionStatus
    <2>4. UNCHANGED roster /\ new.status # "APPROVED"
        BY <1>7 DEF RequestCommit
    <2>5. Quiet(w, Idle)
        BY <1>4, <1>7, <2>1 DEF RequestCommit, RequestTx, Handlers
    <2>. HIDE DEF new
    <2>6. \A q \in RequestIds :
              requests'[q] = IF q = r THEN new ELSE requests[q]
        BY <1>1, <2>2
    <2>7. requests' \in [RequestIds -> RequestRow \cup {Free}]
        BY <1>1, <2>2, <2>3
    <2>8. RequestsEvolve
        BY <2>2, <2>4, <2>6 DEF RequestsEvolve
    <2>9. LinkedInv'
        BY <2>4, <2>6 DEF LinkedInv
    <2>. QED
        BY <1>1, <2>4, <2>5, <2>7, <2>8, <2>9
<1>8. ASSUME t.op \in {"approve", "reject"}, NEW status,
             status \in {"APPROVED", "REJECTED"},
             Decide(t.request, status), roster \subseteq roster',
             roster' \subseteq Sessions \X Students,
             status = "APPROVED" => KeyOf(t.request) \in roster'
      PROVE  /\ requests' \in [RequestIds -> RequestRow \cup {Free}]
             /\ RequestsEvolve /\ LinkedInv'
    <2>. DEFINE r == t.request
    <2>1. r \in RequestIds /\ requests[r] # Free
        BY <1>3, <1>8, OwnInFlight DEF OwnFlight, DecideTx
    <2>2. \A q \in RequestIds :
              requests'[q] = IF q = r THEN [requests[r] EXCEPT !.status = status]
                                      ELSE requests[q]
        BY <1>1, <1>8, <2>1 DEF Decide
    <2>3. requests[r] \in RequestRow
        BY <1>1, <2>1
    <2>4. /\ requests'[r] \in RequestRow
          /\ requests'[r].session = requests[r].session
          /\ requests'[r].student = requests[r].student
          /\ requests'[r].original = requests[r].original
          /\ requests'[r].status = status
        BY <1>8, <2>1, <2>2, <2>3 DEF RequestRow, CorrectionStatus
    <2>5. requests'[r] # Free
        BY <2>4, MarksAssumption
    <2>6. requests' \in [RequestIds -> RequestRow \cup {Free}]
        <3>1. requests' = [requests EXCEPT ![r].status = status]
            BY <1>8 DEF Decide
        <3>2. requests' = [q \in RequestIds |-> requests'[q]]
            BY <1>1, <3>1
        <3>3. \A q \in RequestIds : requests'[q] \in RequestRow \cup {Free}
            BY <1>1, <2>2, <2>4
        <3>. QED
            BY <3>2, <3>3
    <2>7. RequestsEvolve
        BY <1>8, <2>2, <2>4, <2>5 DEF RequestsEvolve
    <2>8. ASSUME NEW q \in RequestIds, requests'[q] # Free,
                 requests'[q].status = "APPROVED"
          PROVE  <<requests'[q].session, requests'[q].student>> \in roster'
        BY <1>8, <2>2, <2>4, <2>8 DEF LinkedInv, KeyOf
    <2>9. LinkedInv'
        BY <2>8 DEF LinkedInv
    <2>. QED
        BY <2>6, <2>7, <2>9
<1>9. ASSUME t.op \in {"approve", "reject"}
      PROVE  /\ requests[t.request].session \in Sessions
             /\ requests[t.request].student \in Students
             /\ KeyOf(t.request) \in Sessions \X Students
    <2>1. t.request \in RequestIds /\ requests[t.request] # Free
        BY <1>3, <1>9, OwnInFlight DEF OwnFlight, DecideTx
    <2>2. requests[t.request] \in RequestRow
        BY <1>1, <2>1
    <2>. QED
        BY <2>2 DEF RequestRow, KeyOf
<1>10. CASE ApproveCommit(w)
    <2>1. t.op = "approve"
        BY <1>10 DEF ApproveCommit
    <2>2. CASE ApproveStore(w)
        <3>1. /\ Decide(t.request, "APPROVED")
              /\ roster' = roster \cup {KeyOf(t.request)}
            BY <2>2 DEF ApproveStore
        <3>2. /\ roster \subseteq roster' /\ KeyOf(t.request) \in roster'
              /\ roster' \subseteq Sessions \X Students
            BY <1>1, <1>9, <2>1, <3>1
        <3>3. Quiet(w, Idle)
            BY <1>4, <1>9, <2>1, <2>2 DEF ApproveStore, Handlers
        <3>. QED
            BY <1>8, <2>1, <3>1, <3>2, <3>3
    <2>3. CASE ApproveFail(w)
        BY <1>5, <1>6, <1>9, <2>1, <2>3 DEF ApproveFail
    <2>. QED
        BY <1>10, <2>2, <2>3 DEF ApproveCommit
<1>11. CASE RejectCommit(w)
    <2>1. t.op = "reject" /\ Decide(t.request, "REJECTED") /\ UNCHANGED roster
        BY <1>11 DEF RejectCommit
    <2>2. Quiet(w, Idle)
        BY <1>4, <1>9, <1>11, <2>1 DEF RejectCommit, Handlers
    <2>. QED
        BY <1>1, <1>8, <2>1, <2>2
<1>12. CASE LinkCommit(w)
    <2>1. t \in LinkTx
        BY <1>3, <1>12, OwnInFlight DEF OwnFlight, LinkCommit
    <2>2. t.session \in Sessions /\ t.student \in Students
        BY <2>1 DEF LinkTx
    <2>3. CASE LinkFail(w)
        BY <1>5, <1>6, <2>2, <2>3 DEF LinkFail
    <2>4. CASE LinkStore(w)
        <3>1. Quiet(w, Idle)
            BY <1>4, <2>2, <2>4 DEF LinkStore, Handlers
        <3>2. /\ roster' = roster \cup {<<t.session, t.student>>}
              /\ UNCHANGED requests
            BY <2>4 DEF LinkStore
        <3>. QED
            BY <1>1, <2>2, <3>1, <3>2 DEF RequestsEvolve, LinkedInv
    <2>. QED
        BY <1>12, <2>3, <2>4 DEF LinkCommit
<1>. QED
    BY <1>7, <1>10, <1>11, <1>12 DEF CompensationAdvance

\* A step of this module's handlers keeps what Attendance relies on.
LEMMA QuietKeeps ==
    ASSUME CompensationInv, NEW w \in Workers, NEW t, Quiet(w, t),
           requests' \in [RequestIds -> RequestRow \cup {Free}],
           roster' \subseteq Sessions \X Students, RequestsEvolve
    PROVE  /\ Typed' /\ UniqueAbsence' /\ CorrectionsHaveRows'
           /\ KeysInv' /\ OriginalsInv'
<1>1. t = Idle \/ t.op \in Handlers \ OwnOps
    BY OwnInFlight DEF Quiet
<1>2. \A x \in Workers : tx'[x] = IF x = w THEN t ELSE tx[x]
    BY DEF Quiet, CompensationInv, Typed, FlightOK
<1>3. FlightOK'
    <2>1. tx' = [x \in Workers |-> tx'[x]]
        BY DEF Quiet, CompensationInv, Typed, FlightOK
    <2>. QED
        BY <1>1, <1>2, <2>1 DEF CompensationInv, Typed, FlightOK
<1>4. Typed'
    BY <1>3 DEF Quiet, CompensationInv, Typed, TablesTypeOK
<1>5. NoNewRow /\ RowsStay /\ RowsEvolve
    BY DEF Quiet, NoNewRow, RowsStay, RowsEvolve, AbsenceIsLive
<1>6. NoNewHold /\ NoNewReview
    BY <1>1, <1>2 DEF NoNewHold, HoldsKey, NoNewReview, OwnOps
<1>7. UniqueAbsence'
    BY <1>5, <1>6, UniqueKept DEF CompensationInv
<1>8. CorrectionsHaveRows'
    BY <1>5, <1>6, SameReferences, CorrectionsKept DEF CompensationInv, Quiet
<1>9. KeysInv'
    <2>1. \A x \in Workers : \/ tx'[x] \in {tx[x], Idle}
                             \/ tx'[x].op \notin {"tap", "bulk", "scan"}
        BY <1>1, <1>2 DEF OwnOps
    <2>. QED
        BY <1>5, <2>1, KeysKept DEF CompensationInv
<1>10. OriginalsInv'
    <2>1. \A x \in Workers : tx'[x] = tx[x] \/ ~Deleting(tx'[x])
        BY <1>1, <1>2 DEF Deleting, OwnOps
    <2>. QED
        BY <1>5, <2>1, OriginalsKept DEF CompensationInv
<1>. QED
    BY <1>4, <1>7, <1>8, <1>9, <1>10

\* What requests of this module rely on outlives a step that fills slots with
\* such requests, or with those of Attendance, and deletes no request.
LEMMA FlightKept ==
    ASSUME FlightInv, RequestsEvolve,
           \A x \in Workers : \/ tx'[x] \in {tx[x], Idle}
                              \/ tx'[x].op \in OwnOps
                              \/ OwnFlight(tx'[x])
    PROVE  FlightInv'
<1>1. ASSUME NEW t, OwnFlight(t)
      PROVE  /\ t \in CompensationTx
             /\ t.op \in {"approve", "reject"} => requests'[t.request] # Free
    <2>1. t.op \in {"approve", "reject"} => t.request \in RequestIds
        BY <1>1, OwnInFlight DEF OwnFlight, DecideTx
    <2>. QED
        BY <1>1, <2>1 DEF OwnFlight, RequestsEvolve
<1>2. \A x \in Workers : tx'[x] # Idle /\ tx'[x].op \notin OwnOps =>
          /\ tx'[x] \in CompensationTx
          /\ tx'[x].op \in {"approve", "reject"} =>
                requests'[tx'[x].request] # Free
    BY <1>1 DEF FlightInv
<1>. QED
    BY <1>2 DEF FlightInv, OwnFlight

(***************************************************************************)
(* The theorems.                                                           *)
(***************************************************************************)

\* Every step of either module keeps the invariant, and requests evolve.
LEMMA CompensationKeeps ==
    ASSUME CompensationInv, [CompensationNext]_vars
    PROVE  CompensationInv' /\ RequestsEvolve
<1>1. CASE [Next]_vars
    <2>1. UNCHANGED <<requests, roster>>
        BY <1>1, NextOriginals DEF CompensationInv
    <2>2. RequestsEvolve /\ LinkedInv'
        BY <2>1 DEF RequestsEvolve, CompensationInv, LinkedInv
    <2>3. FlightInv'
        BY <1>1, <2>2, NextSlots, FlightKept DEF CompensationInv
    <2>. QED
        BY <1>1, <2>2, <2>3, NextTyped, NextUnique, NextCorrections, NextKeys,
           NextOriginals DEF CompensationInv
<1>2. ASSUME NEW w \in Workers, CompensationStart(w)
      PROVE  CompensationInv' /\ RequestsEvolve
    <2>1. PICK t : Quiet(w, t) /\ OwnFlight(t)
        BY <1>2, StartQuiet DEF CompensationInv
    <2>2. UNCHANGED <<requests, roster>>
        BY <1>2, StartQuiet DEF CompensationInv
    <2>3. RequestsEvolve /\ LinkedInv'
        BY <2>2 DEF RequestsEvolve, CompensationInv, LinkedInv
    <2>4. \A x \in Workers : tx'[x] = IF x = w THEN t ELSE tx[x]
        BY <2>1 DEF Quiet, CompensationInv, Typed, FlightOK
    <2>5. FlightInv'
        BY <2>1, <2>3, <2>4, FlightKept DEF CompensationInv
    <2>. QED
        BY <2>1, <2>2, <2>3, <2>5, QuietKeeps
           DEF CompensationInv, Typed, TablesTypeOK
<1>3. ASSUME NEW w \in Workers, CompensationAdvance(w)
      PROVE  CompensationInv' /\ RequestsEvolve
    <2>1. /\ Quiet(w, Idle)
          /\ requests' \in [RequestIds -> RequestRow \cup {Free}]
          /\ roster' \subseteq Sessions \X Students
          /\ RequestsEvolve /\ LinkedInv'
        BY <1>3, AdvanceQuiet DEF CompensationInv
    <2>2. \A x \in Workers : tx'[x] \in {tx[x], Idle}
        BY <2>1 DEF Quiet, CompensationInv, Typed, FlightOK
    <2>3. FlightInv'
        BY <2>1, <2>2, FlightKept DEF CompensationInv
    <2>. QED
        BY <2>1, <2>3, QuietKeeps DEF CompensationInv
<1>. QED
    BY <1>1, <1>2, <1>3 DEF CompensationNext

\* Every reachable state satisfies the inductive invariant.
THEOREM CompensationInductive == CompensationSpec => []CompensationInv
<1>1. Init => CompensationInv
    BY InitTyped, InitUnique, InitCorrections, InitKeys, InitOriginals
       DEF CompensationInv, FlightInv, Init
<1>2. CompensationInv /\ [CompensationNext]_vars => CompensationInv'
    BY CompensationKeeps
<1>. QED
    BY <1>1, <1>2, PTL DEF CompensationSpec

\* Tables, requests in flight and answers always have their types, with the
\* handlers of both modules at work.
THEOREM CompensationTypeCorrect == CompensationSpec => []CompensationTypeOK
<1>1. CompensationInv => CompensationTypeOK
    BY DEF CompensationInv, FlightInv, OwnFlight, Typed, FlightOK,
       CompensationTypeOK
<1>. QED
    BY <1>1, CompensationInductive, PTL

\* The absence table keeps one row per key, and corrections their rows, while
\* requests are decided and students linked.
THEOREM AttendanceUndisturbed ==
    CompensationSpec => [](UniqueAbsence /\ CorrectionsHaveRows)
<1>1. CompensationInv => UniqueAbsence /\ CorrectionsHaveRows
    BY DEF CompensationInv
<1>. QED
    BY <1>1, CompensationInductive, PTL

\* approve_compensation_request never commits the status without the link,
\* whoever links the same student meanwhile.
THEOREM ApprovedAreLinked == CompensationSpec => []ApprovedIsOnRoster
<1>1. CompensationInv => ApprovedIsOnRoster
    BY DEF CompensationInv, LinkedInv, ApprovedIsOnRoster, KeyOf
<1>. QED
    BY <1>1, CompensationInductive, PTL

\* No request, stored or being submitted, names its own session as missed.
SoughtElsewhere ==
    /\ Elsewhere(requests)
    /\ \A w \in Workers : tx[w] # Idle /\ tx[w].op = "request" =>
            tx[w].original # tx[w].session

\* Students only offer to make up for another session than the one they ask for.
OffersElsewhere == \A k \in Offers : k[1] # k[2]

\* As long as no form asks for it, nobody makes up for a session in itself.
LEMMA ElsewhereKept ==
    ASSUME OffersElsewhere, CompensationInv, SoughtElsewhere,
           [CompensationNext]_vars
    PROVE  SoughtElsewhere'
<1>1. CASE [Next]_vars
    <2>1. Elsewhere(requests)'
        BY <1>1, NextOriginals DEF CompensationInv, SoughtElsewhere, Elsewhere
    <2>2. \A x \in Workers : tx'[x] \in {tx[x], Idle} \/ tx'[x].op # "request"
        BY <1>1, NextSlots DEF CompensationInv, OwnOps
    <2>. QED
        BY <2>1, <2>2 DEF SoughtElsewhere
<1>2. ASSUME NEW w \in Workers, CompensationStart(w) PROVE SoughtElsewhere'
    <2>1. /\ UNCHANGED requests
          /\ \E t : /\ Quiet(w, t)
                    /\ t.op = "request" => <<t.session, t.original>> \in Offers
        BY <1>2, StartQuiet DEF CompensationInv
    <2>2. PICK t : /\ Quiet(w, t)
                   /\ t.op = "request" => t.session # t.original
        BY <2>1 DEF OffersElsewhere
    <2>3. \A x \in Workers : tx'[x] = IF x = w THEN t ELSE tx[x]
        BY <2>2 DEF Quiet, CompensationInv, Typed, FlightOK
    <2>. QED
        BY <2>1, <2>2, <2>3 DEF SoughtElsewhere, Elsewhere
<1>3. ASSUME NEW w \in Workers, CompensationAdvance(w) PROVE SoughtElsewhere'
    <2>1. Quiet(w, Idle) /\ RequestsEvolve
        BY <1>3, AdvanceQuiet DEF CompensationInv
    <2>2. \A x \in Workers : tx'[x] \in {tx[x], Idle}
        BY <2>1 DEF Quiet, CompensationInv, Typed, FlightOK
    <2>3. ASSUME NEW r \in RequestIds, requests'[r] # Free, requests[r] = Free
          PROVE  requests'[r].original # requests'[r].session
        <3>. DEFINE t == tx[w]
        <3>1. CASE RequestCommit(w)
            <4>1. t # Idle /\ t.op = "request"
                BY <3>1 DEF RequestCommit
            <4>2. t.original # t.session
                BY <4>1 DEF SoughtElsewhere
            <4>3. requests'[r] = [session |-> t.session, student |-> t.student,
                                  original |-> t.original, status |-> "PENDING"]
                BY <2>3, <3>1
                   DEF RequestCommit, CompensationInv, Typed, TablesTypeOK
            <4>. QED
                BY <4>2, <4>3
        <3>2. ASSUME NEW status, Decide(t.request, status), t # Idle,
                     t.op \in {"approve", "reject"}
              PROVE  FALSE
            <4>1. OwnFlight(t)
                BY <3>2 DEF CompensationInv, FlightInv, OwnOps
            <4>2. r # t.request
                BY <2>3, <3>2, <4>1 DEF OwnFlight
            <4>3. requests'[r] = requests[r]
                BY <3>2, <4>2 DEF Decide, CompensationInv, Typed, TablesTypeOK
            <4>. QED
                BY <2>3, <4>3
        <3>3. ~UNCHANGED requests
            BY <2>3
        <3>. QED
            BY <1>3, <3>1, <3>2, <3>3
               DEF CompensationAdvance, ApproveCommit, ApproveStore,
                   ApproveFail, RejectCommit, LinkCommit, LinkStore, LinkFail,
                   Abort
    <2>. QED
        BY <2>1, <2>2, <2>3 DEF SoughtElsewhere, Elsewhere, RequestsEvolve
<1>. QED
    BY <1>1, <1>2, <1>3 DEF CompensationNext

\* mark_present strikes a missed session out only for a request a teacher has
\* decided on, whose student is linked to the session attended, and leaves the
\* student a row there: as long as nobody asks to make up for a session in
\* that very session, which create_compensation_request does not refuse.
THEOREM TradesAreApproved ==
    ASSUME OffersElsewhere, Elsewhere(InitialRequests)
    PROVE  CompensationSpec => TradedForApproval
<1>. DEFINE Traded ==
        \A i \in AbsenceIds :
            AbsenceIsLive(i) /\ ~AbsenceIsLive(i)' =>
                \E r \in RequestIds :
                    /\ requests[r] # Free
                    /\ requests[r].status # "PENDING"
                    /\ KeyOf(r) \in roster
                    /\ requests[r].original = absences[i].session
                    /\ requests[r].student = absences[i].student
                    /\ RowsOf(requests[r].session, requests[r].student)' # {}
<1>1. Init => SoughtElsewhere
    BY DEF Init, SoughtElsewhere, Elsewhere
<1>2. CompensationInv /\ SoughtElsewhere /\ [CompensationNext]_vars
          => SoughtElsewhere'
    BY ElsewhereKept
<1>3. ASSUME CompensationInv, SoughtElsewhere, [CompensationNext]_vars
      PROVE  [Traded]_vars
    <2>1. ASSUME UNCHANGED absences PROVE Traded
        BY <2>1 DEF AbsenceIsLive
    <2>2. ASSUME NEW w \in Workers, Start(w) \/ CompensationStart(w) \/
                     CompensationAdvance(w)
          PROVE  UNCHANGED absences
        BY <1>3, <2>2, StartKeys, StartQuiet, AdvanceQuiet
           DEF CompensationInv, Quiet
    <2>3. ASSUME NEW s, NEW m, NEW j \in AbsenceIds, CheckedIn(j, s, m)
          PROVE  RowsOf(s, m)' # {}
        BY <2>3, MarksAssumption
           DEF CheckedIn, Written, AbsenceIsLive, RowsOf
    <2>4. ASSUME NEW w \in Workers, Advance(w), Strikes(w) PROVE Traded
        <3>. DEFINE t == tx[w]
        <3>1. PICK r \in RequestIds :
                  /\ Grounds(absences, requests[r], roster, t)
                  /\ requests[r].original = absences[t.original].session
            BY <1>3, <2>4, StrikesFor DEF CompensationInv, SoughtElsewhere
        <3>2. /\ absences[t.original].student = t.student
              /\ \E j \in AbsenceIds : CheckedIn(j, t.session, t.student)
            BY <1>3, <2>4, StrikesFor DEF CompensationInv, SoughtElsewhere
        <3>3. UNCHANGED requests
            BY <1>3, <2>4, NextOriginals DEF CompensationInv, Next
        <3>4. /\ requests'[r].session = t.session
              /\ requests'[r].student = t.student
            BY <3>1, <3>3 DEF Grounds
        <3>5. RowsOf(requests[r].session, requests[r].student)' # {}
            BY <2>3, <3>2, <3>4
        <3>6. ASSUME NEW i \in AbsenceIds, AbsenceIsLive(i), ~AbsenceIsLive(i)'
              PROVE  i = t.original
            BY <2>4, <3>6, MarksAssumption
               DEF Strikes, CheckedIn, Written, AbsenceIsLive
        <3>7. /\ requests[r] # Free /\ requests[r].status # "PENDING"
              /\ KeyOf(r) \in roster /\ requests[r].student = t.student
            BY <3>1 DEF Grounds, KeyOf
        <3>. QED
            BY <3>1, <3>2, <3>5, <3>6, <3>7
    <2>5. ASSUME NEW s, Writes(s) PROVE Traded
        BY <2>5, MarksAssumption DEF Writes, Written, AbsenceIsLive
    <2>6. ASSUME NEW w \in Workers, Advance(w) PROVE Traded
        BY <1>3, <2>1, <2>4, <2>5, <2>6, AdvanceWrites DEF CompensationInv
    <2>. HIDE DEF Traded
    <2>. QED
        BY <1>3, <2>1, <2>2, <2>6
           DEF CompensationNext, Next, WindowCloses, vars
<1>. QED
    BY <1>1, <1>2, <1>3, CompensationInductive, PTL
       DEF CompensationSpec, TradedForApproval
=============================================================================
