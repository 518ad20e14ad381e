---------------------------- MODULE Justifications ----------------------------
(***************************************************************************)
(* Justifications of absences, and the documents they refer to:            *)
(*   POST   /justifications               submit_justification             *)
(*   PATCH  /justifications/mine/{id}     edit_my_justification            *)
(*   DELETE /justifications/mine/{id}     delete_my_justification          *)
(*   PATCH  /justifications/{id}/approve  approve_justification            *)
(*   PATCH  /justifications/{id}/reject   reject_justification             *)
(*   PATCH  /justifications/approve-all   approve_all_justifications       *)
(*   PATCH  /justifications/reject-all    reject_all_justifications        *)
(*                                                                         *)
(* As in Attendance, a worker reads committed rows, keeps them, and writes *)
(* and commits later in one step.  The document store (Cloudinary) has no  *)
(* transactions: an upload and a deletion there take effect at once,       *)
(* whatever becomes of the request.                                        *)
(* The absence table is Attendance's; it is reduced to what its commits    *)
(* leave: taps, and absences struck out by a make-up session.              *)
(***************************************************************************)
EXTENDS FiniteSets, Naturals

CONSTANTS
    Workers,        \* requests served at the same time
    Sessions, Students,
    Days,           \* bound: the dates students name
    Day,            \* Day[s]: the date of session s
    InGroup,        \* <<s, m>>: s is a session of student m's group and year
    Items,          \* bound: justifications ever submitted
    Files,          \* bound: documents ever uploaded
    Ops,            \* the handlers an instance exercises
    Reliable,       \* no crash, and the document store does what it is asked
    Free, Gone, NULL, Idle

ASSUME DatesAssumption == Days \subseteq Nat /\ Day \in [Sessions -> Days]

VARIABLES
    items,          \* the justification table, by row id
    files,          \* the document store: "unused", "stored", "destroyed"
    marks,          \* the absence table, by session and student
    tx,             \* what each worker's request has read so far
    lost,           \* documents destroyed by a request that then crashed
    alone           \* history: the request that nothing has overlapped, if any

vars == <<items, files, marks, tx, lost, alone>>

Keys == Sessions \X Students

\* end_date must be after start_date.
Ranges == {r \in Days \X Days : r[1] < r[2]}

Decisions == {"APPROVED", "REJECTED"}
Scopes == {"absence", "session", "range"}
\* NULL: the id of an absence that is there no more.
Targets == Keys \cup Sessions \cup Ranges \cup {NULL}

Item == [student : Students, scope : Scopes, target : Targets,
         file : Files, status : Decisions \cup {"PENDING"}]
Mark == [absent : BOOLEAN, justified : BOOLEAN]

SubmitTx == [op : {"submit"}, item : Item]
EditTx == [op : {"edit"}, phase : {"read", "uploaded"}, id : Items,
           old : Files, new : Files \cup {NULL}]
DeleteTx == [op : {"delete"}, phase : {"read", "destroyed"}, id : Items,
             old : Files]
DecideTx == [op : {"decide", "decide-all"}, status : Decisions,
             rows : UNION {[I -> Item] : I \in (SUBSET Items) \ {{}}}]
Tx == SubmitTx \cup EditTx \cup DeleteTx \cup DecideTx

\* The marks are no rows, absences, documents or requests.
ASSUME MarksAssumption ==
    /\ Free \notin Item /\ Gone \notin Item
    /\ NULL \notin Mark \cup Files \cup Keys /\ Idle \notin Tx

Live(j) == items[j] \notin {Free, Gone}
Pending(j) == Live(j) /\ items[j].status = "PENDING"
Unused == {f \in Files : files[f] = "unused"}

\* The absences a justification is about.
Covers(row, k) ==
    CASE row.scope = "absence" -> k = row.target
      [] row.scope = "session" -> k = <<row.target, row.student>>
      [] row.scope = "range"   -> /\ k[2] = row.student
                                  /\ Day[k[1]] \in row.target[1]..row.target[2]

\* Mutant: a range that ends where another begins is let through.
OverlapStrict(r, q) == r[1] < q[2] /\ r[2] > q[1]

Overlap(r, q) == r[1] <= q[2] /\ r[2] >= q[1]

\* The ranges of student m, whatever their status, that meet r.
Overlapping(m, r) ==
    {j \in Items : /\ Live(j)
                   /\ items[j].student = m
                   /\ items[j].scope = "range"
                   /\ Overlap(items[j].target, r)}

\* Mutant: no unique constraint on (student, absence) and (student, session).
DuplicateUnseen(row) == FALSE

\* UNIQUE (student_id, absence_id) and UNIQUE (student_id, session_id).
Duplicate(row) ==
    /\ row.scope # "range"
    /\ \E j \in Items : /\ Live(j)
                        /\ items[j].student = row.student
                        /\ items[j].scope = row.scope
                        /\ items[j].target = row.target

\* Mutant: the document of a refused submission is kept.
DestroyedKept(f) == files

\* delete_cloudinary_file logs a failure and goes on.
Destroyed(f) == [files EXCEPT ![f] = "destroyed"]

Destroy(f) ==
    \/ files' = Destroyed(f)
    \/ ~Reliable /\ UNCHANGED files

\* What a request has uploaded and has not yet put into a row.
Waiting(w) ==
    {f \in Files : /\ tx[w] # Idle
                   /\ \/ tx[w].op = "submit" /\ f = tx[w].item.file
                      \/ /\ tx[w].op = "edit" /\ tx[w].phase = "uploaded"
                         /\ f = tx[w].new}

Begin(w, t) ==
    /\ tx[w] = Idle
    /\ tx' = [tx EXCEPT ![w] = t]

Finish(w) == tx' = [tx EXCEPT ![w] = Idle] /\ UNCHANGED lost
-----------------------------------------------------------------------------
(* The student submits: checks, then uploads, then inserts.                 *)

Admissible(m, scope, target) ==
    \/ scope = "absence" /\ target \in Keys
         /\ target[2] = m /\ marks[target] # NULL
    \/ scope = "session" /\ target \in Sessions /\ <<target, m>> \in InGroup
    \/ scope = "range" /\ target \in Ranges /\ Overlapping(m, target) = {}

\* Bound: a justification is submitted while there is an id for it.
ItemIdsLeft ==
    Cardinality({j \in Items : items[j] = Free})
        > Cardinality({w \in Workers : tx[w] # Idle /\ tx[w].op = "submit"})

SubmitStart(w, m, scope, target, f) ==
    /\ "submit" \in Ops
    /\ ItemIdsLeft
    /\ Admissible(m, scope, target)
    /\ files[f] = "unused"
    /\ files' = [files EXCEPT ![f] = "stored"]
    /\ Begin(w, [op |-> "submit",
                 item |-> [student |-> m, scope |-> scope, target |-> target,
                           file |-> f, status |-> "PENDING"]])
    /\ UNCHANGED <<items, marks, lost>>

SubmitStore(w, j) ==
    LET row == tx[w].item IN
    /\ ~Duplicate(row)
    /\ row.scope = "absence" => row.target # NULL
    /\ items[j] = Free
    /\ items' = [items EXCEPT ![j] = row]
    /\ Finish(w)
    /\ UNCHANGED <<files, marks>>

\* The flush raises IntegrityError, be it for a duplicate or for an absence
\* that was struck out meanwhile: the document goes again, 409.
SubmitFail(w) ==
    LET row == tx[w].item IN
    /\ \/ Duplicate(row)
       \/ row.scope = "absence" /\ row.target = NULL
    /\ Destroy(row.file)
    /\ Finish(w)
    /\ UNCHANGED <<items, marks>>

SubmitCommit(w) ==
    /\ tx[w] # Idle /\ tx[w].op = "submit"
    /\ SubmitFail(w) \/ \E j \in Items : SubmitStore(w, j)

(* The student edits: the new document is uploaded and the old one destroyed *)
(* before the row is written.                                              *)

EditStart(w, j) ==
    /\ "edit" \in Ops
    /\ Pending(j)
    /\ Begin(w, [op |-> "edit", phase |-> "read", id |-> j,
                 old |-> items[j].file, new |-> NULL])
    /\ UNCHANGED <<items, files, marks, lost>>

\* Mutant: the document that has just been uploaded is destroyed.
ReplacedNew(old, new) == [files EXCEPT ![new] = "destroyed"]

\* The store after the replacement, when the deletion succeeds.
Replaced(old, new) ==
    [files EXCEPT ![new] = "stored", ![old] = "destroyed"]

EditUpload(w, f) ==
    LET t == tx[w] IN
    /\ tx[w] # Idle /\ t.op = "edit" /\ t.phase = "read"
    /\ files[f] = "unused"
    /\ \/ files' = Replaced(t.old, f)
       \/ ~Reliable /\ files' = [files EXCEPT ![f] = "stored"]
    /\ tx' = [tx EXCEPT ![w].phase = "uploaded", ![w].new = f]
    /\ UNCHANGED <<items, marks, lost>>

\* The upload is refused, or the reason alone is edited (the bound on Files
\* leaves no other choice once they are used up).
EditOtherwise(w) ==
    /\ tx[w] # Idle /\ tx[w].op = "edit" /\ tx[w].phase = "read"
    /\ Finish(w)
    /\ UNCHANGED <<items, files, marks>>

\* Mutant: the id of the upload is not kept.
RewrittenUnset(t) == [items EXCEPT ![t.id].file = NULL]

\* Mutant: the whole row is written back, status included.
RewrittenWhole(t) ==
    [items EXCEPT ![t.id].file = t.new, ![t.id].status = "PENDING"]

\* Only the columns that were edited are written, whatever the status is now.
Rewritten(t) == [items EXCEPT ![t.id].file = t.new]

\* The row may have gone: its UPDATE fails and the new document stays behind.
EditCommit(w) ==
    /\ tx[w] # Idle /\ tx[w].op = "edit" /\ tx[w].phase = "uploaded"
    /\ items' = IF Live(tx[w].id) THEN Rewritten(tx[w]) ELSE items
    /\ Finish(w)
    /\ UNCHANGED <<files, marks>>

(* The student cancels: the document is destroyed, then the row deleted.    *)

Cancellable(j) == Pending(j)

DeleteStart(w, j) ==
    /\ "delete" \in Ops
    /\ Cancellable(j)
    /\ Begin(w, [op |-> "delete", phase |-> "read", id |-> j,
                 old |-> items[j].file])
    /\ UNCHANGED <<items, files, marks, lost>>

DeleteDestroy(w) ==
    /\ tx[w] # Idle /\ tx[w].op = "delete" /\ tx[w].phase = "read"
    /\ Destroy(tx[w].old)
    /\ tx' = [tx EXCEPT ![w].phase = "destroyed"]
    /\ UNCHANGED <<items, marks, lost>>

DeleteCommit(w) ==
    /\ tx[w] # Idle /\ tx[w].op = "delete" /\ tx[w].phase = "destroyed"
    /\ items' = [items EXCEPT ![tx[w].id] = Gone]
    /\ Finish(w)
    /\ UNCHANGED <<files, marks>>
-----------------------------------------------------------------------------
(* An admin decides on one pending justification, or on many.               *)

DecideStart(w, op, I, status) ==
    /\ op \in Ops
    /\ I # {} /\ \A j \in I : Pending(j)
    /\ op = "decide" => Cardinality(I) = 1
    /\ Begin(w, [op |-> op, status |-> status, rows |-> [j \in I |-> items[j]]])
    /\ UNCHANGED <<items, files, marks, lost>>

\* Mutant: a rejection justifies too.
JustifyingAlways(status) == TRUE

Justifying(status) == status = "APPROVED"

\* _mark_absences_as_justified, for each justification that was read.  The
\* scope of a single absence covers it even when it is a presence.
Justified(rows, status) ==
    [k \in Keys |->
        IF /\ marks[k] # NULL
           /\ Justifying(status)
           /\ \E j \in DOMAIN rows : /\ Covers(rows[j], k)
                                     /\ \/ marks[k].absent
                                        \/ rows[j].scope = "absence"
        THEN [marks[k] EXCEPT !.justified = TRUE]
        ELSE marks[k]]

\* One: the UPDATE fails if the row has gone.  Many: UPDATE ... WHERE id IN
\* skips the rows that have gone, but what they covered is justified.
\* Neither looks at the status again.
DecideCommit(w) ==
    LET t == tx[w] IN
    /\ tx[w] # Idle /\ t.op \in {"decide", "decide-all"}
    /\ IF t.op = "decide" /\ \E j \in DOMAIN t.rows : ~Live(j)
       THEN UNCHANGED <<items, marks>>
       ELSE /\ items' = [j \in Items |->
                            IF j \in DOMAIN t.rows /\ Live(j)
                            THEN [items[j] EXCEPT !.status = t.status]
                            ELSE items[j]]
            /\ marks' = Justified(t.rows, t.status)
    /\ Finish(w)
    /\ UNCHANGED files
-----------------------------------------------------------------------------
(* What the absence table's own handlers commit.                            *)

\* A tap, sheet or scan writes is_absent and leaves statut_justificatif.
Record(k, v) ==
    /\ "record" \in Ops
    /\ marks' = [marks EXCEPT ![k] =
            [absent |-> v,
             justified |-> IF marks[k] = NULL THEN FALSE
                                              ELSE marks[k].justified]]
    /\ UNCHANGED <<items, files, tx, lost>>

\* A justification whose absence k is deleted, as a request that has read it
\* keeps it: absences go by their ids, and one recorded later has another.
Unreferenced(row, k) ==
    IF row.scope = "absence" /\ row.target = k
    THEN [row EXCEPT !.target = NULL] ELSE row

Overtaken(t, k) ==
    IF t = Idle THEN t
    ELSE IF t.op = "submit" THEN [t EXCEPT !.item = Unreferenced(t.item, k)]
    ELSE IF t.op \in {"decide", "decide-all"}
    THEN [t EXCEPT !.rows =
            [j \in DOMAIN t.rows |-> Unreferenced(t.rows[j], k)]]
    ELSE t

\* A make-up scan deletes the absence, and the foreign key the justification;
\* nobody deletes the document.
StrikeOut(k) ==
    /\ "strike" \in Ops
    /\ marks[k] # NULL /\ marks[k].absent
    /\ marks' = [marks EXCEPT ![k] = NULL]
    /\ items' = [j \in Items |->
            IF Live(j) /\ items[j].scope = "absence" /\ items[j].target = k
            THEN Gone ELSE items[j]]
    /\ tx' = [w \in Workers |-> Overtaken(tx[w], k)]
    /\ UNCHANGED <<files, lost>>

\* The documents whose row the request was about to write or delete.
Destroying(w) ==
    IF \/ tx[w] # Idle /\ tx[w].op = "edit" /\ tx[w].phase = "uploaded"
       \/ tx[w] # Idle /\ tx[w].op = "delete" /\ tx[w].phase = "destroyed"
    THEN {tx[w].old} ELSE {}

\* The server dies: PostgreSQL rolls back, the document store does not.
Crash ==
    /\ ~Reliable
    /\ \E w \in Workers : tx[w] # Idle
    /\ tx' = [w \in Workers |-> Idle]
    /\ lost' = lost \cup UNION {Destroying(w) : w \in Workers}
    /\ UNCHANGED <<items, files, marks>>
-----------------------------------------------------------------------------
TablesOK ==
    /\ items \in [Items -> Item \cup {Free, Gone}]
    /\ files \in [Files -> {"unused", "stored", "destroyed"}]
    /\ marks \in [Keys -> Mark \cup {NULL}]
    /\ tx \in [Workers -> Tx \cup {Idle}]
    /\ lost \subseteq Files

\* The request that runs alone, if any, is the only one.
TypeOK ==
    /\ TablesOK
    /\ alone \subseteq Workers
    /\ \A w \in alone, v \in Workers : tx[v] # Idle <=> v = w

Init ==
    /\ items = [j \in Items |-> Free]
    /\ files = [f \in Files |-> "unused"]
    /\ marks = [k \in Keys |-> NULL]
    /\ tx = [w \in Workers |-> Idle]
    /\ lost = {}
    /\ alone = {}

Student(w) ==
    \/ \E m \in Students, scope \in Scopes, target \in Targets, f \in Unused :
            SubmitStart(w, m, scope, target, f)
    \/ \E j \in Items : EditStart(w, j) \/ DeleteStart(w, j)
    \/ \E f \in Unused : EditUpload(w, f)
    \/ SubmitCommit(w) \/ EditOtherwise(w) \/ EditCommit(w)
    \/ DeleteDestroy(w) \/ DeleteCommit(w)

Admin(w) ==
    \/ \E op \in {"decide", "decide-all"}, I \in SUBSET Items,
          status \in Decisions : DecideStart(w, op, I, status)
    \/ DecideCommit(w)

\* Of the requests in progress after a step, the one that is by itself and
\* has been since it began.
StillAlone ==
    {w \in Workers : /\ \A v \in Workers : tx'[v] # Idle <=> v = w
                     /\ tx[w] = Idle => \A v \in Workers : tx[v] = Idle
                     /\ tx[w] # Idle => w \in alone}

\* A tap disturbs no request; an absence struck out may take its row away.
Next ==
    \/ \E w \in Workers : (Student(w) \/ Admin(w)) /\ alone' = StillAlone
    \/ \E k \in Keys, v \in BOOLEAN : Record(k, v) /\ UNCHANGED alone
    \/ \E k \in Keys : StrikeOut(k) /\ alone' = {}
    \/ Crash /\ alone' = {}

Spec == Init /\ [][Next]_vars
-----------------------------------------------------------------------------
(* Properties.                                                             *)

\* The document of a justification is in the store, except between the
\* moment a request destroys it and that request's commit, or after a crash in
\* that gap: edits, cancellations and decisions of one row that race never
\* leave it with a document that is gone.
DocumentsAreStored ==
    \A j \in Items : Live(j) =>
        \/ files[items[j].file] = "stored"
        \/ items[j].file \in lost
        \/ \E w \in Workers : items[j].file \in Destroying(w)

\* A student has at most one justification for an absence and one for a
\* session, however submissions race.
OnePerTarget ==
    \A i, j \in Items :
        /\ Live(i) /\ Live(j)
        /\ items[i].scope # "range"
        /\ items[i].student = items[j].student
        /\ items[i].scope = items[j].scope
        /\ items[i].target = items[j].target
        => i = j

\* A decided justification never becomes pending again, not even through an
\* edit that started before the decision.
NeverReopened ==
    [][\A j \in Items :
        Live(j) /\ Live(j)' /\ ~Pending(j) => ~Pending(j)']_vars

\* A step of a request that nothing has overlapped: its checks, its end, or
\* what lies between, but not an absence struck out under it.
AloneActs ==
    /\ \E w \in alone \cup alone' : tx'[w] # tx[w]
    /\ \A k \in Keys : ~StrikeOut(k)

\* Two ranges of a student that have a day in common.
Meet(i, j) ==
    /\ Live(i) /\ Live(j) /\ i # j
    /\ items[i].scope = "range" /\ items[j].scope = "range"
    /\ items[i].student = items[j].student
    /\ \E d \in Days : /\ d \in items[i].target[1]..items[i].target[2]
                      /\ d \in items[j].target[1]..items[j].target[2]

\* A submission that nothing has overlapped adds no range that meets another of
\* its student, whatever submissions that raced have stored before it.
AloneMeetsNothing ==
    [][AloneActs => \A i, j \in Items : Meet(i, j)' => Meet(i, j)]_vars

\* A stored document that no row refers to and no request is about to store.
Orphan(f) ==
    /\ files[f] = "stored"
    /\ ~\E j \in Items : Live(j) /\ items[j].file = f
    /\ \A w \in Workers : f \notin Waiting(w)

\* If the store obeys, a request that nothing has overlapped leaves no document
\* behind that no row refers to: refused submissions, edits and cancellations
\* clean up.
AloneLeavesNoOrphan ==
    [][AloneActs /\ Reliable => \A f \in Files : Orphan(f)' => Orphan(f)]_vars

\* An absence that counts as justified though no approved justification
\* covers it.
Unfounded(k) ==
    /\ marks[k] # NULL /\ marks[k].justified
    /\ ~\E j \in Items : /\ Live(j)
                         /\ items[j].status = "APPROVED"
                         /\ Covers(items[j], k)

\* A request that nothing has overlapped leaves no absence justified without an
\* approved justification that covers it: approving marks what is covered and
\* no more, and rejecting, editing and cancelling take nothing away from it.
AloneJustifiesByApproval ==
    [][AloneActs => \A k \in Keys : Unfounded(k)' => Unfounded(k)]_vars
=============================================================================
