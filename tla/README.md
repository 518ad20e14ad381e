# Absence Management System: a TLA+ development

This directory models the backend of the Absence Management System (AMS) in
TLA+, checks the models with TLC and proves theorems about them with TLAPS. The
models are translated from `src/app`; paths below are relative to `src/`.

## 1. The system

The backend is a FastAPI application over PostgreSQL (READ COMMITTED) and
SQLAlchemy's async ORM. Everything that matters here follows from how one
request is served:

- `get_db` (`app/db/database.py`) opens one ORM session, and so one transaction,
  per request. It commits when the handler returns and rolls back when it raises;
  the response is sent afterwards.
- Handlers are coroutines: while one waits for the database another runs. Each
  *reads* rows, decides, and *writes* at a flush near its end. No read takes a
  lock, so what was read may have changed by the flush.
- The ORM writes the columns that differ from the values it loaded. An UPDATE of
  a row that has gone raises `StaleDataError`, an INSERT that meets a unique
  constraint waits for the other transaction and then raises `IntegrityError`;
  both end in a rollback unless a savepoint (`begin_nested`) catches them. Several
  UPDATEs of the same columns are sent as one batch, for which the driver reports no
  count: a row of it that has gone is skipped.
- `require_active_user` marks the caller's `last_activity`, but the row is written
  by the handler's first flush only, so two requests of one user still interleave.

### Components

| Component | State | Operations | Interacts with |
| --- | --- | --- | --- |
| Absence table (`routers/absences.py`, `sessions.py`, `attendance.py`, `models/absence.py`) | `absences` with UNIQUE (session, student); `absence_corrections` with ON DELETE CASCADE | tap (POST /absences), sheet (PUT /sessions/{id}/attendance), QR scan, correction, review | notifications, compensation, justifications |
| QR codes (`routers/attendance.py`, `models/session_nonce.py`) | `session_nonces`, one row per session | GET qr-code creates, renews, returns; a scan checks | the scan |
| Compensation requests (`routers/compensation_requests.py`) | `compensation_requests`, `session_students` | request, approve (links the student), reject, link | the scan deletes the missed session's absence |
| Justifications (`routers/justifications.py`, `services/cloudinary_service.py`) | `justifications`, documents on Cloudinary, `absences.statut_justificatif` | submit, edit, cancel, approve, reject, approve-all, reject-all | absence table, notifications |
| Thresholds and notifications (`routers/absences.py`, `notifications.py`, `services/notification_service.py`) | `notifications`, open WebSockets | created by taps, decisions, requests; read, mark as read | settings |
| Administration settings (`routers/settings.py`) | a singleton row | read (created on first read), update | thresholds |
| Sessions and rosters (`routers/sessions.py`, `compensation_requests.py`, `services/session_service.py`) | `sessions`, `session_groups`, `session_students`, `modules`, `salles` | materialise a day or a week, add a group or student, reassign | plans, the absence table |
| Imports (`routers/imports/`) | plans, students, teachers, `import_history` | CSV imports, module sync | sessions, accounts |
| Authentication (`routers/auth.py`, `services/auth_service.py`, `helpers/permissions.py`) | `last_activity`, passwords, reset tokens, the audit log; the browser's two cookies | login, Google, refresh, logout, change and reset of the password | every request |
| Accounts (`routers/accounts/`) | `admins`, `teachers`, `student_users`, and `students` kept beside the latter | bootstrap, create, update, open and close | authentication, rosters |
| Views (dashboards, profiles, groups, exports) | `session_attendance_summaries` | queries; a summary stores what it has counted | all tables |

`app/main.py` does not mount `routers/planning.py`, `account_admins.py`,
`account_students.py`, `account_teachers.py`, nor the module `routers/imports.py`,
which the package of the same name shadows.

### What is hard, and what makes each part correct

- **Absence table.** Five handlers write the same rows after unlocked reads.
  Correct: one row per student and session; a deleted row stays deleted; no
  correction without its row; the answer matches what is stored; a row disappears
  only as part of a make-up.
- **QR codes.** A code expires by the clock while tabs poll and race to renew.
  Correct: a refused code stays refused; a screen is not dark for long.
- **Compensation.** A long sequence (absence, request, decision, link, scan) over
  four tables. Correct: an approved request has its link; an absence is traded for
  a decided request only.
- **Justifications.** A document store without transactions beside a table with
  them. Correct: a row's document exists; no document is left over; an absence is
  justified by an approved justification; a decision is not reopened.
- **Thresholds and notifications.** A threshold is an equality test at some of the
  writes only, against a settings row that its first reader creates. Correct:
  whoever is told of an absence has it; a created default never undoes a save.
- **Sessions and imports.** Five handlers insert what they find missing, by two
  ways of computing dates, under unique keys with nullable columns. Correct: an
  import is all or nothing; a plan has one class per teacher and date, on its day.
- **Accounts.** Three tables share a space of emails that no constraint covers, and
  a fourth mirrors the third. Correct: students with an account are on the attendance
  lists; an import takes no account over; an administrator remains.
- **Authentication.** Signed tokens that cannot be withdrawn, a user row that every
  request writes, links sent before they are stored. Correct: an idle user comes back
  by logging in only; a link works once; nothing brings an old password back.
- **Views.** Several pages compute the same figures with queries of their own, each
  of which sees another state. Correct: figures stay in range and pages agree.

`PROJECT.json` lists each hazard at its line with the properties that cover it.

## 2. Modules

| Module | What it is |
| --- | --- |
| `AttendanceLedger` | Abstract specification: a ledger of one entry per student and session, written one session at a time, whose entries disappear only in a trade. No requests, row ids or transactions. |
| `Attendance` | The absence table, corrections, and the five handlers that write them. Refines `AttendanceLedger`. |
| `Compensation` | Extends `Attendance` with requests, decisions and the roster, on the same workers and tables. |
| `QrNonce` | One session's QR code, the tabs that poll it and the phones that scan it, in ticks. |
| `Justifications` | Justifications, the document store, and the absence table reduced to what its commits leave. |
| `Thresholds` | One student's absences in one module, what a tap sends about them between its flush and its commit, and the settings row whose thresholds it compares with. |
| `Calendar` | Abstract specification: a set of classes, one entry each, that are added or pass to another teacher of the same plan and date. |
| `Timetable` | Plans, modules, rooms and sessions, and the seven handlers that insert or change them. Refines `Calendar`. |
| `Accounts` | The accounts of three roles, the academic rows beside the students', and the requests that create, edit, import and close them. |
| `Login` | One account, one browser, its reset links and the audit log, with the clock. |
| `Views` | The figures of every page and export as operators over the tables, and the pages whose queries could disagree as requests. |
| `MC...` (one for each specification checked) | Constants and symmetry for TLC. |
| `Attendance_proofs` | Theorems about `Attendance` and about `Compensation`, which extends it, with their proofs. |
| `QrNonce_proofs`, `Justifications_proofs`, `Thresholds_proofs`, `Timetable_proofs`, `Accounts_proofs`, `Login_proofs`, `Views_proofs` | Theorems about the module each is named after, with their proofs. |

### How the models correspond to the code

*Workers.* A worker serves one request; `tx[w]` is what the handler has read so
far, the ORM session in effect. A `...Start` action is the reads and early
returns (a request that is refused at once leaves no trace and is not a step), a
`...Commit` action is the flush and the commit. They are one step because the
row locks of a flush last until the commit and nobody reads uncommitted rows. Where a
handler goes on reading after a flush there is a step in between, and what it has
flushed makes others wait: `Reserved` for a scan's savepoint (`ScanUpsert`, after which
`ScanLookup` reads the request and the missed session's absence), `Clash`
for the rows an import or a materialisation has inserted, `Waits` for a student's
account that is flushed before its academic row is read (`Flush`).

*Failure.* `Abort` is the exception reaching `get_db`. `TapFail`, `BulkFail`,
`ScanFail`, `CorrectFail` and so on say when the database refuses the write; a sheet
whose batch skips a row that has gone succeeds for those of `StillIn`. In
`Timetable` and `Accounts` a commit that would violate a key is disabled and `Abort` is what is
left.

*Partial UPDATEs.* The ORM writes the columns that differ from what it has loaded.
`Merged` in `Attendance` and `Accounts`, `Stored` in `Login` and in `Thresholds`,
`SummaryStore` in `Views` say what the row is afterwards. An UPDATE of an absence is
still sent for `synced_at`, so it fails on a row that has gone.

*Documents.* In `Justifications` an upload or deletion takes effect at once; with
`Reliable = FALSE` a deletion may fail silently (`delete_cloudinary_file` only
logs) and `Crash` may empty every worker. `alone` is history: the request, if any,
that has run by itself since it began (`StillAlone`); a struck-out absence or a crash
ends that, a tap does not. No action reads it. The code knows an absence by its row's
id, and a new row has a new one: in the model a target names the absence of a student in
a session, and one that is struck out becomes `NULL` in every request that has read it
(`Overtaken`), so that none of them marks a row recorded later.

*Taps, twice.* `Attendance` lets a tap flush and commit in one step, since nothing
it does in between touches the tables of that module. `Thresholds` is about what it
does in between: it keeps the lock of its row, inserts "absence recorded", counts,
reads or creates the settings row (an insert others wait for), and inserts the
warning or the exclusion. A notification is `saved` once the request commits.

*Timetable.* An import goes through its file row by row (`ImportRow`), each row
finding or inserting a plan, a module, a room and the sessions of `Weeks` weeks, and
commits with its history row; a request reads its own rows and those committed. The
four readers are one shape: what is `Missing` of what they need is computed at the
start and stored at the commit. `DateForWeek` is the import's arithmetic,
`TodayDayName` the materialisation's list of names. A course stands for the nine key
columns of a plan; `Partial` are the courses with a null among them, for which the
unique key says nothing. Assigning the teachers of a plan that is there already makes
the ORM load the old ones outside of an awaited call, which the async driver may
refuse: the model has the update and, by `Abort`, its failure.

*Accounts.* A request is the set of accounts it will write, as loaded and as changed.
A PATCH sends some of its fields (`Fields`, `Patched`), and only those are checked
(`MayPatch`). An import of teachers looks an email up table by table and stops at the
first that has it (`FoundByEmail`).
A student's account and its academic row are written at different moments, so the
request remembers which academic rows it had read (`academics`). `alone` says that
nothing has overlapped it.

*Login.* A token is its age; the server forgets none, so a cookie is all the browser
needs. `cols` are the columns of the user's row that a request writes. A reset mail is
delivered (`Deliver`) before its token is stored, and `AskCommit` without it is
`send_password_reset_email` raising: the request returns without a token.

*Views.* Every figure is one operator, named for what the page shows. Pages of several
queries are requests: a student's profile reads the absences, then the number of
sessions; the dashboard counts exclusions, then warnings; a summary counts the roster,
then the records, loads its row and writes it, each in a step of its own. `ahead` is what is left of a scenario,
so that a run serves a bounded number of pages. `GroupRate` has the list's filters by
level, section and speciality; the rates compared with it are of entries without the
last two.

*Left out of the data.* `participation`, `source`, `recorded_by`, timestamps,
reasons and names: nothing branches on them. `Justifications` and `Compensation`
leave out the notifications their handlers insert in the same transaction.

*Mutants.* An operator commented `Mutant:` is the form the definition after it
would have with a plausible bug; no specification uses it. Each property of a
passing run is broken by one, which shows that the property depends on that code.

## 3. Runs

| Run | Instance | Shows |
| --- | --- | --- |
| `attendance_sheets` | 2 workers, 1 session, 2 students; tap, sheet, scan | `TypeOK`, `UniqueAbsence`, and `EveryRequestAnswered` (liveness, no symmetry) |
| `attendance_corrections` | 2 workers, 2 sessions, 1 student with an approved make-up; tap, scan, correct, review | `CorrectionsHaveRows`, `TapAnswerIsStored`, `NoResurrection`, refinement of the ledger |
| `compensation_races` | 2 workers, 2 requests | `ApprovedIsOnRoster`, `TradedForApproval` under races with links and taps |
| `qr_tabs` | 2 tabs, 1 phone, tick = 5 s (TTL 6, Poll 5) | `RefusedForGood`, `DarkUnderTwoPeriods` |
| `justifications_races` | 2 workers, 2 justifications, 3 documents, crashes | `DocumentsAreStored`, `OnePerTarget`, `NeverReopened` |
| `justifications_alone` | 2 workers, 2 justifications, 3 documents, 2 sessions, 3 days; a store that obeys | `AloneMeetsNothing`, `AloneLeavesNoOrphan`, `AloneJustifiesByApproval` |
| `thresholds_races` | 2 workers, 2 sessions, 4 notifications; tap, sheet, read and save of the settings | `RecordedIsAbsent`, `DefaultNeverOverwrites` |
| `timetable_races` | 2 workers, 2 teachers, a lecture of a section and a tutorial of a group with a plan already; 2 files | `OnPlannedDay`, `ImportsAreWhole`, refinement of the calendar |
| `accounts_races` | 2 workers, 3 accounts, one an administrator; 1 file of 2 students, 1 of a teacher | `StudentsAreAcademic`, `ImportKeepsIdentity`, `AloneAgrees`, `AdminRemains` |
| `login_races` | 2 requests at a time, 2 passwords, 1 reset link | `OnlyLoginReturns`, `NothingUndone`, `StoredWasSent`, `ResetOnce` |
| `views` | 2 readers, 3 sessions, 2 students, 3 spellings of 2 groups, 2 teachers, 2 academic years | figures in range (`TypeOK`), `ListMatchesHistory`, `FiguresReconcile` |
| `login_audit` | 1 request at a time, one refused login | a counterexample to `RefusalIsLogged`, see below |

Each `TypeOK` of a run also carries what a type can say of the tables together: unique
keys in `Accounts`, a stored plan behind every session in `Timetable`, tokens that
come and go together in `Login`, the range of every figure in `Views`.

*A finding.* `login` inserts a `LOGIN_FAILED` row and raises (`auth_service.py:103`);
`get_db` rolls back, and the row's savepoint goes with the rest. `login_audit` shows it
against `tests/test_auth.py:633`, whose own `get_db` commits when a handler raises.

### Statements the code does not keep

Four definitions state what a docstring or an answer promises and what these models
refute. No run checks them; putting the name in the place of the properties of the run
gives the counterexample.

| Definition | In the run | Counterexample |
| --- | --- | --- |
| `ScanMarksPresent` (`Attendance`) | `attendance_sheets` | A scan loads "present", a tap commits "absent", the scan's UPDATE leaves the column out and answers success. |
| `ScanSucceeds` (`Compensation`) | `compensation_races` | A second request after an approval is approved too; `scalar_one_or_none` raises on every scan. |
| `ScreenStaysGood` (`QrNonce`) | `qr_tabs` | Polling every 25 s a code that is renewed only after 30 s leaves the screen dark from 30 s to 50 s. |
| `WarnedByNewAbsence` (`Thresholds`, as a PROPERTY) | `thresholds_races` | A tap that says "absent" again at the threshold sends the warning again. |

Other interleavings and cases the models contain and no property excludes:

- With `Offers <- OwnSession` a student may name the target session as the missed one:
  the scan then deletes the row it has just set.
- An approval and a rejection of one request, or two reviews of one correction, both
  see it pending: the later commit wins and what the first one did stays.
- With `Editors = 2`, two valid saves of different columns leave the warning at or above
  the maximum.
- Two submissions of overlapping ranges are both stored; bulk decisions justify the
  absences of a justification deleted meanwhile.
- A session that was passed on is materialised again for its former teacher, whose plan
  it still is. An import of a `Partial` course twice at once stores two plans, and
  every later import of that course fails at `scalar_one_or_none`.
- Two bootstraps both succeed; two administrators who close each other's account leave
  none; one email is given to a teacher and a student at once, and then a PATCH of
  another field, or an import of that teacher, leaves it shared.
- A sheet that updates several rows, one of which a scan has deleted meanwhile, skips that
  student and is answered as if it had not.
- Two confirmations of one reset link that overlap both set the password.
- A mail that was delivered may hold a link that was never stored (the commit fails).
- Two summaries of a session that overlap leave a row that mixes both; a summary is
  stale as soon as anyone is marked, although `models/session.py:169` speaks of a
  database trigger, which no migration creates. `pending` is negative when marked
  students are not on the roster.

Read while modelling, and not part of a property: `PATCH /sessions/{id}` with a room
code raises `NameError` (`sessions.py:801` calls `_get_or_create_salle`, defined nowhere
in that module); available-sessions documents "Mon-Sun"
(`compensation_requests.py:236`) and takes Sunday to Saturday; "Total Absences" of the
students export counts presences too (`exports.py:394`); an alert is red *above* the
maximum where the dashboard excludes *at* it; `_justification_status_maps`
(`students.py:45`) selects justifications of a session without the student, so a
history may show the status of another student's; absences justified by an approval are
those recorded before it (`justifications.py:100`).

### Bounds, and why they are enough

Every race in this code is between one request's reads and another's commit, on
one row or key, so two workers reach them; a third would only queue. Two sessions
are the least that make a make-up, two students the least that make a sheet
partly new. Row ids are never reused: `AbsenceIds`, `CorrectionIds`, `RequestIds`,
`Items`, `Files`, `Notes`, `PlanIds`, `SessionIds`, `Ids` and `Links` bound how many rows
are *ever* inserted; a request does not start if it could not get an id.

- `Offers` bounds which pairs of sessions students name.
- `justifications_alone` leaves crashes and a failing store to its theorems. Three days have
  ranges that share an end only, two sessions one that an approval is not about.
- In `Thresholds` the defaults 3 and 5 are 1 and 2, so that two sessions pass both;
  `Offered` has the default again, pairs that differ from it in one column and in both,
  and one that must be refused; `Editors` bounds the administrators who save at once.
- In `Timetable`, `Weeks = 1` and a start in the middle of a week (day 10, a Thursday) make the
  alignment to a Monday matter; `Starts` also has "no start date"; `MockToday = 7` is the
  tutorial's Monday, and the week of `Todays` has one class of each course, the
  lecture's on its first day, a Sunday. Two sessions are enough for two requests that
  meet on one and for one that passes to another teacher; three plans for the legacy one and a
  repeated `Partial` one.
- In `Accounts`, `Students` and `Staff` are what administrators enter: two students with the same
  email, two administrators (the first of whom bootstraps), one with the students'
  email, the other with a teacher's. The file of students gives both matricules another
  group and the second one the teacher's email; the file of teachers gives the teacher the
  students' email.
- In `Login` a tick is 15 minutes: 30 minutes of idleness are 2, the access token's 15
  minutes 1, a link's 30 minutes 2; the refresh token's 7 days are 4 ticks, enough to
  outlive the idleness. Ages stop one past their lifetime. `Refusals` bounds refused
  logins.
- In `Views`, `Rows` bounds absences recorded at a time, `Additions` and `Shared` the groups and
  students added, `Summarised` the sessions whose summary is opened, `Scenarios` the
  pages each reader opens: a profile and a dashboard beside each other, or three
  summaries of which two overlap. The sessions are of two groups, one under two spellings,
  two modules, two levels and two academic years, so that each filter of a page
  leaves something out.

Deadlock checking is off where ids or pages run out and the system stops; it is on in
the QR and the login runs. Symmetry is used in safety runs, over workers and ids that no
constant names, and over passwords and links.

### Requests alone and concurrent properties

Several handlers test a status and write it later without looking again. For
those the rule holds while requests do not overlap and fails when they do:
the three properties of `justifications_alone`, `AloneAgrees` and `AdminRemains` speak of
requests that nothing has overlapped, in any history of requests that did: the tables such
a request finds may already hold two ranges that meet or one email twice, and it adds no
others. The other
properties of the concurrent runs are those that the database's constraints, the
savepoints and the partial UPDATEs really uphold. `ResetOnce` allows a confirmation that
had begun before the link was used.

### Fairness

`Spec` of `Attendance` assumes `WF_vars(Advance(w))` for each worker: handlers are
coroutines of one event loop, each database wait is for a lock whose holder itself
commits or rolls back, and a handler waits for nothing else. No fairness is assumed
for requests to arrive, nor for the clock. `EveryRequestAnswered` would fail if a
savepoint could be held while its owner waits for another one. A transaction
PostgreSQL cancels to break a deadlock ends as an `Abort` does.

The other modules state safety only: that a request ends would say again what the weak
fairness of its `Abort` says.

## 4. Proofs

The theorems hold for every value of the constants: any number of workers, students,
sessions, accounts, files, links, pages and rows, any period and lifetime. Each module proves one
inductive invariant (`Init => IInv`, `IInv /\ [Next]_vars => IInv'`), one lemma for an
action, and draws the others from it; TLC has checked the parts of every such invariant on
the instance of its run.

| Module | Theorem | States |
| --- | --- | --- |
| `Attendance_proofs` | `Inductive` | `Spec => []IInv` |
| | `TypeCorrect` | `Spec => []TypeOK` |
| | `AtMostOneRow` | `Spec => []UniqueAbsence` |
| | `NoOrphanCorrection` | `Spec => []CorrectionsHaveRows` |
| | `TapsAnswerTheTruth` | `Spec => []TapAnswerIsStored` |
| | `DeletedStaysDeleted` | `Spec => NoResurrection` |
| | `AttendanceIsALedger` | `Elsewhere(InitialRequests)` implies `Spec => ImplementsLedger` |
| | `CompensationInductive` | `CompensationSpec => []CompensationInv` |
| | `CompensationTypeCorrect` | `CompensationSpec => []CompensationTypeOK` |
| | `AttendanceUndisturbed` | `UniqueAbsence` and `CorrectionsHaveRows` hold in the larger system too |
| | `ApprovedAreLinked` | `CompensationSpec => []ApprovedIsOnRoster` |
| | `TradesAreApproved` | `OffersElsewhere` and `Elsewhere(InitialRequests)` imply `CompensationSpec => TradedForApproval` |
| `QrNonce_proofs` | `QrInductive`, `QrTypeCorrect` | `Spec => []IInv`, `Spec => []TypeOK` |
| | `RefusedStaysRefused` | `Spec => []RefusedForGood` |
| | `ScreensRecover` | `Poll < TTL` implies `Spec => []DarkUnderTwoPeriods` |
| `Justifications_proofs` | `JustificationsInductive`, `JustificationsTypeCorrect` | `Spec => []IInv`, `Spec => []TypeOK` |
| | `RowsHaveDocuments` | `Spec => []DocumentsAreStored` |
| | `OneForEachTarget` | `Spec => []OnePerTarget` |
| | `DecisionsLast` | `Spec => NeverReopened` |
| | `AloneReadsTheTruth` | `Spec => []AloneInv` |
| | `AloneRangesApart` | `Spec => AloneMeetsNothing` |
| | `AloneCleansUp` | `Spec => AloneLeavesNoOrphan` |
| | `AloneIsJust` | `Spec => AloneJustifiesByApproval` |
| `Thresholds_proofs` | `ThresholdsInductive`, `ThresholdsTypeCorrect` | `Spec => []IInv`, `Spec => []TypeOK` |
| | `SavedRulesSurvive` | `Spec => DefaultNeverOverwrites` |
| | `ToldIsAbsent` | `Spec => RecordedIsAbsent` |
| `Timetable_proofs` | `TimetableInductive`, `TimetableTypeCorrect` | `Spec => []IInv`, `Spec => []TypeOK` |
| | `SessionsOnTheirDay` | `Spec => []OnPlannedDay` |
| | `ImportsStoreAll` | `Spec => ImportsAreWhole` |
| | `TimetableIsACalendar` | `Spec => ImplementsCalendar` |
| `Accounts_proofs` | `AccountsInductive`, `AccountsTypeCorrect` | `Spec => []IInv`, `Spec => []TypeOK` |
| | `StudentsHaveRows` | `Spec => []StudentsAreAcademic` |
| | `ImportsKeepIdentity` | `Spec => ImportKeepsIdentity` |
| | `AloneIsRight` | `Spec => AloneAgrees` |
| | `AnAdminRemains` | `Spec => AdminRemains` |
| `Login_proofs` | `LoginInductive`, `LoginTypeCorrect` | `Spec => []IInv`, `Spec => []TypeOK` |
| | `LinksWereSent` | `Spec => []StoredWasSent` |
| | `IdleMustLogIn` | `Spec => OnlyLoginReturns` |
| | `ColumnsSurvive` | `Spec => NothingUndone` |
| | `LinksWorkOnce` | `Spec => ResetOnce` |
| `Views_proofs` | `ViewsInductive`, `ViewsTypeCorrect` | `Spec => []IInv`, `Spec => []TypeOK` |
| | `ViewsListMatchesHistory` | `Spec => []ListMatchesHistory` |
| | `ViewsFiguresReconcile` | `Spec => []FiguresReconcile` |

### Assumptions

The named assumptions of each module say that its marks (`NULL`, `Free`, `Gone`, `Idle`...)
are none of the values they stand beside, that periods, lifetimes and weeks are positive
where the code's are, that the initial tables obey the database's constraints, that
the files are what the parser lets through (`FilesAssumption`), and that a database has
finitely many sessions and students (`ViewsAssumption`). TLC evaluates them on
every run. What else a theorem rests on is written in its statement:

- `Elsewhere`, `OffersElsewhere`: no request names its own session as the missed one.
  `create_compensation_request` does not refuse it, and what follows then is shown in
  section 3 (`Offers <- OwnSession`); without it the scan's deletion is no trade.
- `Poll < TTL`: a code outlives the polling period, as 30 s do the page's 25 s. With equal
  periods TLC finds a screen that stays dark for two.
- `Reliable`, inside `AloneLeavesNoOrphan`: the document store deletes what it is asked to
  and no request crashes. Otherwise a document without a row is what the code leaves.
- `Unused`, a guard of `QrNonce`: a new code is none that is still around. A code is 6
  characters out of 36 drawn at random (`session_nonce.py:16`), so this is likely and
  not certain; `RefusedForGood` rests on it.

The properties of requests alone assume nothing of how requests arrive: they say of each
request that none has overlapped what its own reads and checks achieve, after any history
of requests that did overlap.

### Arguments

*Attendance.* "One row per key" alone is not inductive: a scan inserts in its savepoint
and commits later without looking. So `UniqueAbsence` also says that a reserved key has no
committed row and one holder only. `CorrectionsHaveRows` needs that a deletion
cascades and that a review's row is its correction's. `KeysInv` (the row a request has loaded
is still of that request's key, or deleted) is what makes a tap's answer true although it
overlaps other writers. The refinement needs `OriginalsInv`: the row a scan is about to
delete belongs to a decided request of that student for that session; otherwise the deletion would
be no `Trade` of the ledger.

*Compensation.* The same parts under more actions, and `LinkedInv`: the student of an
approved request is linked to its session. `ApprovedIsOnRoster` follows because
nothing removes a link, and an approval inserts its own or has read one.

*QR codes.* A refused code could come back in three ways: its row ages (a countdown at zero
stays there), is renewed (with a code that no phone holds, by `Unused`), or the
phone scans again (and then it has not been refused). `ScreensRecover` has an
invariant of its own, `DarkInv`: a request in flight has read the row there is, or finds a
fresh one (`ReadsInv`); a tab that has been dark asks again within two periods, and what
it then finds is good, or was just overwritten by a row that is still good at its
next poll (`TabsInv`).

*Justifications.* `DocumentsAreStored` is about who may destroy a document: what waits for
a row is named by nobody else (`WaitingInv`), what an edit or a deletion is to destroy belongs to the
row in hand or to none (`OldInv`), and no two rows share one (`RowsInv`). `OnePerTarget` is
upheld by the two unique constraints alone, and `NeverReopened` by the decisions' values. The properties of
requests alone need that such a request has read what the tables still hold
(`Current`), that what it is about to insert meets no range (`Clear`), that a range
lies in `Ranges` (`ShapesInv`) and that what a request was to destroy stays destroyed
(`GoneInv`); the four are `AloneInv`. An absence that is struck out changes requests in flight
as well as rows, but takes no document from either (`SameDocuments`).

*Thresholds.* At most one request has inserted the settings row and not committed
(`OneCreator`), and then none is stored; a save loads a row and updates
one (`SavesHaveRow`), so a created default meets no saved one. `RecordedIsAbsent` needs that a tap which has sent anything
marks its student absent, in a row whose lock it holds until it commits (`NotesInv`).

*Timetable.* Sessions fall on their plan's day (`DaysInv`) through the arithmetic of
`DateForWeek` and of the list `TodayDayName`, whose agreement is proved for
every day, week and start. `ImportsAreWhole` needs the import's progress in the invariant: the
rows of the file before the next one have their plan and all their classes, stored or in flight
(`Done` in `RequestsInv`). `SlotsInv` (no two rows, stored or in flight, have one slot)
makes each insertion a `Calendar` addition; `PlansInv` (an update in flight keeps the course)
makes each change of teacher a hand-over.

*Accounts.* `ReadsInv`: academic rows are never deleted, so one that a request has read is
there when it commits. `StudentsInv` then gives a row to every student written.
`LoadedInv` says by handler which columns a request may differ in from
what it loaded: imports touch neither emails that are another's nor closed accounts. `AloneInv` and
`AdminsInv` say that what a request has checked is still so while nothing overlaps it. For
emails that is a check of the ones a request changes only (`Renames`): the others may be
shared already, and stay so.

*Login.* `RequestsInv` ties the columns a request writes to its handler, from which
`NothingUndone` and `OnlyLoginReturns` follow column by column. `ConfirmedInv` (no link is
removed, and a confirmation in flight has loaded its own) and `UnusedInv` (an unused link has
changed no password) give `ResetOnce`.

*Views.* `TypeOK` bounds every figure, and one of the bounds is not inductive: the rate of a
student's profile divides a count of absences by a count of sessions read later. `IInv`
says of a profile between the two that its absences are no more than the sessions of
the student's group *now*, which new sessions cannot undo (`OwnGrows`). Of a summary
that was loaded it says that its row is still there; a row the ORM puts together from two
pages is in range column by column.
`FiguresReconcile` and `ListMatchesHistory` need the types alone: they hold of any tables, not only of those
that are reached. A page's total is compared with another's by `SumOfParts`: when each entry of
a finite table has one key, the sum over the keys of what each has is the number of entries.
It is an induction over the finite set of keys, made as the search for a smallest
counterexample (`SmallestSubset`: strict inclusion is well founded on the subsets of a
finite set), which shows first that the fold's recursive function is unique. The sum of a
column of stored figures (`LinesReconcile`) is reduced to the same lemma by giving each
session as many entries as its figure says. The administrators' cards rest on
`WorstReaches`: a student's worst module reaches a count exactly when some module does.

### What the proofs found

- `ExistingAssumption` of `Accounts` allowed students among the accounts there are at first,
  when no academic row is; the proof of `Init` failed on it, and it now excludes them.
- The refinement of the ledger and `TradedForApproval` rest on no request naming its own session.
- The bound of two periods rests on `Poll < TTL`, which the two constants of the code satisfy by 5 s.
- `ImportsStoreAll` rests on the import's own check that no row of a file repeats another's
  course (`imports/planning.py:326`).
- `Worst` of `Views` was the maximum of an empty set when no session is planned; it is now at
  least 0. `Roster` said `UNION X \cup Y` without
  parentheses, which TLC and the provers read differently.
- An email is unique over the three tables only while no race has shared it, and a lone
  request need not notice: `AloneAgrees` compares the emails after the request with those before.

### Model-checked only

`EveryRequestAnswered`: liveness under fairness, and ENABLED, which the installed provers
do not treat. Every other property of a passing run is a theorem. `RefusalIsLogged` and the definitions of section 3's table are refuted, not proved. No
module uses RECURSIVE.

## 5. Not modelled

- The inbox (`routers/notifications.py`: list, read, read all), the notifications of
  decisions and the WebSocket push, which precedes the commit.
- Of the pages: `GET /planning/my-schedule` (`schedule.py`), which lists plans and counts
  nothing; the justification columns; `PATCH` of a student's enrolment status; layout,
  sorting, paging and file formats.
- CSV parsing and validation of cells: a file is a sequence or set of valid rows.
- Cryptography, the CSRF check, mail transport and Google's side of OAuth are data: a
  token is its age, a mail is delivered or not.
- The superseded routers are never mounted; the migrations and scripts run by hand; the
  application shell is wiring, except for `get_db`, which is in every module.

## 6. Plan

Done: the tables and their writers, the pages, and the theorems of section 4. Left:

1. `Inbox`: notifications of decisions, read and read-all against new arrivals, and the
   push that precedes the commit: a client may be shown what is rolled back.
