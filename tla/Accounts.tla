------------------------------- MODULE Accounts -------------------------------
(***************************************************************************)
(* The accounts of the three role tables and, beside the student accounts, *)
(* the table "students" that attendance lists are made of (academics here; *)
(* one row per matricule, never deleted).  Written by                      *)
(*   POST  /accounts/super-admins, /admins, /teachers, /students           *)
(*   PATCH /accounts/admins|teachers|students/{id}, /{id}/status           *)
(*   POST  /import/students, /import/teachers                              *)
(*                                                                         *)
(* Each reads what it checks, then writes.  A student's account is flushed *)
(* before its academic row is read, so that creating or editing one has a  *)
(* step in between, in which it holds the account's row and unique keys.   *)
(***************************************************************************)
EXTENDS Integers, FiniteSets, Functions

CONSTANTS
    Workers,    \* requests served at the same time
    Ids,        \* bound: the accounts ever created, numbered
    Emails, Keys, Groups,
    Existing,   \* the accounts there are at first, by id
    Students,   \* bound: the students administrators enter
    Staff,      \* bound: the teachers and administrators they enter
    StudentFiles, TeacherFiles,  \* the rows of the CSV files they send
    NULL, Free, Idle

VARIABLES
    accounts,   \* student_users, teachers and admins
    academics,  \* students, by matricule
    tx          \* what each request in flight has read and will write

vars == <<accounts, academics, tx>>

\* key is a student's matricule or a teacher's employee number.
Account == [role : {"student", "teacher", "admin"}, email : Emails,
            key : Keys \cup {NULL}, group : Groups \cup {NULL},
            level : {"super", "regular", NULL}, active : BOOLEAN]
Academic == [group : Groups \cup {NULL}, email : Emails]

\* import_students_csv refuses a matricule that it has seen in the file.
ASSUME FilesAssumption ==
    /\ \A f \in StudentFiles : \A r, q \in f : r.key = q.key => r = q
    /\ \A f \in TeacherFiles : \A r, q \in f :
            r.key = q.key \/ r.email = q.email => r = q

ASSUME ExistingAssumption ==
    /\ \A i \in DOMAIN Existing : i \in Ids /\ Existing[i] \in Account
    /\ \A i, j \in DOMAIN Existing : i # j =>
            /\ Existing[i].email # Existing[j].email
            /\ Existing[i].role = Existing[j].role =>
                  Existing[i].key = NULL \/ Existing[i].key # Existing[j].key
    /\ \A i \in DOMAIN Existing : Existing[i].role # "student"

\* The marks are no keys, accounts or academic rows.  The forms and the files
\* name emails and numbers; a teacher or administrator entered is active.
ASSUME MarksAssumption ==
    NULL \notin Keys /\ Free \notin Account \cup Academic

Entered == [email : Emails, key : Keys, group : Groups \cup {NULL}]

ASSUME InputsAssumption ==
    /\ IsFiniteSet(Ids)
    /\ Students \subseteq Entered
    /\ Staff \subseteq {a \in Account : a.role # "student" /\ a.active}
    /\ \A f \in StudentFiles : IsFiniteSet(f) /\ f \subseteq Entered
    /\ \A f \in TeacherFiles :
            IsFiniteSet(f) /\ f \subseteq [email : Emails, key : Keys]

\* One write: the account as it was loaded, or Free, and as it should be.
Write == [id : Ids, loaded : Account \cup {Free}, new : Account]

\* academics: the rows read so far.  alone (history): nothing has overlapped
\* the request.
Request == [op : {"register", "update", "staff", "status", "import"},
            writes : SUBSET Write,
            academics : [Keys -> Academic \cup {Free}],
            phase : {"read", "written"}, alone : BOOLEAN]

ASSUME IdleAssumption == Idle \notin Request

IsLive(i) == accounts[i] # Free
Live == {i \in Ids : IsLive(i)}
OfRole(role) == {i \in Live : accounts[i].role = role}
ByEmail(e) == {i \in Live : accounts[i].email = e}
ByKey(role, k) == {i \in OfRole(role) : accounts[i].key = k}
InFlight == {w \in Workers : tx[w] # Idle}
ActiveAdmins == {i \in OfRole("admin") : accounts[i].active}

\* Mutant: an UPDATE writes the whole row as it was loaded and changed.
MergedWhole(current, loaded, new) == new

\* The ORM updates the columns that differ from the row it has loaded.
Merged(current, loaded, new) ==
    IF loaded = Free THEN new
    ELSE [c \in DOMAIN new |->
            IF new[c] = loaded[c] THEN current[c] ELSE new[c]]

Row(x) == Merged(accounts[x.id], x.loaded, x.new)

\* Each table has its own unique email, matricule or employee number.
SameKey(a, b) ==
    /\ a.role = b.role
    /\ a.email = b.email \/ (a.key # NULL /\ a.key = b.key)

\* Mutant: no unique constraint is looked at.
ConflictUnseen(w) == FALSE

Conflict(w) ==
    \E x \in tx[w].writes :
        \/ \E i \in Live \ {x.id} : SameKey(accounts[i], Row(x))
        \/ \E y \in tx[w].writes \ {x} : SameKey(Row(y), Row(x))

\* A flush waits for requests that have flushed the same row or key.
Waits(w) ==
    \E v \in InFlight \ {w} :
        /\ tx[v].phase = "written"
        /\ \E x \in tx[w].writes, y \in tx[v].writes :
                x.id = y.id \/ SameKey(Row(x), Row(y))

\* Bound: ids for n new accounts, a request's own until it ends.
FreeIds == Ids \ (Live \cup
                {x.id : x \in UNION {tx[w].writes : w \in InFlight}})

Begin(w, op, writes) ==
    /\ tx[w] = Idle
    /\ tx' = [v \in Workers |->
                IF v = w
                THEN [op |-> op, writes |-> writes, academics |-> academics,
                      phase |-> "read", alone |-> InFlight = {}]
                ELSE IF tx[v] = Idle THEN Idle
                ELSE [tx[v] EXCEPT !.alone = FALSE]]
    /\ UNCHANGED <<accounts, academics>>

Store(w) ==
    /\ tx[w].op \in {"register", "update"} => tx[w].phase = "written"
    /\ ~Waits(w) /\ ~Conflict(w)
    /\ accounts' = [i \in Ids |->
            IF \E x \in tx[w].writes : x.id = i
            THEN Row(CHOOSE x \in tx[w].writes : x.id = i)
            ELSE accounts[i]]
    /\ tx' = [tx EXCEPT ![w] = Idle]

\* A violated constraint raises, and get_db rolls back.
Abort(w) ==
    /\ tx[w] # Idle
    /\ tx' = [tx EXCEPT ![w] = Idle]
    /\ UNCHANGED <<accounts, academics>>

Insert(w, op, row) ==
    \E i \in FreeIds :
        /\ \A j \in FreeIds : i <= j
        /\ Begin(w, op, {[id |-> i, loaded |-> Free, new |-> row]})

Change(w, op, i, row) ==
    Begin(w, op, {[id |-> i, loaded |-> accounts[i], new |-> row]})
-----------------------------------------------------------------------------
(* The academic row of each account written, from the account in memory.   *)

\* Mutant: only a row that is there already is kept in step.
SyncedIfThere(w, k) ==
    LET x == CHOOSE x \in tx[w].writes : x.new.key = k
        row == [group |-> x.new.group, email |-> x.new.email] IN
    IF academics[k] = Free THEN Free
    ELSE Merged(academics[k], tx[w].academics[k], row)

\* Mutant: an existing academic row keeps its group.
SyncedEmail(w, k) ==
    LET x == CHOOSE x \in tx[w].writes : x.new.key = k
        row == [group |-> x.new.group, email |-> x.new.email] IN
    IF academics[k] = Free THEN row
    ELSE [academics[k] EXCEPT !.email = row.email]

Synced(w, k) ==
    LET x == CHOOSE x \in tx[w].writes : x.new.key = k
        row == [group |-> x.new.group, email |-> x.new.email] IN
    Merged(academics[k], tx[w].academics[k], row)

\* An INSERT meets a row committed since the read.
AcademicClash(w, k) == tx[w].academics[k] = Free /\ academics[k] # Free

SyncAcademics(w) ==
    LET ks == {x.new.key : x \in {y \in tx[w].writes :
                                    y.new.role = "student"}} IN
    /\ \A k \in ks : ~AcademicClash(w, k)
    /\ academics' = [k \in Keys |-> IF k \in ks THEN Synced(w, k)
                                                ELSE academics[k]]
-----------------------------------------------------------------------------
(* Accounts entered one by one.                                            *)

\* _prepare_registration_email: free in all three tables.
EmailIsFree(e) == ByEmail(e) = {}

NewStudent(s) == [role |-> "student", email |-> s.email, key |-> s.key,
                  group |-> s.group, level |-> NULL, active |-> TRUE]

RegisterStudent(w, s) ==
    /\ ActiveAdmins # {}
    /\ EmailIsFree(s.email)
    /\ ByKey("student", s.key) = {}
    /\ Insert(w, "register", NewStudent(s))

RegisterTeacher(w, a) ==
    /\ a.role = "teacher" /\ ActiveAdmins # {}
    /\ EmailIsFree(a.email)
    /\ ByKey("teacher", a.key) = {}
    /\ Insert(w, "staff", a)

SuperAdmins == {i \in OfRole("admin") : accounts[i].level = "super"}

\* Anyone, while there is no super admin.
Bootstrap(w, a) ==
    /\ a.role = "admin"
    /\ SuperAdmins = {}
    /\ EmailIsFree(a.email)
    /\ Insert(w, "staff", [a EXCEPT !.level = "super"])

RegisterAdmin(w, a) ==
    /\ a.role = "admin"
    /\ SuperAdmins \cap ActiveAdmins # {}
    /\ EmailIsFree(a.email)
    /\ Insert(w, "staff", [a EXCEPT !.level = "regular"])

\* What a PATCH of each kind of account may send.
Fields == [student |-> {"email", "key", "group"},
           teacher |-> {"email", "key"}, admin |-> {"email", "level"}]

\* Account i with the fields sent taken from s, the others as loaded.
Patched(i, s, sent) ==
    [c \in DOMAIN accounts[i] |-> IF c \in sent THEN s[c] ELSE accounts[i][c]]

\* Mutant: an email is looked for in the account's own table only.
MayPatchInTable(i, s, sent) ==
    /\ ActiveAdmins # {}
    /\ "email" \in sent =>
            ByEmail(s.email) \cap OfRole(accounts[i].role) \subseteq {i}
    /\ "key" \in sent => /\ s.key # NULL
                          /\ ByKey(accounts[i].role, s.key) \subseteq {i}

\* Only what is sent is looked at: the email in the three tables, the number
\* in its own.
MayPatch(i, s, sent) ==
    /\ ActiveAdmins # {}
    /\ "email" \in sent => ByEmail(s.email) \subseteq {i}
    /\ "key" \in sent => /\ s.key # NULL
                          /\ ByKey(accounts[i].role, s.key) \subseteq {i}

\* update_student_account.
UpdateStudent(w, i, s, sent) ==
    /\ i \in OfRole("student")
    /\ sent \subseteq Fields["student"]
    /\ MayPatch(i, s, sent)
    /\ Change(w, "update", i, Patched(i, s, sent))

\* update_teacher_account and update_admin_account.
UpdateStaff(w, i, a, sent) ==
    /\ i \in OfRole(a.role)
    /\ sent \subseteq Fields[a.role]
    /\ MayPatch(i, a, sent)
    /\ Patched(i, a, sent) # accounts[i]
    /\ Change(w, "staff", i, Patched(i, a, sent))

\* Mutant: an administrator's own account can be closed.
SetStatusOfAny(w, admin, i, active) ==
    /\ admin \in ActiveAdmins
    /\ i \in Live /\ accounts[i].active # active
    /\ Change(w, "status", i, [accounts[i] EXCEPT !.active = active])

\* update_account_status: by another administrator, or to activate.
SetStatus(w, admin, i, active) ==
    /\ admin \in ActiveAdmins
    /\ i # admin \/ active
    /\ i \in Live /\ accounts[i].active # active
    /\ Change(w, "status", i, [accounts[i] EXCEPT !.active = active])
-----------------------------------------------------------------------------
(* Imports: every row of the file or none, in one flush.                   *)

Imports(w, writes) == writes # {} /\ Begin(w, "import", writes)

\* New accounts get an id each.
NewIds(rows) ==
    CHOOSE g \in [rows -> FreeIds] : IsInjective(g)

ImportStudents(w, f) ==
    LET known == {r \in f : ByEmail(r.email) # {}}
        owner(r) == CHOOSE i \in ByEmail(r.email) : TRUE
        ids == NewIds(f \ known) IN
    /\ ActiveAdmins # {}
    /\ \A r \in known : \A i \in ByEmail(r.email) :
            accounts[i].role = "student" /\ accounts[i].key = r.key
    /\ Cardinality(f \ known) <= Cardinality(FreeIds)
    /\ Imports(w,
        {[id |-> owner(r), loaded |-> accounts[owner(r)],
          new |-> [accounts[owner(r)] EXCEPT !.group = r.group]]
            : r \in known}
        \cup {[id |-> ids[r], loaded |-> Free, new |-> NewStudent(r)]
            : r \in f \ known})

\* get_user_by_email: the first of the three tables that has the email.
FoundByEmail(e) ==
    LET among(role) == ByEmail(e) \cap OfRole(role) IN
    IF among("admin") # {} THEN among("admin")
    ELSE IF among("teacher") # {} THEN among("teacher") ELSE among("student")

ImportTeachers(w, f) ==
    LET known == {r \in f : ByKey("teacher", r.key) # {}}
        owner(r) == CHOOSE i \in ByKey("teacher", r.key) : TRUE
        ids == NewIds(f \ known) IN
    /\ ActiveAdmins # {}
    /\ \A r \in f : FoundByEmail(r.email) \subseteq
                        (IF r \in known THEN {owner(r)} ELSE {})
    /\ Cardinality(f \ known) <= Cardinality(FreeIds)
    /\ Imports(w,
        {[id |-> owner(r), loaded |-> accounts[owner(r)],
          new |-> [accounts[owner(r)] EXCEPT !.email = r.email]]
            : r \in known}
        \cup {[id |-> ids[r], loaded |-> Free,
               new |-> [role |-> "teacher", email |-> r.email, key |-> r.key,
                        group |-> NULL, level |-> NULL, active |-> TRUE]]
            : r \in f \ known})
-----------------------------------------------------------------------------
(* The flush of a student's account, and the end of each request.          *)

\* The account is flushed, its academic row read.
Flush(w) ==
    /\ tx[w] # Idle /\ tx[w].op \in {"register", "update"}
    /\ tx[w].phase = "read"
    /\ ~Waits(w) /\ ~Conflict(w)
    /\ tx' = [tx EXCEPT ![w].phase = "written", ![w].academics = academics]
    /\ UNCHANGED <<accounts, academics>>

StudentCommit(w) ==
    /\ tx[w] # Idle /\ tx[w].op \in {"register", "update"}
    /\ Store(w)
    /\ SyncAcademics(w)

StaffCommit(w) ==
    /\ tx[w] # Idle /\ tx[w].op \in {"staff", "status"}
    /\ Store(w)
    /\ UNCHANGED academics

ImportCommit(w) ==
    /\ tx[w] # Idle /\ tx[w].op = "import"
    /\ Store(w)
    /\ SyncAcademics(w)
-----------------------------------------------------------------------------
\* The type invariant.  Unique keys are part of it: no two accounts of a role
\* share an email or a number, whichever requests write them at once.
TypeOK ==
    /\ accounts \in [Ids -> Account \cup {Free}]
    /\ academics \in [Keys -> Academic \cup {Free}]
    /\ tx \in [Workers -> Request \cup {Idle}]
    /\ \A i, j \in Live : i # j => ~SameKey(accounts[i], accounts[j])

Init ==
    /\ accounts = [i \in Ids |-> IF i \in DOMAIN Existing THEN Existing[i]
                                                          ELSE Free]
    /\ academics = [k \in Keys |-> Free]
    /\ tx = [w \in Workers |-> Idle]

Start(w) ==
    \/ \E s \in Students : RegisterStudent(w, s)
    \/ \E a \in Staff :
        RegisterTeacher(w, a) \/ RegisterAdmin(w, a) \/ Bootstrap(w, a)
    \/ \E i \in Ids, s \in Students, sent \in SUBSET Fields["student"] :
            UpdateStudent(w, i, s, sent)
    \/ \E i \in Ids, a \in Staff : \E sent \in SUBSET Fields[a.role] :
            UpdateStaff(w, i, a, sent)
    \/ \E i, j \in Ids, b \in BOOLEAN : SetStatus(w, i, j, b)
    \/ \E f \in StudentFiles : ImportStudents(w, f)
    \/ \E f \in TeacherFiles : ImportTeachers(w, f)

Advance(w) ==
    \/ Flush(w) \/ StudentCommit(w) \/ StaffCommit(w) \/ ImportCommit(w)
    \/ Abort(w)

Next == \E w \in Workers : Start(w) \/ Advance(w)

Spec == Init /\ [][Next]_vars
-----------------------------------------------------------------------------
(* Properties.                                                             *)

\* Whoever creates, edits or imports whom at the same time, a student with an
\* account is in the table that attendance lists are made of.
StudentsAreAcademic ==
    \A i \in OfRole("student") : academics[accounts[i].key] # Free

Commits(w) ==
    /\ tx[w] # Idle /\ tx'[w] = Idle
    /\ <<accounts, academics>>' # <<accounts, academics>>

\* An import finds accounts by email or number and overwrites them, but it
\* never makes an account another person's, nor opens one that is closed,
\* even if that was changed since the import read it.
ImportKeepsIdentity ==
    [][\A w \in Workers : Commits(w) /\ tx[w].op = "import" =>
          \A i \in Live : /\ accounts'[i].key = accounts[i].key
                          /\ accounts'[i].active = accounts[i].active]_vars

Shares(i, j) ==
    i # j /\ IsLive(i) /\ IsLive(j) /\ accounts[i].email = accounts[j].email

Mirrored(i) ==
    accounts[i].role = "student" =>
        academics[accounts[i].key] = [group |-> accounts[i].group,
                                      email |-> accounts[i].email]

\* The database does not know that emails are unique over the three tables,
\* nor that academic rows mirror accounts.  Two requests at once may give an
\* email to a teacher and a student, and a request that sends no email then
\* leaves it so.  One that nothing overlaps never makes two accounts share an
\* email that did not, whatever races came before, and leaves the academic row
\* right for each student it creates, edits or imports.
AloneAgrees ==
    [][\A w \in Workers : Commits(w) /\ tx[w].alone =>
          /\ \A i, j \in Ids : Shares(i, j)' => Shares(i, j)
          /\ tx[w].op # "status" =>
                \A x \in tx[w].writes : Mirrored(x.id)']_vars

\* Nor does it know that an administrator must remain.  Whatever sequence of
\* status changes, one that nothing overlaps leaves an active one.
AdminRemains ==
    [][\A w \in Workers : Commits(w) /\ tx[w].alone => ActiveAdmins' # {}]_vars
=============================================================================
