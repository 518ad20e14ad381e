------------------------------- MODULE Timetable ------------------------------
(***************************************************************************)
(* How weekly plans become dated sessions.  Five handlers insert into the  *)
(* same tables, each after looking whether the row is there:               *)
(*   POST /import/planning               plans, modules, rooms, sessions   *)
(*   POST /import/planning/sync-modules  modules                           *)
(*   GET  /sessions/today                one teacher's day                 *)
(*   GET  /compensation-requests/my-modules          modules               *)
(*   GET  /compensation-requests/available-sessions  some teachers' week   *)
(* and two change a session: PATCH /sessions/{id}, POST .../{id}/groups.   *)
(*                                                                         *)
(* A request reads committed rows and its own; what it has inserted is in  *)
(* tx[w].new until its commit.  An INSERT that meets a key another request *)
(* has inserted waits for it, so a step is taken only without Clash; when  *)
(* the other one commits the waiting request fails, which is an Abort.     *)
(* A date is a number of days, day 0 being a Monday.                       *)
(***************************************************************************)
EXTENDS Integers, Sequences, FiniteSets, Functions

CONSTANTS
    Workers,
    Teachers,
    Courses,     \* the nine key columns of a plan, day and subject included
    DayOf,       \* course -> the name of its day
    SubjectOf,   \* course -> its subject, the code of a module
    GroupOf,     \* course -> its group, or NULL for a whole section
    Partial,     \* the courses with a null section, speciality or group
    Rooms,
    Legacy,      \* the plans an earlier version has stored, without modules
    Files,       \* the CSV files administrators send: sequences of rows
    Starts,      \* the semester_start_date sent along, or NULL for none
    Weeks,       \* semester_weeks
    MockToday,   \* the date GET /sessions/today takes for today
    Todays,      \* the dates GET available-sessions may run on
    PlanIds, SessionIds,  \* bounds: the rows ever inserted, numbered
    NULL, Free, Idle

Groups == Range(GroupOf) \ {NULL}
Subjects == Range(SubjectOf)
Slots == PlanIds \X Teachers \X Int  \* uq_session_planning_teacher_date

\* The finite tables and dates of an instance.
ASSUME TablesAssumption ==
    /\ DOMAIN SubjectOf = Courses /\ DOMAIN GroupOf = Courses
    /\ \A S \in {Workers, Teachers, PlanIds, SessionIds} : IsFiniteSet(S)
    /\ MockToday \in Int /\ Todays \subseteq Int /\ Starts \subseteq Int \cup {NULL}
ASSUME WeeksAssumption == Weeks \in Nat \ {0}

VARIABLES
    plans,     \* planning_sessions, with the teachers of each
    sessions,  \* sessions
    modules,   \* modules, by code
    rooms,     \* salles, by code
    links,     \* session_groups
    history,   \* import_history: the files imported
    tx         \* what each request in flight has read and inserted

vars == <<plans, sessions, modules, rooms, links, history, tx>>

PlanRow == [id : PlanIds, course : Courses, teachers : SUBSET Teachers,
            room : Rooms \cup {NULL}]
SessionRow == [plan : PlanIds, teacher : Teachers, date : Int]
Writes == [plans : SUBSET PlanRow, modules : SUBSET Subjects,
           rooms : SUBSET Rooms, slots : SUBSET Slots]
Import == [file : Files, start : Starts]
ImportTx == [op : {"import"}, new : Writes, import : Import,
             next : Nat]
FillTx == [op : {"fill"}, new : Writes]
PatchTx == [op : {"patch"}, new : Writes, session : SessionIds,
            loaded : Teachers, teacher : Teachers \cup {NULL},
            groups : SUBSET Groups]

\* The marks are not rows or requests in flight.
ASSUME MarksAssumption ==
    Free \notin SessionRow /\ Idle \notin ImportTx \cup FillTx \cup PatchTx

\* Plans stored already are as planning_sessions holds them, one for each id.
ASSUME LegacyAssumption ==
    /\ Legacy \subseteq PlanRow
    /\ \A p, q \in Legacy : p.id = q.id => p = q

NoWrites == [plans |-> {}, modules |-> {}, rooms |-> {}, slots |-> {}]
InFlight == {w \in Workers : tx[w] # Idle}
SessionIsLive(s) == sessions[s] # Free
SlotOf(r) == <<r.plan, r.teacher, r.date>>
Taken == {SlotOf(sessions[s]) : s \in {i \in SessionIds : SessionIsLive(i)}}

SubjectsIn(ps) == {SubjectOf[p.course] : p \in ps}

\* Mutant: a room is looked up, and created, for a plan that names none.
RoomsInAll(ps) == {p.room : p \in ps}

RoomsIn(ps) == {p.room : p \in ps} \ {NULL}

\* What another request has inserted and not committed.
Held(w, f) == UNION {tx[v].new[f] : v \in InFlight \ {w}}

\* Null columns are distinct: uq_planning_session lets such plans repeat.
KeyedCourses(ps) == {p.course : p \in ps} \ Partial

\* A row of n has a unique key that another request has inserted, or is a
\* row that another request has updated, and waits for its end.
Clash(w, n) ==
    \/ n.modules \cap Held(w, "modules") # {}
    \/ n.rooms \cap Held(w, "rooms") # {}
    \/ n.slots \cap Held(w, "slots") # {}
    \/ KeyedCourses(n.plans) \cap KeyedCourses(Held(w, "plans")) # {}
    \/ {p.id : p \in n.plans} \cap {p.id : p \in Held(w, "plans")} # {}

\* What is missing of the rows that the plans ps and the slots ds need.
Missing(ps, ds) == [plans |-> {}, modules |-> SubjectsIn(ps) \ modules,
                    rooms |-> RoomsIn(ps) \ rooms, slots |-> ds \ Taken]

Both(m, n) == [plans |-> m.plans \cup n.plans,
               modules |-> m.modules \cup n.modules,
               rooms |-> m.rooms \cup n.rooms, slots |-> m.slots \cup n.slots]

\* Bounds: a request starts while its rows fit.
FreshPlans == PlanIds \ ({p.id : p \in plans} \cup
                {p.id : p \in UNION {tx[w].new.plans : w \in InFlight}})
NextPlan == {p \in FreshPlans : \A q \in FreshPlans : p <= q}
FreeIds == {s \in SessionIds : ~SessionIsLive(s)}
RowIdsLeft(n) ==
    Cardinality(n.slots \cup UNION {tx[w].new.slots : w \in InFlight})
        <= Cardinality(FreeIds)

\* The INSERTs of a request give each new session an id of its own.
Inserted(slots) ==
    LET id == CHOOSE g \in [slots -> FreeIds] : IsInjective(g) IN
    [s \in SessionIds |->
        IF s \in Range(id)
        THEN LET d == CHOOSE x \in slots : id[x] = s IN
             [plan |-> d[1], teacher |-> d[2], date |-> d[3]]
        ELSE sessions[s]]

Begin(w, t) ==
    /\ tx[w] = Idle
    /\ ~Clash(w, t.new)
    /\ RowIdsLeft(t.new)
    /\ tx' = [tx EXCEPT ![w] = t]
    /\ UNCHANGED <<plans, sessions, modules, rooms, links, history>>

Store(w) ==
    LET n == tx[w].new
        ids == {p.id : p \in n.plans} IN
    /\ plans' = {p \in plans : p.id \notin ids} \cup n.plans
    /\ modules' = modules \cup n.modules
    /\ rooms' = rooms \cup n.rooms
    /\ sessions' = Inserted(n.slots)
    /\ tx' = [tx EXCEPT ![w] = Idle]
    /\ UNCHANGED links

\* An exception rolls back whatever the request has inserted.
Abort(w) ==
    /\ tx[w] # Idle
    /\ tx' = [tx EXCEPT ![w] = Idle]
    /\ UNCHANGED <<plans, sessions, modules, rooms, links, history>>
-----------------------------------------------------------------------------
(* Days and dates.                                                         *)

Weekday(d) == d % 7

\* DAY_TO_WEEKDAY of the import: only these days are accepted in a file.
DayToWeekday == [Lundi |-> 0, Mardi |-> 1, Mercredi |-> 2, Jeudi |-> 3,
                 Dimanche |-> 6]

\* _TODAY_DAY_NAMES of the materialisation.
TodayDayName(d) ==
    <<"Lundi", "Mardi", "Mercredi", "Jeudi", "Vendredi", "Samedi",
      "Dimanche">>[Weekday(d) + 1]

\* Mutant: counts from the start date and not from the Monday of its week.
DateFromStart(start, day, k) == start + 7 * k + DayToWeekday[day]

DateForWeek(start, day, k) ==
    LET weekStart == start + 7 * k IN
    (weekStart - Weekday(weekStart)) + DayToWeekday[day]

Generated(start, course) ==
    IF start = NULL THEN {}
    ELSE {DateForWeek(start, DayOf[course], k) : k \in 0..(Weeks - 1)}

\* Sunday to Saturday, the week of list_available_sessions_for_compensation.
WeekOf(d) ==
    LET sunday == d - ((Weekday(d) + 1) % 7) IN sunday..(sunday + 6)
-----------------------------------------------------------------------------
(* POST /import/planning, row by row in one savepoint.                     *)

FileRow == [course : {c \in Courses : DayOf[c] \in DOMAIN DayToWeekday},
            teachers : SUBSET Teachers, room : Rooms \cup {NULL}]

\* A file with an invalid row, or one it has seen before, is rejected.
ASSUME FilesAssumption ==
    \A f \in Files :
        /\ f \in Seq(FileRow)
        /\ \A i, j \in DOMAIN f : f[i].course = f[j].course => i = j

ImportStart(w, f, start) ==
    Begin(w, [op |-> "import", new |-> NoWrites, next |-> 1,
              import |-> [file |-> f, start |-> start]])

\* What a row of a file writes, its plan being p: the plan, and what is
\* missing of its module and classes and, if it has any class, of its room.
RowWrites(p, row, days) ==
    LET plan == [id |-> p, course |-> row.course,
                 teachers |-> row.teachers, room |-> row.room]
        missing == Missing({plan}, {p} \X row.teachers \X days) IN
    [missing EXCEPT !.plans = {plan},
                    !.rooms = IF days # {} /\ row.teachers # {}
                              THEN @ ELSE {}]

\* More than one plan of the course: scalar_one_or_none raises, an Abort.
\* So does, with the async driver, the update of a plan that is found, since
\* assigning its teachers loads the old ones; the update is modelled as it
\* is written, and the Abort may take its place.
ImportRow(w) ==
    LET t == tx[w]
        row == t.import.file[t.next]
        found == {p \in plans : p.course = row.course}
        days == Generated(t.import.start, row.course) IN
    /\ tx[w] # Idle /\ t.op = "import"
    /\ t.next <= Len(t.import.file)
    /\ Cardinality(found) <= 1
    /\ \E p \in IF found = {} THEN NextPlan ELSE {q.id : q \in found} :
        LET n == RowWrites(p, row, days) IN
        /\ ~Clash(w, n)
        /\ RowIdsLeft(n)
        /\ tx' = [tx EXCEPT ![w] = [t EXCEPT !.new = Both(@, n),
                                             !.next = @ + 1]]
    /\ UNCHANGED <<plans, sessions, modules, rooms, links, history>>

\* Mutant: without the savepoint and the rollback, an import that fails keeps
\* the rows before the failure.
ImportPartly(w) ==
    /\ tx[w] # Idle /\ tx[w].op = "import"
    /\ history' = IF tx[w].next > Len(tx[w].import.file)
                  THEN history \cup {tx[w].import} ELSE history
    /\ Store(w)

ImportCommit(w) ==
    /\ tx[w] # Idle /\ tx[w].op = "import"
    /\ tx[w].next > Len(tx[w].import.file)
    /\ history' = history \cup {tx[w].import}
    /\ Store(w)
-----------------------------------------------------------------------------
(* The requests that fill in what plans need.                              *)

\* A request that finds every row there leaves no trace and is not a step.
Fill(w, n) == n # NoWrites /\ Begin(w, [op |-> "fill", new |-> n])

SyncModulesStart(w) ==
    Fill(w, [NoWrites EXCEPT !.modules = SubjectsIn(plans) \ modules])

\* The student's year and group pick the courses; here, the group does.
MyModulesStart(w, g) ==
    Fill(w, [NoWrites EXCEPT !.modules =
        SubjectsIn({p \in plans : GroupOf[p.course] = g}) \ modules])

\* materialise_sessions_for_teacher, for each teacher of us and date of ds.
Materialise(us, ds) ==
    LET due == {x \in plans \X us \X ds :
                    /\ x[2] \in x[1].teachers
                    /\ DayOf[x[1].course] = TodayDayName(x[3])} IN
    Missing({x[1] : x \in due}, {<<x[1].id, x[2], x[3]>> : x \in due})

TodayStart(w, u) == Fill(w, Materialise({u}, {MockToday}))

PlanOf(r) == CHOOSE p \in plans : p.id = r.plan

\* The teachers of a subject and group: those of its sessions if it has any,
\* of its plans otherwise.
TeachersFor(m, g) ==
    LET held == {s \in SessionIds :
                    /\ SessionIsLive(s)
                    /\ SubjectOf[PlanOf(sessions[s]).course] = m
                    /\ \/ GroupOf[PlanOf(sessions[s]).course] = g
                       \/ <<s, g>> \in links}
        planned == {p \in plans : /\ SubjectOf[p.course] = m
                                  /\ GroupOf[p.course] = g} IN
    IF held # {} THEN {sessions[s].teacher : s \in held}
    ELSE UNION {p.teachers : p \in planned}

AvailableStart(w, m, g, today) ==
    /\ m \in modules
    /\ Fill(w, Materialise(TeachersFor(m, g), WeekOf(today)))

FillCommit(w) ==
    /\ tx[w] # Idle /\ tx[w].op = "fill"
    /\ Store(w)
    /\ UNCHANGED history
-----------------------------------------------------------------------------
(* The owner of a session passes it on or adds groups to it.  A PATCH that *)
(* names a room fails, _get_or_create_salle being defined nowhere there.   *)

PrimaryGroup(s) == GroupOf[PlanOf(sessions[s]).course]
Unlinked(s, gs) ==
    {g \in gs : g # PrimaryGroup(s) /\ <<s, g>> \notin links}

\* A PATCH that changes nothing is not a step.
BeginPatch(w, u, s, teacher, gs) ==
    /\ sessions[s].teacher = u
    /\ gs # {} \/ teacher \notin {NULL, u}
    /\ Begin(w, [op |-> "patch", new |-> NoWrites, session |-> s,
                 loaded |-> u, teacher |-> teacher, groups |-> gs])

PatchStart(w, u, s, teacher, gs) ==
    /\ SessionIsLive(s)
    /\ BeginPatch(w, u, s, teacher, Unlinked(s, gs))

AddGroupStart(w, u, s, g) ==
    /\ SessionIsLive(s)
    /\ g \in Unlinked(s, {g})
    /\ BeginPatch(w, u, s, NULL, {g})

Moves(t) == t.teacher \notin {NULL, t.loaded}

\* Mutant: the UPDATE is not stopped by the key of another session.
SlotUnchecked(w, s, d) == TRUE

SlotIsFree(w, s, d) ==
    /\ d \notin {SlotOf(sessions[r]) : r \in
                    {i \in SessionIds : SessionIsLive(i)} \ {s}}
    /\ d \notin Held(w, "slots")

\* The row is written whoever owns it by now.
PatchCommit(w) ==
    LET t == tx[w]
        s == t.session
        moved == [sessions[s] EXCEPT !.teacher = t.teacher] IN
    /\ tx[w] # Idle /\ t.op = "patch"
    /\ \A g \in t.groups : <<s, g>> \notin links
    /\ Moves(t) => SlotIsFree(w, s, SlotOf(moved))
    /\ sessions' = IF Moves(t) THEN [sessions EXCEPT ![s] = moved]
                   ELSE sessions
    /\ links' = links \cup {<<s, g>> : g \in t.groups}
    /\ tx' = [tx EXCEPT ![w] = Idle]
    /\ UNCHANGED <<plans, modules, rooms, history>>
-----------------------------------------------------------------------------
\* The type invariant of the plans, the sessions made from them, what imports
\* and days create on the way, and the requests in flight: a session's plan is
\* stored, whichever request stored it.
TypeOK ==
    /\ plans \subseteq PlanRow
    /\ sessions \in [SessionIds -> SessionRow \cup {Free}]
    /\ modules \subseteq Subjects
    /\ rooms \subseteq Rooms
    /\ links \subseteq SessionIds \X Groups
    /\ history \subseteq Import
    /\ tx \in [Workers -> ImportTx \cup FillTx \cup PatchTx \cup {Idle}]
    /\ \A r \in Range(sessions) \ {Free} : \E p \in plans : p.id = r.plan

Init ==
    /\ plans = Legacy /\ sessions = [s \in SessionIds |-> Free]
    /\ modules = {} /\ rooms = {} /\ links = {} /\ history = {}
    /\ tx = [w \in Workers |-> Idle]

Start(w) ==
    \/ \E f \in Files, start \in Starts : ImportStart(w, f, start)
    \/ SyncModulesStart(w)
    \/ \E g \in Groups : MyModulesStart(w, g)
    \/ \E u \in Teachers : TodayStart(w, u)
    \/ \E m \in Subjects, g \in Groups, d \in Todays :
            AvailableStart(w, m, g, d)
    \/ \E u \in Teachers, s \in SessionIds, v \in Teachers \cup {NULL},
          gs \in SUBSET Groups : PatchStart(w, u, s, v, gs)
    \/ \E u \in Teachers, s \in SessionIds, g \in Groups :
            AddGroupStart(w, u, s, g)

Advance(w) ==
    \/ ImportRow(w) \/ ImportCommit(w) \/ FillCommit(w) \/ PatchCommit(w)
    \/ Abort(w)

Next == \E w \in Workers : Start(w) \/ Advance(w)

Spec == Init /\ [][Next]_vars
-----------------------------------------------------------------------------
(* Properties.                                                             *)

\* A session falls on the weekday its plan names, whichever of the two ways
\* of computing dates, and of naming days, has inserted it.
OnPlannedDay ==
    \A s \in SessionIds :
        SessionIsLive(s) =>
            TodayDayName(sessions[s].date) = DayOf[PlanOf(sessions[s]).course]

Whole(i) ==
    \A k \in DOMAIN i.file :
        LET row == i.file[k] IN
        \E p \in plans :
            /\ p.course = row.course
            /\ \A d \in Generated(i.start, row.course) :
                Cardinality({c \in Taken : c[1] = p.id /\ c[3] = d})
                    >= Cardinality(row.teachers)

\* An import is all or nothing, whatever else inserts the same rows: it is in
\* the history once every row of its file has a plan, with a session in each
\* week for each of its teachers or for whom one was passed on to, and no plan
\* is stored but by such an import.
ImportsAreWhole ==
    [][/\ \A i \in history' \ history : Whole(i)'
       /\ \A p \in plans' \ plans : \E i \in history' :
            \E k \in DOMAIN i.file : i.file[k].course = p.course]_vars

Promised == INSTANCE Calendar WITH
    classes <- Taken,
    entries <- Cardinality({s \in SessionIds : SessionIsLive(s)})

\* Readers see a calendar: a plan has one class per teacher and date, none is
\* dropped or merged, and one that changes hands stays on its plan and date.
ImplementsCalendar == Promised!Spec
=============================================================================
