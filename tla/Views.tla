--------------------------------- MODULE Views --------------------------------
(***************************************************************************)
(* The pages that count absences.  None of them keeps anything but the     *)
(* summary of a session, yet several compute the same figures, each with   *)
(* queries of its own:                                                     *)
(*   GET /students/me, /students/{matricule}, /accounts/students           *)
(*   GET /teachers/my-groups, .../students, .../history, GET /groups       *)
(*   GET /dashboard/*, /teacher/dashboard/*                                *)
(*   GET /sessions/{id}/attendance, /students, /summary, my-sessions       *)
(*   GET /accounts/teachers/{matricule}, /accounts/administrators/{id}     *)
(*   GET /export/*                                                         *)
(* A page is several queries, each sees what was committed when it ran,    *)
(* and teachers record absences between them.  The pages whose queries     *)
(* could disagree are requests of Readers; the others are operators.       *)
(***************************************************************************)
EXTENDS Integers, FiniteSets, FiniteSetsExt, Functions

CONSTANTS
    Readers,     \* pages being served at the same time
    Scenarios,   \* bound: the pages each reader opens in a behaviour, how
                 \* often (opens), the sessions inserted in it (sessions)
    Sessions,    \* all those sessions
    Students,    \* the rows of students
    Class,       \* Class[s]: group, year, section, semester, module,
                 \* teacher, date
    Person,      \* Person[m]: groupe, niveau and filiere
    Folded,      \* Folded[g]: a group name in lower case, trimmed
    Warning, Maximum,   \* the thresholds of the settings
    Rows,        \* bound: the rows of the table of absences
    Additions,   \* bound: the groups and students added to sessions
    Shared,      \* bound: the sessions teachers add groups or students to
    Summarised,  \* bound: the sessions whose summary is opened
    NULL, Idle

VARIABLES
    live,       \* the sessions inserted so far
    mark,       \* absences: what is recorded of <<session, student>>
    groups,     \* session_groups
    direct,     \* session_students
    summary,    \* session_attendance_summaries
    tx,         \* what each page being served has read
    ahead       \* what is left of the behaviour's scenario

vars == <<live, mark, groups, direct, summary, tx, ahead>>

Marks == {"none", "absent", "present"}
Names == DOMAIN Folded
Modules == {Class[s].module : s \in Sessions}
Teachers == {Class[s].teacher : s \in Sessions}
Levels == {Person[m].niveau : m \in Students}
\* Dates count months; an academic year, named after the calendar year it
\* ends in, runs from September to August.
Years == {(Class[s].date + 4) \div 12 : s \in Sessions}
Months == {Class[s].date % 12 : s \in Sessions}

\* What a behaviour may still do: the pages opened, the sessions inserted.
Scenario == [opens : [Readers -> [{"profile", "stats", "summary"} -> Nat]],
             sessions : SUBSET Sessions]

ASSUME ViewsAssumption ==
    /\ Warning \in Nat \ {0} /\ Maximum \in Nat /\ Warning < Maximum
    /\ IsFiniteSet(Sessions) /\ IsFiniteSet(Students)
    /\ \A s \in Sessions : Class[s].date \in Nat
    /\ Scenarios \subseteq Scenario
    /\ Shared \cup Summarised \subseteq Sessions

-------------------------------------------------------------------------------
\* Figures every page builds on.

Absent(s, m) == mark[<<s, m>>] = "absent"
Present(s, m) == mark[<<s, m>>] = "present"
Recorded(s, m) == mark[<<s, m>>] # "none"

\* UNEXCUSED_ABSENCE: every absence counts, justified or not.
AbsencesIn(m, S) == Cardinality({s \in S : Absent(s, m)})
PresencesIn(m, S) == Cardinality({s \in S : Present(s, m)})
AbsencesOfAll(S) == Cardinality({k \in S \X Students : Absent(k[1], k[2])})

TaughtBy(t) == {s \in live : Class[s].teacher = t}
Of(S, c) == {s \in S : Class[s].module = c}
ModulesOf(S) == {Class[s].module : s \in S}

Members(g) == {m \in Students : Folded[Person[m].groupe] = Folded[g]}

\* Everyone expected in a session: its groups' members, and those added.
SessionGroups(s) == {Class[s].group} \cup groups[s]
Roster(s) == (UNION {Members(g) : g \in SessionGroups(s)}) \cup direct[s]

-------------------------------------------------------------------------------
\* GET /teachers/my-groups and the pages under it.  y is the level asked for,
\* NULL without one.  These pages do not trim a group's name before they
\* compare it; no name here has blanks around it.

Cohort(g, y) == {m \in Members(g) : y # NULL => Person[m].niveau = y}
GroupSessions(t, g, y) ==
    {s \in TaughtBy(t) : /\ Class[s].group = g
                         /\ y # NULL => Class[s].year = y}

\* A presence in any session of the module by the same teacher counts.
Eligible(t, g, y) ==
    LET modules == ModulesOf(GroupSessions(t, g, y))
    IN  {s \in TaughtBy(t) : Class[s].module \in modules}

GroupCard(t, g, y) ==
    [students |-> Cardinality(Cohort(g, y)),
     sessions |-> Cardinality(GroupSessions(t, g, y)),
     absences |-> AbsencesOfAll(GroupSessions(t, g, y))]

ListRow(t, g, y, m) ==
    LET total == Cardinality(GroupSessions(t, g, y))
        present == Min({PresencesIn(m, Eligible(t, g, y)), total})
    IN  [total |-> total, present |-> present, absent |-> total - present]

\* Mutant: the presences made up elsewhere are added without a bound.
HistoryRowUnbounded(t, g, y, m) ==
    LET base == GroupSessions(t, g, y)
        made == PresencesIn(m, Eligible(t, g, y) \ base)
        present == PresencesIn(m, base) + made
    IN  [total |-> Cardinality(base), present |-> present,
         absent |-> Cardinality(base) - present]

\* The timeline: the group's own sessions, then the presences made up.
HistoryRow(t, g, y, m) ==
    LET base == GroupSessions(t, g, y)
        made == PresencesIn(m, Eligible(t, g, y) \ base)
        present == Min({PresencesIn(m, base) + made, Cardinality(base)})
    IN  [total |-> Cardinality(base), present |-> present,
         absent |-> Cardinality(base) - present]

\* GET /groups: the two sides of the absence rate of a group that is planned
\* for a level, a section and a speciality, each NULL if the plan names none.
GroupRate(g, y, section, speciality) ==
    LET held == {s \in live : /\ Class[s].group = g
                              /\ y # NULL => Class[s].year = y
                              /\ section # NULL => Class[s].section = section}
        counted == {m \in Cohort(g, y) :
                        speciality # NULL => Person[m].filiere = speciality}
    IN  [absences |-> AbsencesOfAll(held),
         places |-> Cardinality(counted) * Cardinality(held)]

-------------------------------------------------------------------------------
\* The dashboards of administrators and teachers.

\* Mutant: absences are grouped by student, over all modules.
ReachedOverall(n, S) == {m \in Students : AbsencesIn(m, S) >= n}

\* The students with n absences in one module among the sessions S.
Reached(n, S) ==
    {m \in Students : \E c \in Modules : AbsencesIn(m, Of(S, c)) >= n}

Worst(m) == Max({0} \cup {AbsencesIn(m, Of(live, c)) : c \in Modules})
AtExclusion == Cardinality(Reached(Maximum, live))

\* Mutant: the difference of the two counts as it is.
AtWarningBare(excluded) == Cardinality(Reached(Warning, live)) - excluded

\* excluded was counted by the query before.
AtWarning(excluded) ==
    Max({Cardinality(Reached(Warning, live)) - excluded, 0})

AtRisk(t) == Cardinality(Reached(Warning, TaughtBy(t)))

\* An alert for each module; it is red once past the maximum.
Alerts(t) ==
    LET n(k) == AbsencesIn(k[1], Of(TaughtBy(t), k[2]))
    IN  {[student |-> k[1], module |-> k[2], red |-> n(k) > Maximum] :
            k \in {k \in Students \X Modules : n(k) >= Warning}}

HeldIn(y) ==
    {s \in live : 12 * y - 4 <= Class[s].date /\ Class[s].date < 12 * y + 8}

\* The absences of a level's bar, and the records they are a share of.
LevelBar(y, level) ==
    LET entries == {k \in HeldIn(y) \X Students :
                        /\ Recorded(k[1], k[2])
                        /\ Person[k[2]].niveau = level}
    IN  [entries |-> Cardinality(entries),
         absent |-> Cardinality({k \in entries : Absent(k[1], k[2])})]

MonthPoint(y, month) ==
    AbsencesOfAll({s \in HeldIn(y) : Class[s].date % 12 = month})

ModuleBar(t, y, c) == AbsencesOfAll(Of(HeldIn(y) \cap TaughtBy(t), c))

-------------------------------------------------------------------------------
\* Lists, profiles of staff, and exports.

\* GET /accounts/students: absences of every session, own group or not.
ListedAbsences(m) == AbsencesIn(m, live)

\* GET /sessions/{id}/attendance, the sheet its teacher fills in, and
\* GET /sessions/{id}/students.
Sheet(s) == [m \in Roster(s) |->
                [present |-> Present(s, m), absences |-> ListedAbsences(m)]]
StudentsOf(s) == [m \in Roster(s) |-> mark[<<s, m>>]]

\* GET /sessions/my-sessions, row by row.
MySession(s) == [groups |-> SessionGroups(s),
                 attended |-> \E m \in Students : Recorded(s, m)]

\* The rows of the absences export, and those of them that read "Absent".
ExportedRows == {k \in live \X Students : Recorded(k[1], k[2])}
ExportedAbsences == {k \in ExportedRows : Absent(k[1], k[2])}

\* "Total Absences" of the students export: every row, presences included.
ExportedTotal(m) == Cardinality({s \in live : Recorded(s, m)})

ExportedSessions(t) == Cardinality(TaughtBy(t))

\* "Total Students" of a session in the planning export.
ClassSize(s) ==
    Cardinality({m \in Students : /\ Person[m].groupe = Class[s].group
                                  /\ Person[m].niveau = Class[s].year})

\* The teacher's profile: a line per level, module and group, from the
\* summaries that someone has opened.
LineOf(s) == <<Class[s].year, Class[s].module, Class[s].group>>
Known(S) == {s \in S : summary[s] # NULL /\ summary[s].total > 0}
Line(t, l) ==
    LET S == {s \in TaughtBy(t) : LineOf(s) = l}
        Total(f) == SumFunction([s \in Known(S) |-> summary[s][f]])
    IN  [sessions |-> Cardinality(S), present |-> Total("present"),
         absences |-> Total("absent"), students |-> Total("total")]
Lines(t) == {LineOf(s) : s \in TaughtBy(t)}

\* The profile of an administrator who also teaches has only the lines with
\* a summary.
AdminLines(t) == {LineOf(s) : s \in Known(TaughtBy(t))}

-------------------------------------------------------------------------------
Begin(r, page, read) ==
    /\ ahead.opens[r][page] > 0
    /\ tx[r] # Idle => tx[r].stage = "served"
    /\ tx' = [tx EXCEPT ![r] = read]
    /\ ahead' = [ahead EXCEPT !.opens[r][page] = @ - 1]
    /\ UNCHANGED <<live, mark, groups, direct, summary>>

At(r, page, stage) ==
    tx[r] # Idle /\ tx[r].page = page /\ tx[r].stage = stage

Read(r, t) ==
    /\ tx' = [tx EXCEPT ![r] = t]
    /\ UNCHANGED <<live, mark, groups, direct, summary, ahead>>

-------------------------------------------------------------------------------
\* GET /students/me and /students/{matricule}

OwnGroup(m) == {s \in live : Folded[Class[s].group] = Folded[Person[m].groupe]}
Exactly(m) == {s \in live : /\ Class[s].group = Person[m].groupe
                            /\ Class[s].year = Person[m].niveau}

\* The modules of the student's level, in the semesters of his own group.
ModuleScope(m) ==
    LET semesters == {Class[s].semester : s \in Exactly(m)}
    IN  ModulesOf({s \in live : /\ Class[s].year = Person[m].niveau
                                /\ \/ semesters = {}
                                   \/ Class[s].semester \in semesters})

\* The modules table.  Its two counts are queries of their own too: absences
\* recorded in between, in a session inserted in between, are missed without
\* being held.
ModuleLine(m, c) ==
    [held |-> Cardinality(Of(Exactly(m), c)),
     missed |-> AbsencesIn(m, Of(Exactly(m), c))]

ProfileAbsences(r, m) ==
    Begin(r, "profile",
        [page |-> "profile", stage |-> "read", student |-> m,
         absences |-> AbsencesIn(m, OwnGroup(m)), total |-> 0])

ProfileTotal(r) ==
    /\ At(r, "profile", "read")
    /\ Read(r, [tx[r] EXCEPT !.stage = "served",
                             !.total = Cardinality(OwnGroup(tx[r].student))])

-------------------------------------------------------------------------------
\* GET /dashboard/stats

StatsExclusion(r) ==
    Begin(r, "stats", [page |-> "stats", stage |-> "read",
                       exclusion |-> AtExclusion, warning |-> 0])

StatsWarning(r) ==
    /\ At(r, "stats", "read")
    /\ Read(r, [tx[r] EXCEPT !.stage = "served",
                             !.warning = AtWarning(tx[r].exclusion)])

-------------------------------------------------------------------------------
\* GET /sessions/{id}/summary

Figures(total, present, absent) ==
    [total |-> total, present |-> present, absent |-> absent,
     pending |-> total - present - absent]

SummaryTotal(r, s) ==
    /\ s \in live
    /\ Begin(r, "summary", [page |-> "summary", stage |-> "read",
                            session |-> s, loaded |-> NULL,
                            new |-> Figures(Cardinality(Roster(s)), 0, 0)])

\* Everyone marked counts, expected or not.
Counted(s, total) ==
    Figures(total, Cardinality({m \in Students : Present(s, m)}),
                   Cardinality({m \in Students : Absent(s, m)}))

SummaryCount(r) ==
    /\ At(r, "summary", "read")
    /\ Read(r, [tx[r] EXCEPT !.stage = "counted",
                             !.new = Counted(tx[r].session, @.total)])

SummaryLoad(r) ==
    /\ At(r, "summary", "counted")
    /\ Read(r, [tx[r] EXCEPT !.stage = "loaded",
                             !.loaded = summary[tx[r].session]])

\* The ORM updates the columns that differ from the row it has loaded: two
\* pages can leave a row whose figures no page has computed together.
SummaryStore(r) ==
    LET s == tx[r].session
        old == tx[r].loaded
        new == tx[r].new
    IN  /\ At(r, "summary", "loaded")
        /\ old = NULL => summary[s] = NULL
        /\ summary' = [summary EXCEPT ![s] =
                IF old = NULL THEN new
                ELSE [c \in DOMAIN new |->
                        IF new[c] = old[c] THEN @[c] ELSE new[c]]]
        /\ tx' = [tx EXCEPT ![r] = Idle]
        /\ UNCHANGED <<live, mark, groups, direct, ahead>>

\* A session has one summary: when two pages both find none, one fails.
SummaryFails(r) ==
    /\ At(r, "summary", "loaded")
    /\ tx[r].loaded = NULL /\ summary[tx[r].session] # NULL
    /\ Read(r, Idle)

-------------------------------------------------------------------------------
\* What others commit between two queries of a page.

\* PUT /sessions/{id}/attendance for one student: any student may be marked.
Mark(s, m, v) ==
    /\ s \in live
    /\ Recorded(s, m)
        \/ Cardinality({k \in DOMAIN mark : mark[k] # "none"}) < Rows
    /\ mark' = [mark EXCEPT ![<<s, m>>] = v]
    /\ UNCHANGED <<live, groups, direct, summary, tx, ahead>>

\* A scan in another session deletes the absence it makes up for.
Delete(s, m) ==
    /\ Absent(s, m)
    /\ mark' = [mark EXCEPT ![<<s, m>>] = "none"]
    /\ UNCHANGED <<live, groups, direct, summary, tx, ahead>>

Materialise(s) ==
    /\ s \in ahead.sessions
    /\ live' = live \cup {s}
    /\ ahead' = [ahead EXCEPT !.sessions = @ \ {s}]
    /\ UNCHANGED <<mark, groups, direct, summary, tx>>

Added == SumFunction(
    [s \in Shared |-> Cardinality(groups[s]) + Cardinality(direct[s])])

AddGroup(s, g) ==
    /\ s \in live \cap Shared
    /\ g \notin SessionGroups(s)
    /\ Added < Additions
    /\ groups' = [groups EXCEPT ![s] = @ \cup {g}]
    /\ UNCHANGED <<live, mark, direct, summary, tx, ahead>>

AddStudent(s, m) ==
    /\ s \in live \cap Shared
    /\ m \notin direct[s]
    /\ Added < Additions
    /\ direct' = [direct EXCEPT ![s] = @ \cup {m}]
    /\ UNCHANGED <<live, mark, groups, summary, tx, ahead>>

-------------------------------------------------------------------------------
Init ==
    /\ live = {}
    /\ mark = [k \in Sessions \X Students |-> "none"]
    /\ groups = [s \in Sessions |-> {}]
    /\ direct = [s \in Sessions |-> {}]
    /\ summary = [s \in Sessions |-> NULL]
    /\ tx = [r \in Readers |-> Idle]
    /\ ahead \in Scenarios

Serve(r) ==
    \/ \E m \in Students : ProfileAbsences(r, m)
    \/ ProfileTotal(r)
    \/ StatsExclusion(r)
    \/ StatsWarning(r)
    \/ \E s \in Summarised : SummaryTotal(r, s)
    \/ SummaryCount(r)
    \/ SummaryLoad(r)
    \/ SummaryStore(r)
    \/ SummaryFails(r)

Next ==
    \/ \E r \in Readers : Serve(r)
    \/ \E s \in Sessions, m \in Students :
        \/ Mark(s, m, "absent")
        \/ Mark(s, m, "present")
        \/ Delete(s, m)
        \/ AddStudent(s, m)
    \/ \E s \in Sessions : Materialise(s)
    \/ \E s \in Sessions, g \in Names : AddGroup(s, g)

Spec == Init /\ [][Next]_vars

-------------------------------------------------------------------------------
Counts == 0..Cardinality(Sessions)
People == 0..Cardinality(Students)
Summary == [total : People, present : People, absent : People,
            pending : -Cardinality(Students)..Cardinality(Students)]
ProfilePage ==
    {p \in [page : {"profile"}, stage : {"read", "served"},
            student : Students, absences : Counts, total : Counts] :
        p.stage = "served" => p.absences <= p.total}
StatsPage == [page : {"stats"}, stage : {"read", "served"},
              exclusion : People, warning : People]
SummaryPage == [page : {"summary"}, stage : {"read", "counted", "loaded"},
                session : Summarised, loaded : Summary \cup {NULL},
                new : Summary]

ASSUME NullAssumption == NULL \notin Levels \cup Summary

\* The type invariant.  It holds the figures of a page in range although its
\* queries see different states: a student's attendance rate stays between
\* 0 and 100 % (absences are read before the sessions are counted, and
\* sessions are never deleted), and no count of the administrators' cards is
\* negative.
TypeOK ==
    /\ live \subseteq Sessions
    /\ mark \in [Sessions \X Students -> Marks]
    /\ \A k \in Sessions \X Students : Recorded(k[1], k[2]) => k[1] \in live
    /\ groups \in [Sessions -> SUBSET Names]
    /\ direct \in [Sessions -> SUBSET Students]
    /\ summary \in [Sessions -> Summary \cup {NULL}]
    /\ tx \in [Readers -> {Idle} \cup ProfilePage \cup StatsPage
                                 \cup SummaryPage]
    /\ ahead \in Scenario
    /\ ahead.sessions \cap live = {}

\* A teacher reads the same attendance of a student in the list of the group
\* and in the student's history, though the list counts the presences of all
\* sessions at once and the history adds those made up elsewhere to the
\* group's own.
ListMatchesHistory ==
    \A t \in Teachers, g \in Names, y \in Levels \cup {NULL} :
        \A m \in Cohort(g, y) : ListRow(t, g, y, m) = HistoryRow(t, g, y, m)

\* The same absences are behind every page.  The administrators' two cards
\* split the students at or past the warning; a teacher's card counts the
\* students of the alerts; the bars by level, the points by month and the
\* teachers' bars of a year add up to the same absences, and the totals of the
\* students' list and of the students export to the rows of the absences
\* export.  A group has the absences its teachers see in it, a teacher's
\* profile the sessions of the export, and a student's modules no more
\* absences than sessions.  The class size of the planning export is of
\* people on the roster, and a summary has no student pending whom the list
\* of the session shows marked.
FiguresReconcile ==
    /\ AtWarning(AtExclusion) = Cardinality(
            {m \in Students : Worst(m) >= Warning /\ Worst(m) < Maximum})
    /\ \A t \in Teachers :
        /\ AtRisk(t) = Cardinality({a.student : a \in Alerts(t)})
        /\ SumFunction([l \in Lines(t) |-> Line(t, l).sessions])
                = ExportedSessions(t)
        /\ AdminLines(t) = {l \in Lines(t) : Line(t, l).students > 0}
    /\ \A y \in Years :
        LET total == AbsencesOfAll(HeldIn(y))
        IN  /\ total = SumFunction([l \in Levels |-> LevelBar(y, l).absent])
            /\ total = SumFunction([d \in Months |-> MonthPoint(y, d)])
            /\ total = SumFunction([b \in Teachers \X Modules |->
                                        ModuleBar(b[1], y, b[2])])
    /\ SumFunction([m \in Students |-> ListedAbsences(m)])
            = Cardinality(ExportedAbsences)
    /\ SumFunction([m \in Students |-> ExportedTotal(m)])
            = Cardinality(ExportedRows)
    /\ \A g \in Names, y \in Levels \cup {NULL} :
        SumFunction([t \in Teachers |-> GroupCard(t, g, y).absences])
            = GroupRate(g, y, NULL, NULL).absences
    /\ \A m \in Students, c \in Modules :
        ModuleLine(m, c).missed <= ModuleLine(m, c).held
    /\ \A s \in live :
        LET list == StudentsOf(s)
            sheet == Sheet(s)
            now == Counted(s, Cardinality(Roster(s)))
        IN  /\ MySession(s).attended <=> now.present + now.absent > 0
            /\ ClassSize(s) <= Cardinality(Roster(s))
            /\ \A m \in Roster(s) :
                list[m] = "absent" => sheet[m].absences > 0
            /\ now.pending <=
                Cardinality({m \in Roster(s) : list[m] = "none"})

===============================================================================
