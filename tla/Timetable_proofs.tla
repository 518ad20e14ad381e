--------------------------- MODULE Timetable_proofs ---------------------------
(* Theorems about Timetable, for any files, plans, teachers and weeks, and   *)
(* any number of requests in flight.                                         *)
EXTENDS Timetable, FiniteSetTheorems, TLAPS

(***************************************************************************)
(* The inductive invariant.                                                *)
(***************************************************************************)

Tx == ImportTx \cup FillTx \cup PatchTx

OneForEachId(ps) == \A p, q \in ps : p.id = q.id => p = q

SameCourse(ps, qs) == \A p \in ps, q \in qs : p.id = q.id => p.course = q.course

NoSharedId(ps, qs) == \A p \in ps, q \in qs : p.id # q.id

\* Plans have one row for each id.  A request in flight updates a plan without
\* changing its course, and no two requests hold one id.
PlansInv ==
    /\ OneForEachId(plans)
    /\ \A w \in InFlight : /\ OneForEachId(tx[w].new.plans)
                           /\ SameCourse(tx[w].new.plans, plans)
    /\ \A v, w \in InFlight :
            v # w => NoSharedId(tx[v].new.plans, tx[w].new.plans)

\* A plan of ps has this id and falls on the day of this date.
OnDay(ps, id, date) ==
    \E p \in ps : p.id = id /\ DayOf[p.course] = TodayDayName(date)

\* Sessions, stored or in flight, fall on the day of their plan.
DaysInv ==
    /\ \A s \in SessionIds : SessionIsLive(s) =>
            OnDay(plans, sessions[s].plan, sessions[s].date)
    /\ \A w \in InFlight : \A x \in tx[w].new.slots :
            OnDay(plans \cup tx[w].new.plans, x[1], x[3])

\* No two rows, stored or in flight, have the slot of another.
SlotsInv ==
    /\ \A s, r \in SessionIds :
            SessionIsLive(s) /\ SessionIsLive(r) =>
                (SlotOf(sessions[s]) = SlotOf(sessions[r]) => s = r)
    /\ \A w \in InFlight : tx[w].new.slots \cap Taken = {}
    /\ \A v, w \in InFlight :
            v # w => tx[v].new.slots \cap tx[w].new.slots = {}

\* What requests are about to insert.
Asked == UNION {tx[w].new.slots : w \in InFlight}

\* There is a session id for each slot in flight.
RoomInv ==
    /\ \A w \in InFlight : IsFiniteSet(tx[w].new.slots)
    /\ Cardinality(Asked) <= Cardinality(FreeIds)

\* The classes of taken that plan p gives on date d.
ClassesOf(taken, p, d) == {x \in taken : x[1] = p /\ x[3] = d}

\* Plan p has at least the classes that a row of a file asks for.
Given(taken, p, row, start) ==
    \A d \in Generated(start, row.course) :
        Cardinality(ClassesOf(taken, p, d)) >= Cardinality(row.teachers)

\* What an import has done so far: the rows before the next have a plan of
\* their course, with its classes, and it has written no other plan.
Done(taken, t) ==
    /\ t.next \in 1..(Len(t.import.file) + 1)
    /\ \A p \in t.new.plans : \E k \in 1..(t.next - 1) :
            p.course = t.import.file[k].course
    /\ \A k \in 1..(t.next - 1) : \E p \in t.new.plans :
            /\ p.course = t.import.file[k].course
            /\ Given(taken \cup t.new.slots, p.id, t.import.file[k],
                     t.import.start)

\* What each request in flight relies on.
RequestsInv ==
    \A w \in InFlight :
        /\ tx[w].op = "import" => Done(Taken, tx[w])
        /\ tx[w].op # "import" => tx[w].new.plans = {}
        /\ tx[w].op = "patch" => /\ tx[w].new = NoWrites
                                 /\ SessionIsLive(tx[w].session)

IInv == TypeOK /\ PlansInv /\ DaysInv /\ SlotsInv /\ RoomInv /\ RequestsInv

(***************************************************************************)
(* Finite sets.                                                            *)
(***************************************************************************)

\* The values of a function on a finite set are finitely many.
LEMMA FiniteImage ==
    ASSUME NEW S, IsFiniteSet(S), NEW f, DOMAIN f = S, f = [x \in S |-> f[x]],
           NEW T, T = {f[x] : x \in S}
    PROVE  IsFiniteSet(T) /\ Cardinality(T) <= Cardinality(S)
<1>1. f \in Surjection(S, T)
    BY DEF Surjection
<1>. QED
    BY <1>1, FS_Surjection

\* And as many as its arguments, if no two of them have one value.
LEMMA InjectiveImage ==
    ASSUME NEW S, IsFiniteSet(S), NEW f, f = [x \in S |-> f[x]],
           \A x, y \in S : f[x] = f[y] => x = y,
           NEW T, T = {f[x] : x \in S}
    PROVE  IsFiniteSet(T) /\ Cardinality(T) = Cardinality(S)
<1>1. f \in Surjection(S, T)
    BY DEF Surjection
<1>2. f \in Injection(S, T)
    BY DEF Injection, IsInjective
<1>. QED
    BY <1>1, <1>2, FS_Surjection

\* A set that is no larger than another has an injection into it.
LEMMA InjectionExists ==
    ASSUME NEW S, NEW T, IsFiniteSet(S), IsFiniteSet(T),
           Cardinality(S) <= Cardinality(T)
    PROVE  \E g \in [S -> T] : IsInjective(g)
<1>. DEFINE m == Cardinality(S)
            n == Cardinality(T)
<1>1. m \in Nat /\ n \in Nat
    BY FS_CardinalityType
<1>2. PICK f \in Bijection(1..m, S) : TRUE
    BY FS_CardinalityType DEF ExistsBijection
<1>3. PICK h \in Bijection(1..n, T) : TRUE
    BY FS_CardinalityType DEF ExistsBijection
<1>4. /\ f \in [1..m -> S] /\ \A s \in S : \E i \in 1..m : f[i] = s
      /\ h \in [1..n -> T] /\ \A i, j \in 1..n : h[i] = h[j] => i = j
    BY <1>2, <1>3 DEF Bijection, Injection, Surjection, IsInjective
<1>. DEFINE at(s) == CHOOSE i \in 1..m : f[i] = s
            g == [s \in S |-> h[at(s)]]
<1>5. \A s \in S : at(s) \in 1..m /\ f[at(s)] = s
    BY <1>4
<1>6. \A s \in S : at(s) \in 1..n
    BY <1>1, <1>5
<1>. HIDE DEF at, m, n
<1>7. g \in [S -> T]
    BY <1>4, <1>6
<1>8. \A s, r \in S : g[s] = g[r] => s = r
    BY <1>4, <1>5, <1>6
<1>. QED
    BY <1>7, <1>8 DEF IsInjective

\* Slots on finitely many dates are finitely many.
LEMMA FiniteSlots ==
    ASSUME NEW D, IsFiniteSet(D), NEW slots,
           slots \subseteq PlanIds \X Teachers \X D
    PROVE  IsFiniteSet(slots)
<1>. DEFINE S == (PlanIds \X Teachers) \X D
            T == PlanIds \X Teachers \X D
            f == [z \in S |-> <<z[1][1], z[1][2], z[2]>>]
<1>1. IsFiniteSet(PlanIds) /\ IsFiniteSet(Teachers)
    BY TablesAssumption
<1>2. IsFiniteSet(S)
    BY <1>1, FS_Product
<1>3. T = {f[z] : z \in S}
    <2>1. \A z \in S : f[z] \in T
        OBVIOUS
    <2>2. ASSUME NEW x \in T PROVE \E z \in S : f[z] = x
        <3>1. <<<<x[1], x[2]>>, x[3]>> \in S /\ x = <<x[1], x[2], x[3]>>
            OBVIOUS
        <3>. QED
            BY <3>1
    <2>. QED
        BY <2>1, <2>2
<1>. HIDE DEF S, T
<1>4. IsFiniteSet(T)
    BY <1>2, <1>3, FiniteImage
<1>. QED
    BY <1>4, FS_Subset DEF T

\* Slots are finitely many on finitely many sessions, and so is what is asked.
LEMMA FiniteTables ==
    ASSUME TypeOK, \A w \in InFlight : IsFiniteSet(tx[w].new.slots)
    PROVE  IsFiniteSet(Taken) /\ IsFiniteSet(FreeIds) /\ IsFiniteSet(Asked)
<1>. DEFINE live == {i \in SessionIds : SessionIsLive(i)}
            slotOf == [s \in live |-> SlotOf(sessions[s])]
            asks == [w \in InFlight |-> tx[w].new.slots]
            S == {asks[w] : w \in InFlight}
<1>1. IsFiniteSet(SessionIds) /\ IsFiniteSet(Workers)
    BY TablesAssumption
<1>2. IsFiniteSet(live) /\ IsFiniteSet(FreeIds) /\ IsFiniteSet(InFlight)
    BY <1>1, FS_Subset DEF FreeIds, InFlight
<1>3. Taken = {slotOf[s] : s \in live}
    BY DEF Taken
<1>4. IsFiniteSet(Taken)
    <2>1. DOMAIN slotOf = live /\ slotOf = [s \in live |-> slotOf[s]]
        OBVIOUS
    <2>. HIDE DEF live, slotOf
    <2>. QED
        BY <1>2, <1>3, <2>1, FiniteImage
<1>5. Asked = UNION S
    BY DEF Asked
<1>6. \A T \in S : IsFiniteSet(T)
    OBVIOUS
<1>7. IsFiniteSet(S)
    <2>1. DOMAIN asks = InFlight /\ asks = [w \in InFlight |-> asks[w]]
        OBVIOUS
    <2>. HIDE DEF asks
    <2>. QED
        BY <1>2, <2>1, FiniteImage
<1>8. IsFiniteSet(UNION S)
    BY <1>6, <1>7, FS_UNION
<1>. QED
    BY <1>2, <1>4, <1>5, <1>8
-----------------------------------------------------------------------------
(* The records.                                                            *)

\* What a request has inserted is typed.
LEMMA WritesTyped ==
    ASSUME NEW t \in Tx
    PROVE  /\ t.new \in Writes /\ t.new.plans \subseteq PlanRow
           /\ t.new.modules \subseteq Subjects /\ t.new.rooms \subseteq Rooms
           /\ t.new.slots \subseteq Slots
BY DEF Tx, ImportTx, FillTx, PatchTx, Writes

\* The kinds of request are told apart by their handler.
LEMMA Kinds ==
    ASSUME TypeOK, NEW w \in Workers, tx[w] # Idle
    PROVE  /\ tx[w] \in Tx /\ w \in InFlight
           /\ tx[w].op \in {"import", "fill", "patch"}
           /\ tx[w].op = "import" => tx[w] \in ImportTx
           /\ tx[w].op = "fill" => tx[w] \in FillTx
           /\ tx[w].op = "patch" => tx[w] \in PatchTx
BY DEF TypeOK, Tx, InFlight, ImportTx, FillTx, PatchTx

\* A request in flight is not the mark of an idle worker.
LEMMA TxIsNotIdle == Idle \notin Tx
BY MarksAssumption DEF Tx

\* A step of one request leaves the others as they are.
LEMMA OthersSame ==
    ASSUME TypeOK, NEW w \in Workers, NEW t, tx' = [tx EXCEPT ![w] = t]
    PROVE  /\ tx'[w] = t
           /\ \A v \in Workers \ {w} : tx'[v] = tx[v]
           /\ \A v : v # w => (v \in InFlight' <=> v \in InFlight)
           /\ w \in InFlight' <=> t # Idle
BY DEF TypeOK, InFlight

\* What plans need of the other tables.
LEMMA NeedsTyped ==
    ASSUME NEW ps, ps \subseteq PlanRow
    PROVE  SubjectsIn(ps) \subseteq Subjects /\ RoomsIn(ps) \subseteq Rooms
BY TablesAssumption DEF SubjectsIn, RoomsIn, Subjects, Range, PlanRow

\* What does not clash has no row of another request.
LEMMA ClashFree ==
    ASSUME NEW w \in Workers, NEW n, ~Clash(w, n), NEW v \in InFlight \ {w}
    PROVE  /\ n.slots \cap tx[v].new.slots = {}
           /\ NoSharedId(tx[v].new.plans, n.plans)
<1>1. /\ tx[v].new.slots \subseteq Held(w, "slots")
      /\ tx[v].new.plans \subseteq Held(w, "plans")
    BY DEF Held
<1>2. /\ n.slots \cap Held(w, "slots") = {}
      /\ {p.id : p \in n.plans} \cap {p.id : p \in Held(w, "plans")} = {}
    BY DEF Clash
<1>3. \A p \in tx[v].new.plans, q \in n.plans : p.id # q.id
    BY <1>1, <1>2
<1>. QED
    BY <1>1, <1>2, <1>3 DEF NoSharedId
-----------------------------------------------------------------------------
(* Days and dates.                                                         *)

\* A date counted from the Monday of a week has the day that was asked for.
LEMMA DatesMeetDays ==
    ASSUME NEW start \in Starts, NEW c \in Courses,
           DayOf[c] \in DOMAIN DayToWeekday, NEW d \in Generated(start, c)
    PROVE  d \in Int /\ TodayDayName(d) = DayOf[c]
<1>1. PICK k \in 0..(Weeks - 1) : d = DateForWeek(start, DayOf[c], k)
    BY DEF Generated
<1>2. start \in Int /\ k \in Int /\ Weeks \in Nat
    BY TablesAssumption, WeeksAssumption DEF Generated
<1>. DEFINE x == start + 7 * k
            e == DayToWeekday[DayOf[c]]
<1>3. x \in Int /\ d = (x - (x % 7)) + e
    BY <1>1, <1>2 DEF DateForWeek, Weekday
<1>4. e \in {0, 1, 2, 3, 6}
    BY DEF DayToWeekday
<1>5. d \in Int /\ d % 7 = e
    <2>. HIDE DEF x, e
    <2>. QED
        BY <1>3, <1>4
<1>6. /\ DayOf[c] = "Lundi" => e = 0
      /\ DayOf[c] = "Mardi" => e = 1
      /\ DayOf[c] = "Mercredi" => e = 2
      /\ DayOf[c] = "Jeudi" => e = 3
      /\ DayOf[c] = "Dimanche" => e = 6
      /\ DayOf[c] \in {"Lundi", "Mardi", "Mercredi", "Jeudi", "Dimanche"}
    BY DEF DayToWeekday
<1>7. TodayDayName(d) = DayOf[c]
    <2>. HIDE DEF e
    <2>1. CASE DayOf[c] = "Lundi"
        BY <1>5, <1>6, <2>1 DEF TodayDayName, Weekday
    <2>2. CASE DayOf[c] = "Mardi"
        BY <1>5, <1>6, <2>2 DEF TodayDayName, Weekday
    <2>3. CASE DayOf[c] = "Mercredi"
        BY <1>5, <1>6, <2>3 DEF TodayDayName, Weekday
    <2>4. CASE DayOf[c] = "Jeudi"
        BY <1>5, <1>6, <2>4 DEF TodayDayName, Weekday
    <2>5. CASE DayOf[c] = "Dimanche"
        BY <1>5, <1>6, <2>5 DEF TodayDayName, Weekday
    <2>. QED
        BY <1>6, <2>1, <2>2, <2>3, <2>4, <2>5
<1>. QED
    BY <1>5, <1>7

\* They are finitely many.
LEMMA FiniteDates ==
    ASSUME NEW start, NEW c
    PROVE  IsFiniteSet(Generated(start, c))
<1>. DEFINE f == [k \in 0..(Weeks - 1) |-> DateForWeek(start, DayOf[c], k)]
            S == {f[k] : k \in 0..(Weeks - 1)}
<1>1. IsFiniteSet(0..(Weeks - 1))
    BY WeeksAssumption, FS_Interval
<1>2. IsFiniteSet(S)
    BY <1>1, FiniteImage
<1>3. Generated(start, c) \in {{}, S}
    BY DEF Generated
<1>. QED
    BY <1>2, <1>3, FS_EmptySet

\* The rows of a file that is being imported.
LEMMA RowsTyped ==
    ASSUME NEW t \in ImportTx, NEW k \in 1..Len(t.import.file)
    PROVE  /\ t.import.file \in Files /\ t.import.start \in Starts
           /\ Len(t.import.file) \in Nat /\ k \in DOMAIN t.import.file
           /\ t.import.file[k] \in FileRow
           /\ IsFiniteSet(t.import.file[k].teachers)
           /\ Cardinality(t.import.file[k].teachers) \in Nat
<1>1. /\ t.import.file \in Files /\ t.import.start \in Starts
      /\ t.import.file \in Seq(FileRow)
    BY FilesAssumption DEF ImportTx, Import
<1>2. k \in DOMAIN t.import.file /\ t.import.file[k] \in FileRow
    BY <1>1
<1>3. t.import.file[k].teachers \subseteq Teachers
    BY <1>2 DEF FileRow
<1>4. IsFiniteSet(t.import.file[k].teachers)
    BY <1>3, TablesAssumption, FS_Subset
<1>. QED
    BY <1>1, <1>2, <1>4, FS_CardinalityType
-----------------------------------------------------------------------------
(* What an import has done.                                                *)

\* More slots are more classes.
LEMMA ClassesGrow ==
    ASSUME NEW less, NEW more, less \subseteq more, IsFiniteSet(more), NEW p, NEW d
    PROVE  /\ IsFiniteSet(ClassesOf(less, p, d))
           /\ IsFiniteSet(ClassesOf(more, p, d))
           /\ Cardinality(ClassesOf(less, p, d)) \in Nat
           /\ Cardinality(ClassesOf(more, p, d)) \in Nat
           /\ Cardinality(ClassesOf(less, p, d))
                <= Cardinality(ClassesOf(more, p, d))
<1>. DEFINE L == ClassesOf(less, p, d)
            M == ClassesOf(more, p, d)
<1>1. L \subseteq M /\ M \subseteq more
    BY DEF ClassesOf
<1>. HIDE DEF L, M
<1>2. IsFiniteSet(M)
    BY <1>1, FS_Subset
<1>3. IsFiniteSet(L) /\ Cardinality(L) <= Cardinality(M)
    BY <1>1, <1>2, FS_Subset
<1>4. Cardinality(L) \in Nat /\ Cardinality(M) \in Nat
    BY <1>2, <1>3, FS_CardinalityType
<1>. QED
    BY <1>2, <1>3, <1>4 DEF L, M

\* What a file asks for stays given while no plan loses classes on a date.
LEMMA GivenKept ==
    ASSUME NEW less, NEW more, IsFiniteSet(less), IsFiniteSet(more),
           \A q, d : Cardinality(ClassesOf(less, q, d))
                        <= Cardinality(ClassesOf(more, q, d)),
           NEW p, NEW row, NEW start, Cardinality(row.teachers) \in Nat,
           Given(less, p, row, start)
    PROVE  Given(more, p, row, start)
<1>. SUFFICES ASSUME NEW d \in Generated(start, row.course)
              PROVE  Cardinality(ClassesOf(more, p, d))
                        >= Cardinality(row.teachers)
    BY DEF Given
<1>1. Cardinality(ClassesOf(less, p, d)) >= Cardinality(row.teachers)
    BY DEF Given
<1>2. Cardinality(ClassesOf(less, p, d)) \in Nat
    BY ClassesGrow
<1>3. Cardinality(ClassesOf(more, p, d)) \in Nat
    BY ClassesGrow
<1>. QED
    BY <1>1, <1>2, <1>3

\* What an import has done stays done while no plan loses classes on a date.
LEMMA DoneKept ==
    ASSUME NEW taken, NEW more, NEW t \in ImportTx, Done(taken, t),
           IsFiniteSet(taken \cup t.new.slots), IsFiniteSet(more \cup t.new.slots),
           \A q, d : Cardinality(ClassesOf(taken \cup t.new.slots, q, d))
                        <= Cardinality(ClassesOf(more \cup t.new.slots, q, d))
    PROVE  Done(more, t)
<1>. SUFFICES ASSUME NEW k \in 1..(t.next - 1)
              PROVE  \E p \in t.new.plans :
                        /\ p.course = t.import.file[k].course
                        /\ Given(more \cup t.new.slots, p.id, t.import.file[k],
                                 t.import.start)
    BY DEF Done
<1>1. PICK p \in t.new.plans :
            /\ p.course = t.import.file[k].course
            /\ Given(taken \cup t.new.slots, p.id, t.import.file[k],
                     t.import.start)
    BY DEF Done
<1>2. t.import.file \in Seq(FileRow)
    BY FilesAssumption DEF ImportTx, Import
<1>3. k \in 1..Len(t.import.file)
    BY <1>2 DEF Done
<1>4. Cardinality(t.import.file[k].teachers) \in Nat
    BY <1>3, RowsTyped
<1>5. Given(more \cup t.new.slots, p.id, t.import.file[k], t.import.start)
    BY <1>1, <1>4, GivenKept
<1>. QED
    BY <1>1, <1>5

\* In particular while slots are added.
LEMMA DoneGrows ==
    ASSUME NEW taken, NEW more, NEW t \in ImportTx, Done(taken, t),
           taken \subseteq more, IsFiniteSet(more), IsFiniteSet(t.new.slots)
    PROVE  Done(more, t)
<1>. DEFINE L == taken \cup t.new.slots
            M == more \cup t.new.slots
<1>1. L \subseteq M /\ IsFiniteSet(M)
    BY FS_Union
<1>2. IsFiniteSet(L)
    BY <1>1, FS_Subset
<1>3. \A q, d : Cardinality(ClassesOf(L, q, d)) <= Cardinality(ClassesOf(M, q, d))
    BY <1>1, ClassesGrow
<1>. QED
    BY <1>1, <1>2, <1>3, DoneKept
-----------------------------------------------------------------------------
(* The invariant is inductive: requests that prepare their rows.           *)

\* A request now has the record t; the tables are as they were.
LEMMA Filled ==
    ASSUME IInv, NEW w \in Workers, NEW t \in Tx, tx' = [tx EXCEPT ![w] = t],
           UNCHANGED <<plans, sessions, modules, rooms, links, history>>,
           OneForEachId(t.new.plans), SameCourse(t.new.plans, plans),
           \A v \in InFlight \ {w} :
                /\ NoSharedId(tx[v].new.plans, t.new.plans)
                /\ tx[v].new.slots \cap t.new.slots = {},
           \A x \in t.new.slots : OnDay(plans \cup t.new.plans, x[1], x[3]),
           t.new.slots \cap Taken = {}, IsFiniteSet(t.new.slots),
           Cardinality(t.new.slots \cup Asked) <= Cardinality(FreeIds),
           tx[w] # Idle => tx[w].new.slots \subseteq t.new.slots,
           t.op = "import" => Done(Taken, t),
           t.op # "import" => t.new.plans = {},
           t.op = "patch" => t.new = NoWrites /\ SessionIsLive(t.session)
    PROVE  IInv'
<1>1. /\ tx'[w] = t /\ \A v \in Workers \ {w} : tx'[v] = tx[v]
      /\ \A v : v # w => (v \in InFlight' <=> v \in InFlight)
      /\ w \in InFlight' /\ InFlight' \subseteq Workers
      /\ InFlight \subseteq Workers
    BY OthersSame, TxIsNotIdle DEF IInv, InFlight
<1>2. /\ Taken' = Taken /\ FreeIds' = FreeIds
      /\ \A s : SessionIsLive(s)' <=> SessionIsLive(s)
    BY DEF Taken, FreeIds, SessionIsLive
<1>3. TypeOK'
    <2>1. tx' \in [Workers -> ImportTx \cup FillTx \cup PatchTx \cup {Idle}]
        BY DEF IInv, TypeOK, Tx
    <2>. QED
        BY <2>1 DEF IInv, TypeOK
<1>4. PlansInv'
    <2>1. \A v \in InFlight' : v # w =>
            /\ OneForEachId(tx[v].new.plans) /\ SameCourse(tx[v].new.plans, plans)
            /\ NoSharedId(tx[v].new.plans, t.new.plans)
            /\ NoSharedId(t.new.plans, tx[v].new.plans)
        BY <1>1 DEF IInv, PlansInv, NoSharedId
    <2>2. \A v \in InFlight' : /\ OneForEachId(tx'[v].new.plans)
                               /\ SameCourse(tx'[v].new.plans, plans)
        BY <1>1, <2>1
    <2>3. \A u, v \in InFlight' :
            u # v => NoSharedId(tx'[u].new.plans, tx'[v].new.plans)
        BY <1>1, <2>1 DEF IInv, PlansInv
    <2>. QED
        BY <2>2, <2>3 DEF IInv, PlansInv, OneForEachId, SameCourse, NoSharedId
<1>5. DaysInv'
    <2>1. \A v \in InFlight' : \A x \in tx'[v].new.slots :
            OnDay(plans \cup tx'[v].new.plans, x[1], x[3])
        BY <1>1 DEF IInv, DaysInv
    <2>. QED
        BY <1>2, <2>1 DEF IInv, DaysInv, OnDay, TodayDayName, Weekday
<1>6. SlotsInv'
    <2>1. \A v \in InFlight' : tx'[v].new.slots \cap Taken = {}
        BY <1>1 DEF IInv, SlotsInv
    <2>2. \A u, v \in InFlight' :
            u # v => tx'[u].new.slots \cap tx'[v].new.slots = {}
        BY <1>1 DEF IInv, SlotsInv
    <2>3. \A s, r \in SessionIds :
            SessionIsLive(s)' /\ SessionIsLive(r)' =>
                (SlotOf(sessions[s])' = SlotOf(sessions[r])' => s = r)
        BY <1>2 DEF IInv, SlotsInv, SlotOf
    <2>. QED
        BY <1>2, <2>1, <2>2, <2>3 DEF SlotsInv
<1>7. RoomInv'
    <2>1. \A v \in InFlight' : IsFiniteSet(tx'[v].new.slots)
        BY <1>1 DEF IInv, RoomInv
    <2>2. Asked' = t.new.slots \cup Asked
        <3>1. ASSUME NEW x \in Asked' PROVE x \in t.new.slots \cup Asked
            BY <1>1 DEF Asked
        <3>2. ASSUME NEW x \in t.new.slots \cup Asked PROVE x \in Asked'
            <4>1. CASE x \in t.new.slots
                BY <1>1, <4>1 DEF Asked
            <4>2. CASE x \in Asked
                <5>1. PICK v \in InFlight : x \in tx[v].new.slots
                    BY <4>2 DEF Asked
                <5>2. CASE v = w
                    BY <1>1, <5>1, <5>2 DEF Asked, InFlight
                <5>3. CASE v # w
                    BY <1>1, <5>1, <5>3 DEF Asked
                <5>. QED
                    BY <5>2, <5>3
            <4>. QED
                BY <4>1, <4>2
        <3>. QED
            BY <3>1, <3>2
    <2>. QED
        BY <1>2, <2>1, <2>2 DEF RoomInv
<1>8. RequestsInv'
    <2>1. \A v \in InFlight' :
            /\ tx'[v].op = "import" => Done(Taken, tx'[v])
            /\ tx'[v].op # "import" => tx'[v].new.plans = {}
            /\ tx'[v].op = "patch" => /\ tx'[v].new = NoWrites
                                      /\ SessionIsLive(tx'[v].session)
        BY <1>1 DEF IInv, RequestsInv
    <2>2. ASSUME NEW v \in InFlight'
          PROVE  /\ tx'[v].op = "import" => Done(Taken, tx[v])'
                 /\ tx'[v].op # "import" => tx'[v].new.plans = {}
                 /\ tx'[v].op = "patch" => tx'[v].new = NoWrites
                 /\ tx'[v].op = "patch" => sessions'[tx'[v].session] # Free
        <3>1. tx'[v].op = "import" => Done(Taken, tx[v])'
            BY <1>2, <2>1
        <3>2. tx'[v].op = "patch" => sessions'[tx'[v].session] # Free
            BY <2>1 DEF SessionIsLive
        <3>. QED
            BY <2>1, <3>1, <3>2
    <2>. QED
        BY <2>2 DEF RequestsInv, SessionIsLive
<1>. QED
    BY <1>3, <1>4, <1>5, <1>6, <1>7, <1>8 DEF IInv

\* A request starts with modules, rooms and slots to insert, and no plans.
LEMMA BeginKeeps ==
    ASSUME IInv, NEW w \in Workers, NEW t \in Tx, Begin(w, t),
           t.new.plans = {}, t.new.slots \cap Taken = {}, IsFiniteSet(t.new.slots),
           \A x \in t.new.slots : OnDay(plans, x[1], x[3]),
           t.op = "import" => Done(Taken, t),
           t.op = "patch" => t.new = NoWrites /\ SessionIsLive(t.session)
    PROVE  IInv'
<1>1. /\ tx[w] = Idle /\ ~Clash(w, t.new) /\ tx' = [tx EXCEPT ![w] = t]
      /\ UNCHANGED <<plans, sessions, modules, rooms, links, history>>
      /\ Cardinality(t.new.slots \cup Asked) <= Cardinality(FreeIds)
    BY DEF Begin, RowIdsLeft, Asked
<1>2. /\ OneForEachId(t.new.plans) /\ SameCourse(t.new.plans, plans)
      /\ \A x \in t.new.slots : OnDay(plans \cup t.new.plans, x[1], x[3])
    BY DEF OneForEachId, SameCourse, OnDay
<1>3. \A v \in InFlight \ {w} : /\ NoSharedId(tx[v].new.plans, t.new.plans)
                                /\ tx[v].new.slots \cap t.new.slots = {}
    BY <1>1, ClashFree
<1>. QED
    BY <1>1, <1>2, <1>3, Filled

\* What is missing of modules and rooms alone.
LEMMA FillKeeps ==
    ASSUME IInv, NEW w \in Workers, NEW n \in Writes, Fill(w, n),
           n.plans = {}, n.slots \cap Taken = {}, IsFiniteSet(n.slots),
           \A x \in n.slots : OnDay(plans, x[1], x[3])
    PROVE  IInv'
<1>. DEFINE t == [op |-> "fill", new |-> n]
<1>1. t \in Tx /\ t.op = "fill" /\ t.new = n
    BY DEF Tx, FillTx
<1>2. Begin(w, t)
    BY DEF Fill
<1>. HIDE DEF t
<1>. QED
    BY <1>1, <1>2, BeginKeeps

\* Modules that some plans lack are filled in.
LEMMA FillModulesKeeps ==
    ASSUME IInv, NEW w \in Workers, NEW ps, ps \subseteq plans,
           Fill(w, [NoWrites EXCEPT !.modules = SubjectsIn(ps) \ modules])
    PROVE  IInv'
<1>. DEFINE n == [NoWrites EXCEPT !.modules = SubjectsIn(ps) \ modules]
<1>1. SubjectsIn(ps) \subseteq Subjects
    BY NeedsTyped DEF IInv, TypeOK
<1>2. n \in Writes /\ n.plans = {} /\ n.slots = {}
    BY <1>1 DEF NoWrites, Writes
<1>. HIDE DEF n
<1>. QED
    BY <1>2, FillKeeps, FS_EmptySet DEF n

\* A teacher's sessions are made on the days of the plans.
LEMMA MaterialiseKeeps ==
    ASSUME IInv, NEW w \in Workers, NEW us, us \subseteq Teachers,
           NEW ds, ds \subseteq Int, IsFiniteSet(ds), Fill(w, Materialise(us, ds))
    PROVE  IInv'
<1>. DEFINE due == {x \in plans \X us \X ds :
                    /\ x[2] \in x[1].teachers
                    /\ DayOf[x[1].course] = TodayDayName(x[3])}
            ps == {x[1] : x \in due}
            slots == {<<x[1].id, x[2], x[3]>> : x \in due}
            n == Materialise(us, ds)
<1>1. plans \subseteq PlanRow /\ ps \subseteq plans
    BY DEF IInv, TypeOK
<1>2. \A x \in due : x[1].id \in PlanIds /\ x[2] \in Teachers /\ x[3] \in ds
    BY <1>1 DEF PlanRow
<1>3. slots \subseteq PlanIds \X Teachers \X ds
    BY <1>2
<1>4. n = Missing(ps, slots)
    BY DEF Materialise
<1>5. \A x \in slots : OnDay(plans, x[1], x[3])
    BY DEF OnDay
<1>. HIDE DEF due, ps, slots, n
<1>6. IsFiniteSet(slots) /\ slots \subseteq Slots
    BY <1>3, FiniteSlots DEF Slots
<1>7. SubjectsIn(ps) \subseteq Subjects /\ RoomsIn(ps) \subseteq Rooms
    BY <1>1, NeedsTyped
<1>8. n \in Writes /\ n.plans = {} /\ n.slots = slots \ Taken
    BY <1>4, <1>6, <1>7 DEF Missing, Writes
<1>9. IsFiniteSet(n.slots)
    BY <1>6, <1>8, FS_Subset
<1>10. n.slots \cap Taken = {} /\ \A x \in n.slots : OnDay(plans, x[1], x[3])
    BY <1>5, <1>8
<1>11. Fill(w, n)
    BY DEF n
<1>. QED
    BY <1>8, <1>9, <1>10, <1>11, FillKeeps

\* One teacher's day keeps the invariant.
LEMMA TodayStartKeeps ==
    ASSUME IInv, NEW w \in Workers, NEW u \in Teachers, TodayStart(w, u)
    PROVE  IInv'
<1>1. IsFiniteSet({MockToday}) /\ {MockToday} \subseteq Int
    BY TablesAssumption, FS_Singleton
<1>. QED
    BY <1>1, MaterialiseKeeps DEF TodayStart

\* Some teachers' week keeps the invariant.
LEMMA AvailableStartKeeps ==
    ASSUME IInv, NEW w \in Workers, NEW m, NEW g, NEW d \in Todays,
           AvailableStart(w, m, g, d)
    PROVE  IInv'
<1>1. d \in Int /\ Weekday(d) \in Int
    BY TablesAssumption DEF Weekday
<1>2. IsFiniteSet(WeekOf(d)) /\ WeekOf(d) \subseteq Int
    <2>1. d - ((Weekday(d) + 1) % 7) \in Int
        BY <1>1
    <2>2. d - ((Weekday(d) + 1) % 7) + 6 \in Int
        BY <2>1
    <2>. QED
        BY <2>1, <2>2, FS_Interval DEF WeekOf
<1>3. TeachersFor(m, g) \subseteq Teachers
    <2>1. \A s \in SessionIds : SessionIsLive(s) => sessions[s].teacher \in Teachers
        BY DEF IInv, TypeOK, SessionIsLive, SessionRow
    <2>2. \A p \in plans : p.teachers \subseteq Teachers
        BY DEF IInv, TypeOK, PlanRow
    <2>. QED
        BY <2>1, <2>2 DEF TeachersFor
<1>. QED
    BY <1>2, <1>3, MaterialiseKeeps DEF AvailableStart

\* An import starts with nothing written and the first row of its file.
LEMMA ImportStartKeeps ==
    ASSUME IInv, NEW w \in Workers, NEW f \in Files, NEW start \in Starts,
           ImportStart(w, f, start)
    PROVE  IInv'
<1>. DEFINE t == [op |-> "import", new |-> NoWrites, next |-> 1,
                  import |-> [file |-> f, start |-> start]]
<1>1. NoWrites \in Writes /\ NoWrites.plans = {} /\ NoWrites.slots = {}
    BY DEF NoWrites, Writes
<1>2. t \in Tx /\ t.op = "import" /\ t.new = NoWrites
    BY <1>1 DEF Tx, ImportTx, Import
<1>3. Begin(w, t)
    BY DEF ImportStart
<1>4. Done(Taken, t)
    <2>1. Len(f) \in Nat
        BY FilesAssumption
    <2>. QED
        BY <1>1, <2>1 DEF Done
<1>. HIDE DEF t
<1>. QED
    BY <1>1, <1>2, <1>3, <1>4, BeginKeeps, FS_EmptySet

\* A session is about to be passed on, or to have groups added.
LEMMA BeginPatchKeeps ==
    ASSUME IInv, NEW w \in Workers, NEW u \in Teachers, NEW s \in SessionIds,
           NEW v \in Teachers \cup {NULL}, NEW gs \in SUBSET Groups,
           SessionIsLive(s), BeginPatch(w, u, s, v, gs)
    PROVE  IInv'
<1>. DEFINE t == [op |-> "patch", new |-> NoWrites, session |-> s,
                  loaded |-> u, teacher |-> v, groups |-> gs]
<1>1. NoWrites \in Writes /\ NoWrites.plans = {} /\ NoWrites.slots = {}
    BY DEF NoWrites, Writes
<1>2. t \in Tx /\ t.op = "patch" /\ t.new = NoWrites /\ t.session = s
    BY <1>1 DEF Tx, PatchTx
<1>3. Begin(w, t)
    BY DEF BeginPatch
<1>. HIDE DEF t
<1>. QED
    BY <1>1, <1>2, <1>3, BeginKeeps, FS_EmptySet

\* Every request that starts keeps the invariant.
LEMMA StartKeeps ==
    ASSUME IInv, NEW w \in Workers, Start(w)
    PROVE  IInv'
<1>1. ASSUME NEW f \in Files, NEW start \in Starts, ImportStart(w, f, start)
      PROVE  IInv'
    BY <1>1, ImportStartKeeps
<1>2. CASE SyncModulesStart(w)
    BY <1>2, FillModulesKeeps DEF SyncModulesStart
<1>3. ASSUME NEW g \in Groups, MyModulesStart(w, g) PROVE IInv'
    <2>1. {p \in plans : GroupOf[p.course] = g} \subseteq plans
        OBVIOUS
    <2>. QED
        BY <1>3, <2>1, FillModulesKeeps DEF MyModulesStart
<1>4. ASSUME NEW u \in Teachers, TodayStart(w, u) PROVE IInv'
    BY <1>4, TodayStartKeeps
<1>5. ASSUME NEW m \in Subjects, NEW g \in Groups, NEW d \in Todays,
             AvailableStart(w, m, g, d)
      PROVE  IInv'
    BY <1>5, AvailableStartKeeps
<1>6. ASSUME NEW u \in Teachers, NEW s \in SessionIds, NEW v \in Teachers \cup {NULL},
             NEW gs \in SUBSET Groups, PatchStart(w, u, s, v, gs)
      PROVE  IInv'
    <2>1. Unlinked(s, gs) \in SUBSET Groups
        BY DEF Unlinked
    <2>. QED
        BY <1>6, <2>1, BeginPatchKeeps DEF PatchStart
<1>7. ASSUME NEW u \in Teachers, NEW s \in SessionIds, NEW g \in Groups,
             AddGroupStart(w, u, s, g)
      PROVE  IInv'
    <2>1. {g} \in SUBSET Groups /\ NULL \in Teachers \cup {NULL}
        OBVIOUS
    <2>. QED
        BY <1>7, <2>1, BeginPatchKeeps DEF AddGroupStart
<1>. QED
    BY <1>1, <1>2, <1>3, <1>4, <1>5, <1>6, <1>7 DEF Start

\* The classes that one row of a file asks for on a date.
LEMMA RowClasses ==
    ASSUME NEW us, IsFiniteSet(us), NEW p, NEW d, NEW slots, IsFiniteSet(slots),
           \A u \in us : <<p, u, d>> \in slots
    PROVE  Cardinality(ClassesOf(slots, p, d)) >= Cardinality(us)
<1>. DEFINE f == [u \in us |-> <<p, u, d>>]
            T == {f[u] : u \in us}
            C == ClassesOf(slots, p, d)
<1>1. f = [u \in us |-> f[u]] /\ \A u, v \in us : f[u] = f[v] => u = v
    OBVIOUS
<1>2. T \subseteq C /\ C \subseteq slots
    BY DEF ClassesOf
<1>. HIDE DEF C
<1>3. IsFiniteSet(T) /\ Cardinality(T) = Cardinality(us)
    <2>. HIDE DEF f
    <2>. QED
        BY <1>1, InjectiveImage
<1>. HIDE DEF T
<1>4. IsFiniteSet(C)
    BY <1>2, FS_Subset
<1>5. Cardinality(T) <= Cardinality(C)
    BY <1>2, <1>4, FS_Subset
<1>6. Cardinality(C) >= Cardinality(us)
    BY <1>3, <1>4, <1>5, FS_CardinalityType
<1>. QED
    BY <1>6 DEF C

\* A row of a file: its plan, found by its key or new, and the classes that are
\* missing of it.  No other row of the file has its key, so no plan that the
\* import has written already has the id.
LEMMA ImportRowKeeps ==
    ASSUME IInv, NEW w \in Workers, ImportRow(w)
    PROVE  IInv'
<1>. DEFINE t == tx[w]
            row == t.import.file[t.next]
            found == {p \in plans : p.course = row.course}
            days == Generated(t.import.start, row.course)
            plan(p) == [id |-> p, course |-> row.course,
                        teachers |-> row.teachers, room |-> row.room]
            all(p) == {p} \X row.teachers \X days
            n(p) == RowWrites(p, row, days)
            new(p) == Both(t.new, n(p))
            next(p) == [t EXCEPT !.new = new(p), !.next = @ + 1]
<1>1. /\ t # Idle /\ t.op = "import" /\ t.next <= Len(t.import.file)
      /\ UNCHANGED <<plans, sessions, modules, rooms, links, history>>
      /\ \E p \in IF found = {} THEN NextPlan ELSE {q.id : q \in found} :
            /\ ~Clash(w, n(p)) /\ RowIdsLeft(n(p))
            /\ tx' = [tx EXCEPT ![w] = next(p)]
    BY DEF ImportRow
<1>2. t \in ImportTx /\ w \in InFlight /\ Done(Taken, t)
    BY <1>1, Kinds DEF IInv, RequestsInv
<1>3. /\ t.next \in 1..Len(t.import.file) /\ t.import.start \in Starts
      /\ t.import.file \in Files /\ t.import.file \in Seq(FileRow)
      /\ Len(t.import.file) \in Nat /\ row \in FileRow
      /\ IsFiniteSet(row.teachers) /\ Cardinality(row.teachers) \in Nat
    <2>1. t.next \in 1..Len(t.import.file)
        BY <1>1, <1>2, FilesAssumption DEF Done, ImportTx, Import
    <2>. QED
        BY <1>2, <2>1, RowsTyped, FilesAssumption
<1>4. /\ row.course \in Courses /\ DayOf[row.course] \in DOMAIN DayToWeekday
      /\ row.teachers \subseteq Teachers /\ row.room \in Rooms \cup {NULL}
    BY <1>3 DEF FileRow
<1>5. /\ t.new \in Writes /\ IsFiniteSet(t.new.slots)
      /\ t.new.slots \cap Taken = {} /\ OneForEachId(t.new.plans)
      /\ SameCourse(t.new.plans, plans)
    BY <1>2 DEF ImportTx, IInv, RoomInv, SlotsInv, PlansInv
<1>6. \A d \in days : d \in Int /\ TodayDayName(d) = DayOf[row.course]
    BY <1>3, <1>4, DatesMeetDays
<1>7. IsFiniteSet(days)
    BY FiniteDates
<1>8. /\ plans \subseteq PlanRow /\ OneForEachId(plans)
      /\ InFlight \subseteq Workers
    BY DEF IInv, TypeOK, PlansInv, InFlight
<1>. HIDE DEF t, row, days
<1>9. PICK p \in IF found = {} THEN NextPlan ELSE {q.id : q \in found} :
            /\ ~Clash(w, n(p)) /\ RowIdsLeft(n(p))
            /\ tx' = [tx EXCEPT ![w] = next(p)]
    BY <1>1
<1>10. p \in PlanIds
    BY <1>8, <1>9 DEF NextPlan, FreshPlans, PlanRow
<1>11. plan(p) \in PlanRow /\ plan(p).id = p /\ plan(p).course = row.course
    BY <1>4, <1>10 DEF PlanRow
<1>12. IsFiniteSet(all(p)) /\ all(p) \subseteq Slots
    <2>1. all(p) \subseteq PlanIds \X Teachers \X days
        BY <1>4, <1>10
    <2>. HIDE DEF all
    <2>. QED
        BY <1>6, <1>7, <2>1, FiniteSlots DEF Slots
<1>13. /\ SubjectsIn({plan(p)}) \subseteq Subjects
       /\ RoomsIn({plan(p)}) \subseteq Rooms
    <2>. HIDE DEF plan
    <2>. QED
        BY <1>11, NeedsTyped
<1>14. /\ n(p) \in Writes /\ n(p).plans = {plan(p)}
       /\ n(p).slots = all(p) \ Taken
    <2>. DEFINE missing == Missing({plan(p)}, all(p))
    <2>1. n(p) = [missing EXCEPT !.plans = {plan(p)},
                                 !.rooms = IF days # {} /\ row.teachers # {}
                                           THEN @ ELSE {}]
        BY DEF RowWrites
    <2>. HIDE DEF n, plan, all
    <2>2. /\ missing = [plans |-> {},
                        modules |-> SubjectsIn({plan(p)}) \ modules,
                        rooms |-> RoomsIn({plan(p)}) \ rooms,
                        slots |-> all(p) \ Taken]
        BY DEF Missing
    <2>. HIDE DEF missing
    <2>3. n(p) = [plans |-> {plan(p)},
                  modules |-> SubjectsIn({plan(p)}) \ modules,
                  rooms |-> IF days # {} /\ row.teachers # {}
                            THEN RoomsIn({plan(p)}) \ rooms ELSE {},
                  slots |-> all(p) \ Taken]
        BY <2>1, <2>2
    <2>. QED
        BY <1>11, <1>12, <1>13, <2>3 DEF Writes
<1>15. \A x \in all(p) : x[1] = p /\ x[3] \in days
    OBVIOUS
<1>16. \A u \in row.teachers : \A d \in days : <<p, u, d>> \in all(p)
    OBVIOUS
<1>. HIDE DEF all, n, plan
<1>17. /\ new(p) \in Writes /\ new(p).plans = t.new.plans \cup {plan(p)}
       /\ new(p).slots = t.new.slots \cup n(p).slots
    BY <1>5, <1>14 DEF Both, Writes
<1>. HIDE DEF new
<1>18. /\ next(p) \in ImportTx /\ next(p) \in Tx /\ next(p).new = new(p)
       /\ next(p).op = "import" /\ next(p).next = t.next + 1
       /\ next(p).import = t.import
    <2>. DEFINE c == t.next + 1
    <2>1. c \in Nat
        BY <1>3
    <2>2. next(p) = [t EXCEPT !.new = new(p), !.next = c]
        OBVIOUS
    <2>. HIDE DEF c, next
    <2>3. next(p) \in ImportTx /\ next(p).new = new(p) /\ next(p).next = c
          /\ next(p).import = t.import
        BY <1>2, <1>17, <2>1, <2>2 DEF ImportTx
    <2>. QED
        BY <2>3 DEF ImportTx, Tx, c
<1>. HIDE DEF next
<1>19. \A v \in InFlight \ {w} :
            /\ NoSharedId(tx[v].new.plans, new(p).plans)
            /\ tx[v].new.slots \cap new(p).slots = {}
    <2>. TAKE v \in InFlight \ {w}
    <2>1. /\ n(p).slots \cap tx[v].new.slots = {}
          /\ NoSharedId(tx[v].new.plans, n(p).plans)
        BY <1>9, ClashFree
    <2>2. /\ t.new.slots \cap tx[v].new.slots = {}
          /\ NoSharedId(tx[v].new.plans, t.new.plans)
        BY <1>2 DEF IInv, SlotsInv, PlansInv, t
    <2>. QED
        BY <1>14, <1>17, <2>1, <2>2 DEF NoSharedId
\* No plan of the import has the id p, by the file's keys.
<1>20. \A q \in t.new.plans : q.id # p /\ q.course # row.course
    <2>. TAKE q \in t.new.plans
    <2>1. PICK k \in 1..(t.next - 1) : q.course = t.import.file[k].course
        BY <1>2 DEF Done
    <2>2. q.course # row.course
        <3>1. k \in DOMAIN t.import.file /\ t.next \in DOMAIN t.import.file
              /\ k # t.next
            BY <1>3
        <3>. QED
            BY <1>3, <2>1, <3>1, FilesAssumption DEF row
    <2>3. CASE found = {}
        <3>1. p \in FreshPlans
            BY <1>9, <2>3 DEF NextPlan
        <3>2. q \in UNION {tx[v].new.plans : v \in InFlight}
            BY <1>2 DEF t
        <3>. QED
            BY <2>2, <3>1, <3>2 DEF FreshPlans
    <2>4. CASE found # {}
        <3>1. PICK r \in found : p = r.id
            BY <1>9, <2>4
        <3>. QED
            BY <1>5, <2>2, <3>1 DEF SameCourse
    <2>. QED
        BY <2>2, <2>3, <2>4
<1>21. OneForEachId(new(p).plans)
    BY <1>5, <1>11, <1>17, <1>20 DEF OneForEachId
<1>22. SameCourse(new(p).plans, plans)
    <2>1. \A r \in plans : r.id = p => r.course = row.course
        <3>1. CASE found = {}
            BY <1>9, <3>1 DEF NextPlan, FreshPlans
        <3>2. CASE found # {}
            BY <1>8, <1>9, <3>2 DEF OneForEachId
        <3>. QED
            BY <3>1, <3>2
    <2>. QED
        BY <1>5, <1>11, <1>17, <2>1 DEF SameCourse
<1>. HIDE DEF found
<1>23. \A x \in new(p).slots : OnDay(plans \cup new(p).plans, x[1], x[3])
    <2>. TAKE x \in new(p).slots
    <2>1. CASE x \in t.new.slots
        BY <1>2, <1>17, <2>1 DEF IInv, DaysInv, OnDay, t
    <2>2. CASE x \in n(p).slots
        BY <1>6, <1>11, <1>14, <1>15, <1>17, <2>2 DEF OnDay
    <2>. QED
        BY <1>17, <2>1, <2>2
<1>24. IsFiniteSet(n(p).slots) /\ IsFiniteSet(new(p).slots)
    <2>1. IsFiniteSet(n(p).slots)
        BY <1>12, <1>14, FS_Subset
    <2>2. IsFiniteSet(t.new.slots \cup n(p).slots)
        BY <1>5, <2>1, FS_Union
    <2>. QED
        BY <1>17, <2>1, <2>2
<1>25. new(p).slots \cap Taken = {} /\ t.new.slots \subseteq new(p).slots
    BY <1>5, <1>14, <1>17
<1>26. Cardinality(new(p).slots \cup Asked) <= Cardinality(FreeIds)
    <2>1. Cardinality(n(p).slots \cup Asked) <= Cardinality(FreeIds)
        BY <1>9 DEF RowIdsLeft, Asked
    <2>2. t.new.slots \subseteq Asked
        BY <1>2 DEF Asked, t
    <2>3. new(p).slots \cup Asked = n(p).slots \cup Asked
        BY <1>17, <2>2
    <2>. QED
        BY <2>1, <2>3
<1>27. Done(Taken, next(p))
    <2>. DEFINE less == Taken \cup t.new.slots
                more == Taken \cup new(p).slots
    <2>1. IsFiniteSet(Taken)
        BY FiniteTables DEF IInv, RoomInv
    <2>2. less \subseteq more /\ IsFiniteSet(more)
        BY <1>24, <1>25, <2>1, FS_Union
    <2>3. IsFiniteSet(less)
        BY <2>2, FS_Subset
    <2>4. \A q, d : Cardinality(ClassesOf(less, q, d))
                        <= Cardinality(ClassesOf(more, q, d))
        BY <2>2, ClassesGrow
    <2>5. Given(more, p, row, t.import.start)
        <3>. SUFFICES ASSUME NEW d \in Generated(t.import.start, row.course)
                      PROVE  Cardinality(ClassesOf(more, p, d))
                                >= Cardinality(row.teachers)
            BY DEF Given
        <3>1. \A u \in row.teachers : <<p, u, d>> \in more
            BY <1>14, <1>16, <1>17 DEF days
        <3>. HIDE DEF more
        <3>. QED
            BY <1>3, <2>2, <3>1, RowClasses
    <2>6. ASSUME NEW k \in 1..(next(p).next - 1)
          PROVE  \E q \in new(p).plans :
                    /\ q.course = t.import.file[k].course
                    /\ Given(more, q.id, t.import.file[k], t.import.start)
        <3>1. CASE k = t.next
            BY <1>11, <1>17, <2>5, <3>1 DEF row
        <3>2. CASE k # t.next
            <4>1. k \in 1..(t.next - 1) /\ k \in 1..Len(t.import.file)
                BY <1>3, <1>18, <3>2
            <4>2. PICK q \in t.new.plans :
                    /\ q.course = t.import.file[k].course
                    /\ Given(less, q.id, t.import.file[k], t.import.start)
                BY <1>2, <4>1 DEF Done
            <4>3. Cardinality(t.import.file[k].teachers) \in Nat
                BY <1>2, <4>1, RowsTyped
            <4>. HIDE DEF less, more
            <4>4. Given(more, q.id, t.import.file[k], t.import.start)
                BY <2>2, <2>3, <2>4, <4>2, <4>3, GivenKept
            <4>. QED
                BY <1>17, <4>2, <4>4
        <3>. QED
            BY <3>1, <3>2
    <2>7. ASSUME NEW q \in new(p).plans
          PROVE  \E k \in 1..(next(p).next - 1) :
                    q.course = t.import.file[k].course
        <3>1. CASE q \in t.new.plans
            <4>1. PICK k \in 1..(t.next - 1) : q.course = t.import.file[k].course
                BY <1>2, <3>1 DEF Done
            <4>2. k \in 1..(next(p).next - 1)
                BY <1>3, <1>18
            <4>. QED
                BY <4>1, <4>2
        <3>2. CASE q = plan(p)
            <4>1. t.next \in 1..(next(p).next - 1)
                BY <1>3, <1>18
            <4>. QED
                BY <1>11, <3>2, <4>1 DEF row
        <3>. QED
            BY <1>17, <3>1, <3>2
    <2>8. next(p).next \in 1..(Len(next(p).import.file) + 1)
        BY <1>3, <1>18
    <2>. QED
        BY <1>18, <2>6, <2>7, <2>8 DEF Done
<1>28. tx[w].new.slots \subseteq new(p).slots
    BY <1>25 DEF t
<1>29. UNCHANGED <<plans, sessions, modules, rooms, links, history>>
    BY <1>1
<1>. QED
    BY <1>9, <1>18, <1>19, <1>21, <1>22, <1>23, <1>24, <1>25, <1>26, <1>27,
       <1>28, <1>29, Filled
-----------------------------------------------------------------------------
(* The invariant is inductive: commits.                                    *)

\* The sessions that are inserted get ids of their own, and the others stay.
LEMMA InsertedRows ==
    ASSUME TypeOK, NEW slots, slots \subseteq Slots, IsFiniteSet(slots),
           IsFiniteSet(FreeIds), Cardinality(slots) <= Cardinality(FreeIds),
           sessions' = Inserted(slots)
    PROVE  \E id \in [slots -> FreeIds] :
            /\ \A x, y \in slots : id[x] = id[y] => x = y
            /\ \A x \in slots : /\ SlotOf(sessions'[id[x]]) = x
                                /\ sessions'[id[x]].plan = x[1]
                                /\ sessions'[id[x]].date = x[3]
                                /\ sessions'[id[x]] \in SessionRow
            /\ \A s \in SessionIds :
                    (\A x \in slots : id[x] # s) => sessions'[s] = sessions[s]
            /\ sessions' \in [SessionIds -> SessionRow \cup {Free}]
<1>. DEFINE id == CHOOSE g \in [slots -> FreeIds] : IsInjective(g)
            at(s) == CHOOSE x \in slots : id[x] = s
<1>1. id \in [slots -> FreeIds] /\ IsInjective(id)
    <2>1. \E g \in [slots -> FreeIds] : IsInjective(g)
        BY InjectionExists
    <2>. QED
        BY <2>1
<1>2. sessions' = [s \in SessionIds |->
            IF s \in Range(id)
            THEN [plan |-> at(s)[1], teacher |-> at(s)[2], date |-> at(s)[3]]
            ELSE sessions[s]]
    BY DEF Inserted
<1>. HIDE DEF id
<1>3. \A x, y \in slots : id[x] = id[y] => x = y
    BY <1>1 DEF IsInjective
<1>4. \A s \in SessionIds : s \in Range(id) <=> \E x \in slots : id[x] = s
    BY <1>1 DEF Range
<1>5. \A x \in slots : at(id[x]) = x /\ id[x] \in SessionIds
    BY <1>1, <1>3 DEF FreeIds
<1>6. \A x \in slots : x = <<x[1], x[2], x[3]>> /\ x[1] \in PlanIds
                       /\ x[2] \in Teachers /\ x[3] \in Int
    BY DEF Slots
<1>7. ASSUME NEW x \in slots
      PROVE  /\ SlotOf(sessions'[id[x]]) = x
             /\ sessions'[id[x]].plan = x[1]
             /\ sessions'[id[x]].date = x[3]
             /\ sessions'[id[x]] \in SessionRow
    <2>1. sessions'[id[x]] = [plan |-> at(id[x])[1], teacher |-> at(id[x])[2],
                              date |-> at(id[x])[3]]
        BY <1>2, <1>4, <1>5
    <2>2. sessions'[id[x]] = [plan |-> x[1], teacher |-> x[2], date |-> x[3]]
        BY <1>5, <2>1
    <2>. QED
        BY <1>6, <2>2 DEF SlotOf, SessionRow
<1>8. \A s \in SessionIds :
            (\A x \in slots : id[x] # s) => sessions'[s] = sessions[s]
    BY <1>2, <1>4
<1>9. sessions' \in [SessionIds -> SessionRow \cup {Free}]
    <2>1. \A s \in SessionIds : sessions'[s] \in SessionRow \cup {Free}
        <3>. TAKE s \in SessionIds
        <3>1. CASE \E x \in slots : id[x] = s
            BY <1>7, <3>1
        <3>2. CASE \A x \in slots : id[x] # s
            BY <1>8, <3>2 DEF TypeOK
        <3>. QED
            BY <3>1, <3>2
    <2>. QED
        BY <1>2, <2>1
<1>. QED
    BY <1>1, <1>3, <1>7, <1>8, <1>9

\* A commit adds what the request has asked for to the slots, and nothing else.
LEMMA StoredSlots ==
    ASSUME IInv, NEW w \in InFlight, Store(w)
    PROVE  /\ sessions' \in [SessionIds -> SessionRow \cup {Free}]
           /\ Taken' = Taken \cup tx[w].new.slots
           /\ \A s, r \in SessionIds :
                SessionIsLive(s)' /\ SessionIsLive(r)' =>
                    (SlotOf(sessions'[s]) = SlotOf(sessions'[r]) => s = r)
           /\ \A s \in SessionIds :
                SessionIsLive(s) => sessions'[s] = sessions[s]
           /\ \A s \in SessionIds : SessionIsLive(s)' /\ ~SessionIsLive(s) =>
                \E x \in tx[w].new.slots : /\ sessions'[s].plan = x[1]
                                           /\ sessions'[s].date = x[3]
           /\ FreeIds' \subseteq FreeIds
           /\ IsFiniteSet(FreeIds \ FreeIds')
           /\ Cardinality(FreeIds \ FreeIds') = Cardinality(tx[w].new.slots)
<1>. DEFINE slots == tx[w].new.slots
            live == {i \in SessionIds : SessionIsLive(i)}
<1>1. w \in Workers /\ tx[w] \in Tx /\ sessions' = Inserted(slots)
    BY Kinds DEF InFlight, Store, IInv
<1>2. /\ slots \subseteq Slots /\ IsFiniteSet(slots) /\ slots \cap Taken = {}
    BY <1>1, WritesTyped DEF IInv, RoomInv, SlotsInv
<1>3. IsFiniteSet(FreeIds) /\ IsFiniteSet(Asked)
    BY FiniteTables DEF IInv, RoomInv
<1>4. slots \subseteq Asked
    BY DEF Asked
<1>. HIDE DEF slots
<1>5. Cardinality(slots) <= Cardinality(FreeIds)
    <2>1. Cardinality(slots) <= Cardinality(Asked)
        BY <1>3, <1>4, FS_Subset
    <2>. QED
        BY <1>2, <1>3, <2>1, FS_CardinalityType DEF IInv, RoomInv
<1>6. TypeOK
    BY DEF IInv
<1>7. PICK id \in [slots -> FreeIds] :
            /\ \A x, y \in slots : id[x] = id[y] => x = y
            /\ \A x \in slots : /\ SlotOf(sessions'[id[x]]) = x
                                /\ sessions'[id[x]].plan = x[1]
                                /\ sessions'[id[x]].date = x[3]
                                /\ sessions'[id[x]] \in SessionRow
            /\ \A s \in SessionIds :
                    (\A x \in slots : id[x] # s) => sessions'[s] = sessions[s]
            /\ sessions' \in [SessionIds -> SessionRow \cup {Free}]
    BY <1>1, <1>2, <1>3, <1>5, <1>6, InsertedRows
<1>8. \A x \in slots : /\ id[x] \in SessionIds /\ ~SessionIsLive(id[x])
                       /\ SessionIsLive(id[x])'
    BY <1>7, MarksAssumption DEF FreeIds, SessionIsLive
<1>9. \A s \in SessionIds : SessionIsLive(s) => sessions'[s] = sessions[s]
    BY <1>7, <1>8
<1>10. \A s \in SessionIds :
            SessionIsLive(s)' <=> SessionIsLive(s) \/ \E x \in slots : id[x] = s
    <2>. TAKE s \in SessionIds
    <2>1. CASE \E x \in slots : id[x] = s
        BY <1>8, <2>1
    <2>2. CASE \A x \in slots : id[x] # s
        BY <1>7, <2>2 DEF SessionIsLive
    <2>. QED
        BY <2>1, <2>2
<1>11. Taken' = Taken \cup slots
    <2>1. ASSUME NEW y \in Taken' PROVE y \in Taken \cup slots
        <3>1. PICK s \in SessionIds : SessionIsLive(s)' /\ y = SlotOf(sessions'[s])
            BY <2>1 DEF Taken, SlotOf
        <3>. QED
            BY <1>7, <1>9, <1>10, <3>1 DEF Taken
    <2>2. ASSUME NEW y \in Taken PROVE y \in Taken'
        <3>1. PICK s \in SessionIds : SessionIsLive(s) /\ y = SlotOf(sessions[s])
            BY <2>2 DEF Taken
        <3>2. SessionIsLive(s)' /\ y = SlotOf(sessions'[s])
            BY <1>9, <1>10, <3>1
        <3>. QED
            BY <3>2 DEF Taken, SlotOf
    <2>3. ASSUME NEW y \in slots PROVE y \in Taken'
        <3>1. SessionIsLive(id[y])' /\ y = SlotOf(sessions'[id[y]])
              /\ id[y] \in SessionIds
            BY <1>7, <1>8
        <3>. DEFINE s == id[y]
        <3>2. s \in SessionIds /\ sessions'[s] # Free /\ y = SlotOf(sessions'[s])
            BY <3>1 DEF SessionIsLive
        <3>. HIDE DEF s
        <3>. QED
            BY <3>2 DEF Taken, SlotOf, SessionIsLive
    <2>. QED
        BY <2>1, <2>2, <2>3
<1>12. ASSUME NEW s \in SessionIds, NEW r \in SessionIds,
              SessionIsLive(s)', SessionIsLive(r)',
              SlotOf(sessions'[s]) = SlotOf(sessions'[r])
       PROVE  s = r
    <2>1. \A i \in SessionIds : SessionIsLive(i) => SlotOf(sessions[i]) \in Taken
        BY DEF Taken
    <2>2. CASE SessionIsLive(s) /\ SessionIsLive(r)
        BY <1>9, <1>12, <2>2 DEF IInv, SlotsInv
    <2>3. CASE SessionIsLive(s) /\ ~SessionIsLive(r)
        BY <1>2, <1>7, <1>9, <1>10, <1>12, <2>1, <2>3
    <2>4. CASE ~SessionIsLive(s) /\ SessionIsLive(r)
        BY <1>2, <1>7, <1>9, <1>10, <1>12, <2>1, <2>4
    <2>5. CASE ~SessionIsLive(s) /\ ~SessionIsLive(r)
        BY <1>7, <1>10, <1>12, <2>5
    <2>. QED
        BY <2>2, <2>3, <2>4, <2>5
<1>13. /\ FreeIds' \subseteq FreeIds
       /\ FreeIds \ FreeIds' = {id[x] : x \in slots}
    BY <1>8, <1>10 DEF FreeIds
<1>14. /\ IsFiniteSet(FreeIds \ FreeIds')
       /\ Cardinality(FreeIds \ FreeIds') = Cardinality(slots)
    BY <1>2, <1>7, <1>13, InjectiveImage
<1>15. \A s \in SessionIds : SessionIsLive(s)' /\ ~SessionIsLive(s) =>
            \E x \in slots : sessions'[s].plan = x[1] /\ sessions'[s].date = x[3]
    BY <1>7, <1>10
<1>. QED
    BY <1>7, <1>9, <1>11, <1>12, <1>13, <1>14, <1>15 DEF slots

\* Each plan keeps its course when a request stores its plans.
LEMMA StoredPlans ==
    ASSUME IInv, NEW w \in InFlight, Store(w)
    PROVE  /\ plans' \subseteq PlanRow /\ OneForEachId(plans')
           /\ tx[w].new.plans \subseteq plans'
           /\ plans' \subseteq plans \cup tx[w].new.plans
           /\ \A p \in plans : \E q \in plans' :
                    q.id = p.id /\ q.course = p.course
<1>. DEFINE n == tx[w].new.plans
            ids == {p.id : p \in n}
<1>1. plans' = {p \in plans : p.id \notin ids} \cup n
    BY DEF Store
<1>2. /\ n \subseteq PlanRow /\ plans \subseteq PlanRow
      /\ OneForEachId(plans) /\ OneForEachId(n) /\ SameCourse(n, plans)
    BY Kinds, WritesTyped DEF IInv, TypeOK, PlansInv, InFlight
<1>. HIDE DEF n
<1>3. \A p \in plans : \E q \in plans' : q.id = p.id /\ q.course = p.course
    <2>. TAKE p \in plans
    <2>1. CASE p.id \in ids
        BY <1>1, <1>2, <2>1 DEF SameCourse
    <2>2. CASE p.id \notin ids
        BY <1>1, <2>2
    <2>. QED
        BY <2>1, <2>2
<1>4. OneForEachId(plans')
    BY <1>1, <1>2 DEF OneForEachId
<1>. QED
    BY <1>1, <1>2, <1>3, <1>4 DEF n

\* A day that a plan has, it keeps as long as its id keeps its course.
LEMMA DaysKept ==
    ASSUME NEW ps, NEW qs, NEW id, NEW date, OnDay(ps, id, date),
           \A p \in ps : \E q \in qs : q.id = p.id /\ q.course = p.course
    PROVE  OnDay(qs, id, date)
BY DEF OnDay

\* The commit of what a request has inserted keeps the invariant: the plans,
\* days and slots move from the request into the tables, and other requests
\* only see more classes.
LEMMA StoreKeeps ==
    ASSUME IInv, NEW w \in InFlight, Store(w), history' \subseteq Import
    PROVE  IInv'
<1>. DEFINE n == tx[w].new
<1>1. /\ w \in Workers /\ tx[w] \in Tx /\ tx' = [tx EXCEPT ![w] = Idle]
      /\ modules' = modules \cup n.modules /\ rooms' = rooms \cup n.rooms
      /\ links' = links /\ TypeOK
    BY Kinds DEF IInv, InFlight, Store
<1>2. /\ n.modules \subseteq Subjects /\ n.rooms \subseteq Rooms
    BY <1>1, WritesTyped
<1>3. /\ sessions' \in [SessionIds -> SessionRow \cup {Free}]
      /\ Taken' = Taken \cup n.slots
      /\ \A s, r \in SessionIds :
            SessionIsLive(s)' /\ SessionIsLive(r)' =>
                (SlotOf(sessions'[s]) = SlotOf(sessions'[r]) => s = r)
      /\ \A s \in SessionIds : SessionIsLive(s) => sessions'[s] = sessions[s]
      /\ \A s \in SessionIds : SessionIsLive(s)' /\ ~SessionIsLive(s) =>
            \E x \in n.slots : sessions'[s].plan = x[1] /\ sessions'[s].date = x[3]
      /\ FreeIds' \subseteq FreeIds /\ IsFiniteSet(FreeIds \ FreeIds')
      /\ Cardinality(FreeIds \ FreeIds') = Cardinality(n.slots)
    BY StoredSlots
<1>4. /\ plans' \subseteq PlanRow /\ OneForEachId(plans')
      /\ n.plans \subseteq plans' /\ plans' \subseteq plans \cup n.plans
      /\ \A p \in plans : \E q \in plans' : q.id = p.id /\ q.course = p.course
    BY StoredPlans
<1>5. /\ tx'[w] = Idle /\ \A v \in Workers \ {w} : tx'[v] = tx[v]
      /\ InFlight' = InFlight \ {w} /\ InFlight \subseteq Workers
    BY <1>1, OthersSame DEF InFlight
<1>6. /\ IsFiniteSet(n.slots) /\ n.slots \cap Taken = {}
      /\ \A x \in n.slots : OnDay(plans \cup n.plans, x[1], x[3])
    BY DEF IInv, RoomInv, SlotsInv, DaysInv
<1>. HIDE DEF n
<1>7. DaysInv'
    <2>1. ASSUME NEW s \in SessionIds, SessionIsLive(s)'
          PROVE  OnDay(plans', sessions'[s].plan, sessions'[s].date)
        <3>1. CASE SessionIsLive(s)
            <4>1. OnDay(plans, sessions[s].plan, sessions[s].date)
                BY <3>1 DEF IInv, DaysInv
            <4>. QED
                BY <1>3, <1>4, <3>1, <4>1, DaysKept
        <3>2. CASE ~SessionIsLive(s)
            <4>1. PICK x \in n.slots :
                    sessions'[s].plan = x[1] /\ sessions'[s].date = x[3]
                BY <1>3, <2>1, <3>2
            <4>2. OnDay(plans \cup n.plans, x[1], x[3])
                BY <1>6
            <4>3. \A p \in plans \cup n.plans : \E q \in plans' :
                        q.id = p.id /\ q.course = p.course
                BY <1>4
            <4>4. OnDay(plans', x[1], x[3])
                BY <4>2, <4>3, DaysKept
            <4>. QED
                BY <4>1, <4>4
        <3>. QED
            BY <3>1, <3>2
    <2>2. ASSUME NEW v \in InFlight', NEW x \in tx'[v].new.slots
          PROVE  OnDay(plans' \cup tx'[v].new.plans, x[1], x[3])
        <3>1. v \in InFlight /\ tx'[v] = tx[v]
            BY <1>5
        <3>2. OnDay(plans \cup tx[v].new.plans, x[1], x[3])
            BY <2>2, <3>1 DEF IInv, DaysInv
        <3>3. \A p \in plans \cup tx[v].new.plans :
                \E q \in plans' \cup tx[v].new.plans :
                        q.id = p.id /\ q.course = p.course
            BY <1>4
        <3>4. OnDay(plans' \cup tx[v].new.plans, x[1], x[3])
            BY <3>2, <3>3, DaysKept
        <3>. QED
            BY <3>1, <3>4
    <2>. QED
        BY <2>1, <2>2 DEF DaysInv, OnDay, TodayDayName, Weekday
<1>8. TypeOK'
    <2>1. \A r \in Range(sessions)' \ {Free} : \E p \in plans' : p.id = r.plan
        BY <1>3, <1>7 DEF DaysInv, OnDay, Range, SessionIsLive
    <2>2. tx' \in [Workers -> ImportTx \cup FillTx \cup PatchTx \cup {Idle}]
        BY <1>1 DEF TypeOK
    <2>. QED
        BY <1>1, <1>2, <1>3, <1>4, <2>1, <2>2 DEF TypeOK
<1>9. PlansInv'
    <2>1. ASSUME NEW v \in InFlight'
          PROVE  /\ OneForEachId(tx'[v].new.plans)
                 /\ SameCourse(tx'[v].new.plans, plans')
        <3>1. v \in InFlight \ {w} /\ tx'[v] = tx[v]
            BY <1>5
        <3>2. /\ OneForEachId(tx[v].new.plans) /\ SameCourse(tx[v].new.plans, plans)
              /\ NoSharedId(tx[v].new.plans, n.plans)
            BY <3>1 DEF IInv, PlansInv, n
        <3>. QED
            BY <1>4, <3>1, <3>2 DEF SameCourse, NoSharedId
    <2>2. \A u, v \in InFlight' :
            u # v => NoSharedId(tx'[u].new.plans, tx'[v].new.plans)
        BY <1>5 DEF IInv, PlansInv
    <2>. QED
        BY <1>4, <2>1, <2>2 DEF PlansInv, OneForEachId, SameCourse, NoSharedId
<1>10. SlotsInv'
    <2>1. \A v \in InFlight' : tx'[v].new.slots \cap Taken' = {}
        BY <1>3, <1>5 DEF IInv, SlotsInv, n
    <2>2. \A u, v \in InFlight' :
            u # v => tx'[u].new.slots \cap tx'[v].new.slots = {}
        BY <1>5 DEF IInv, SlotsInv
    <2>. QED
        BY <1>3, <2>1, <2>2 DEF SlotsInv, SlotOf
<1>11. RoomInv'
    <2>1. \A v \in InFlight' : IsFiniteSet(tx'[v].new.slots)
        BY <1>5 DEF IInv, RoomInv
    <2>2. Asked' = Asked \ n.slots
        <3>1. \A v \in InFlight \ {w} : tx[v].new.slots \cap n.slots = {}
            BY DEF IInv, SlotsInv, n
        <3>2. Asked' = UNION {tx[v].new.slots : v \in InFlight \ {w}}
            BY <1>5 DEF Asked
        <3>3. Asked = n.slots \cup UNION {tx[v].new.slots : v \in InFlight \ {w}}
            BY DEF Asked, n
        <3>. QED
            BY <3>1, <3>2, <3>3
    <2>3. n.slots \subseteq Asked /\ FreeIds' = FreeIds \ (FreeIds \ FreeIds')
        BY <1>3 DEF Asked, n
    <2>4. IsFiniteSet(Asked) /\ IsFiniteSet(FreeIds) /\ IsFiniteSet(Asked')
        <3>1. IsFiniteSet(Asked) /\ IsFiniteSet(FreeIds)
            BY FiniteTables DEF IInv, RoomInv
        <3>. QED
            BY <2>2, <3>1, FS_Difference
    <2>5. Cardinality(Asked') = Cardinality(Asked) - Cardinality(n.slots)
        <3>1. Asked \cap n.slots = n.slots
            BY <2>3
        <3>. QED
            BY <2>2, <2>4, <3>1, FS_Difference
    <2>6. Cardinality(FreeIds') = Cardinality(FreeIds) - Cardinality(n.slots)
        <3>. DEFINE used == FreeIds \ FreeIds'
        <3>1. FreeIds \cap used = used /\ FreeIds' = FreeIds \ used
            BY <2>3
        <3>2. Cardinality(FreeIds \ used)
                = Cardinality(FreeIds) - Cardinality(FreeIds \cap used)
            BY <2>4, FS_Difference
        <3>. QED
            BY <1>3, <3>1, <3>2
    <2>7. Cardinality(Asked) <= Cardinality(FreeIds)
        BY DEF IInv, RoomInv
    <2>8. /\ Cardinality(Asked) \in Nat /\ Cardinality(FreeIds) \in Nat
          /\ Cardinality(n.slots) \in Nat
        BY <1>6, <2>4, FS_CardinalityType
    <2>9. Cardinality(Asked') <= Cardinality(FreeIds')
        BY <2>5, <2>6, <2>7, <2>8
    <2>. QED
        BY <2>1, <2>9 DEF RoomInv
<1>12. RequestsInv'
    <2>1. IsFiniteSet(Taken) /\ IsFiniteSet(Taken')
        <3>1. IsFiniteSet(Taken)
            BY FiniteTables DEF IInv, RoomInv
        <3>2. IsFiniteSet(Taken \cup n.slots)
            BY <1>6, <3>1, FS_Union
        <3>. QED
            BY <1>3, <3>1, <3>2
    <2>2. ASSUME NEW v \in InFlight'
          PROVE  /\ tx'[v].op = "import" => Done(Taken, tx[v])'
                 /\ tx'[v].op # "import" => tx'[v].new.plans = {}
                 /\ tx'[v].op = "patch" => tx'[v].new = NoWrites
                 /\ tx'[v].op = "patch" => sessions'[tx'[v].session] # Free
        <3>1. v \in InFlight \ {w} /\ v \in Workers /\ tx'[v] = tx[v]
              /\ tx[v] # Idle
            BY <1>5 DEF InFlight
        <3>2. ASSUME tx[v].op = "import"
              PROVE  Done(Taken', tx[v])
            <4>1. tx[v] \in ImportTx /\ Done(Taken, tx[v])
                  /\ IsFiniteSet(tx[v].new.slots)
                BY <1>1, <3>1, <3>2, Kinds DEF IInv, RequestsInv, RoomInv
            <4>2. Taken \subseteq Taken'
                BY <1>3
            <4>. QED
                BY <2>1, <4>1, <4>2, DoneGrows
        <3>3. ASSUME tx[v].op = "patch"
              PROVE  sessions'[tx[v].session] # Free
            <4>1. tx[v] \in PatchTx /\ SessionIsLive(tx[v].session)
                BY <1>1, <3>1, <3>3, Kinds DEF IInv, RequestsInv
            <4>2. tx[v].session \in SessionIds
                BY <4>1 DEF PatchTx
            <4>. QED
                BY <1>3, <4>1, <4>2 DEF SessionIsLive
        <3>4. tx'[v].op = "import" => Done(Taken, tx[v])'
            BY <3>1, <3>2
        <3>. QED
            BY <3>1, <3>3, <3>4 DEF IInv, RequestsInv
    <2>. QED
        BY <2>2 DEF RequestsInv, SessionIsLive
<1>. QED
    BY <1>7, <1>8, <1>9, <1>10, <1>11, <1>12 DEF IInv

\* A session that changes hands stays on its plan and date, and its new slot is
\* nobody's; the old one goes, and no other session had it.
LEMMA PatchedSlots ==
    ASSUME IInv, NEW w \in Workers, PatchCommit(w)
    PROVE  /\ sessions' \in [SessionIds -> SessionRow \cup {Free}]
           /\ \A s \in SessionIds : SessionIsLive(s)' <=> SessionIsLive(s)
           /\ \A s \in SessionIds : SessionIsLive(s) =>
                    /\ sessions'[s].plan = sessions[s].plan
                    /\ sessions'[s].date = sessions[s].date
           /\ \A s, r \in SessionIds :
                SessionIsLive(s)' /\ SessionIsLive(r)' =>
                    (SlotOf(sessions'[s]) = SlotOf(sessions'[r]) => s = r)
           /\ \/ Taken' = Taken
              \/ \E c \in Taken : \E e :
                    /\ e \notin Taken /\ e \notin Held(w, "slots")
                    /\ e[1] = c[1] /\ e[3] = c[3]
                    /\ Taken' = (Taken \ {c}) \cup {e}
<1>. DEFINE t == tx[w]
            s == t.session
            moved == [sessions[s] EXCEPT !.teacher = t.teacher]
            c == SlotOf(sessions[s])
            e == SlotOf(moved)
<1>1. /\ t # Idle /\ t.op = "patch"
      /\ Moves(t) => SlotIsFree(w, s, e)
      /\ sessions' = IF Moves(t) THEN [sessions EXCEPT ![s] = moved] ELSE sessions
    BY DEF PatchCommit
<1>2. t \in PatchTx /\ SessionIsLive(s)
    BY <1>1, Kinds DEF IInv, RequestsInv
<1>3. /\ s \in SessionIds /\ t.teacher \in Teachers \cup {NULL}
      /\ sessions \in [SessionIds -> SessionRow \cup {Free}]
      /\ sessions[s] \in SessionRow
    BY <1>2 DEF PatchTx, IInv, TypeOK, SessionIsLive
<1>4. CASE ~Moves(t)
    <2>1. sessions' = sessions
        BY <1>1, <1>4
    <2>. QED
        BY <1>3, <2>1 DEF Taken, SessionIsLive, SlotOf, IInv, SlotsInv
<1>5. CASE Moves(t)
    <2>1. t.teacher \in Teachers
        BY <1>3, <1>5 DEF Moves
    <2>2. /\ moved \in SessionRow /\ moved.plan = sessions[s].plan
          /\ moved.date = sessions[s].date /\ moved.teacher = t.teacher
        BY <1>3, <2>1 DEF SessionRow
    <2>3. /\ e \notin {SlotOf(sessions[r]) : r \in
                            {i \in SessionIds : SessionIsLive(i)} \ {s}}
          /\ e \notin Held(w, "slots")
        BY <1>1, <1>5 DEF SlotIsFree
    <2>. HIDE DEF s, moved, t
    <2>4. e[1] = c[1] /\ e[3] = c[3]
        BY <2>2 DEF SlotOf
    <2>5. \A i \in SessionIds : sessions'[i] = IF i = s THEN moved ELSE sessions[i]
        BY <1>1, <1>3, <1>5
    <2>6. sessions' \in [SessionIds -> SessionRow \cup {Free}]
        BY <1>1, <1>3, <1>5, <2>2
    <2>7. \A i \in SessionIds : SessionIsLive(i)' <=> SessionIsLive(i)
        BY <1>2, <2>2, <2>5, MarksAssumption DEF SessionIsLive
    <2>8. \A i \in SessionIds : SessionIsLive(i) =>
                    /\ sessions'[i].plan = sessions[i].plan
                    /\ sessions'[i].date = sessions[i].date
        BY <2>2, <2>5
    <2>. DEFINE slots == [i \in SessionIds |-> SlotOf(sessions[i])]
                after == [i \in SessionIds |-> SlotOf(sessions'[i])]
    <2>9. \A i \in SessionIds : after[i] = IF i = s THEN e ELSE slots[i]
        BY <2>5
    <2>10. \A i \in SessionIds : SessionIsLive(i) /\ i # s => slots[i] # e
        BY <2>3
    <2>11. \A i, j \in SessionIds :
                SessionIsLive(i) /\ SessionIsLive(j) /\ slots[i] = slots[j] => i = j
        BY DEF IInv, SlotsInv
    <2>12. slots[s] = c
        BY <1>3
    <2>13. /\ \A x : x \in Taken <=>
                    \E i \in SessionIds : SessionIsLive(i) /\ x = slots[i]
           /\ \A x : x \in Taken' <=>
                    \E i \in SessionIds : SessionIsLive(i) /\ x = after[i]
        <3>1. \A x : x \in Taken' <=>
                \E i \in SessionIds : SessionIsLive(i)' /\ x = SlotOf(sessions'[i])
            BY DEF Taken, SlotOf
        <3>. QED
            BY <2>7, <3>1 DEF Taken
    <2>14. \A i, j \in SessionIds :
                SessionIsLive(i)' /\ SessionIsLive(j)' =>
                    (SlotOf(sessions'[i]) = SlotOf(sessions'[j]) => i = j)
        <3>1. \A i, j \in SessionIds :
                SessionIsLive(i) /\ SessionIsLive(j) /\ after[i] = after[j] => i = j
            <4>. HIDE DEF slots, after, e, c
            <4>. QED
                BY <2>9, <2>10, <2>11
        <3>. QED
            BY <2>7, <3>1
    <2>15. \/ Taken' = Taken
           \/ /\ c \in Taken /\ e \notin Taken
              /\ Taken' = (Taken \ {c}) \cup {e}
        <3>. HIDE DEF slots, after, e, c
        <3>1. CASE e = c
            <4>1. \A i \in SessionIds : after[i] = slots[i]
                BY <2>9, <2>12, <3>1
            <4>. QED
                BY <2>13, <4>1
        <3>2. CASE e # c
            <4>1. c \in Taken /\ e \notin Taken
                BY <1>2, <1>3, <2>10, <2>12, <2>13, <3>2
            <4>2. ASSUME NEW x \in Taken' PROVE x \in (Taken \ {c}) \cup {e}
                <5>1. PICK i \in SessionIds : SessionIsLive(i) /\ x = after[i]
                    BY <2>13, <4>2
                <5>2. CASE i = s
                    BY <2>9, <5>1, <5>2
                <5>3. CASE i # s
                    BY <1>2, <1>3, <2>9, <2>11, <2>12, <2>13, <5>1, <5>3
                <5>. QED
                    BY <5>2, <5>3
            <4>3. ASSUME NEW x \in (Taken \ {c}) \cup {e} PROVE x \in Taken'
                <5>1. CASE x = e
                    BY <1>2, <1>3, <2>9, <2>13, <5>1
                <5>2. CASE x \in Taken \ {c}
                    BY <2>9, <2>12, <2>13, <5>2
                <5>. QED
                    BY <4>3, <5>1, <5>2
            <4>. QED
                BY <4>1, <4>2, <4>3
        <3>. QED
            BY <3>1, <3>2
    <2>. QED
        BY <2>3, <2>4, <2>6, <2>7, <2>8, <2>14, <2>15
<1>. QED
    BY <1>4, <1>5

\* A slot that takes the place of another of the same plan and date leaves as
\* many classes of every plan on every date.
LEMMA ClassesSwapped ==
    ASSUME NEW slots, IsFiniteSet(slots), NEW c \in slots, NEW e, e \notin slots,
           e[1] = c[1], e[3] = c[3], NEW p, NEW d
    PROVE  Cardinality(ClassesOf(slots, p, d))
                <= Cardinality(ClassesOf((slots \ {c}) \cup {e}, p, d))
<1>. DEFINE C == ClassesOf(slots, p, d)
            D == ClassesOf((slots \ {c}) \cup {e}, p, d)
<1>1. C \subseteq slots
    BY DEF ClassesOf
<1>2. CASE c[1] = p /\ c[3] = d
    <2>1. D = (C \ {c}) \cup {e} /\ c \in C /\ e \notin C
        BY <1>2 DEF ClassesOf
    <2>. HIDE DEF C, D
    <2>2. IsFiniteSet(C)
        BY <1>1, FS_Subset
    <2>3. IsFiniteSet(C \ {c}) /\ Cardinality(C \ {c}) = Cardinality(C) - 1
        BY <2>1, <2>2, FS_RemoveElement
    <2>4. Cardinality(D) = Cardinality(C \ {c}) + 1
        BY <2>1, <2>3, FS_AddElement
    <2>5. Cardinality(C) <= Cardinality(D)
        BY <2>2, <2>3, <2>4, FS_CardinalityType
    <2>. QED
        BY <2>5 DEF C, D
<1>3. CASE ~(c[1] = p /\ c[3] = d)
    <2>1. D = C
        BY <1>3 DEF ClassesOf
    <2>. HIDE DEF C, D
    <2>2. IsFiniteSet(C)
        BY <1>1, FS_Subset
    <2>3. Cardinality(C) <= Cardinality(D)
        BY <2>1, <2>2, FS_CardinalityType
    <2>. QED
        BY <2>3 DEF C, D
<1>. QED
    BY <1>2, <1>3

\* The commit of a patch keeps the invariant: what imports have done counts
\* classes, whoever gives them.
LEMMA PatchCommitKeeps ==
    ASSUME IInv, NEW w \in Workers, PatchCommit(w)
    PROVE  IInv'
<1>1. /\ tx[w] # Idle /\ tx[w].op = "patch" /\ tx' = [tx EXCEPT ![w] = Idle]
      /\ links' = links \cup {<<tx[w].session, g>> : g \in tx[w].groups}
      /\ UNCHANGED <<plans, modules, rooms, history>>
    BY DEF PatchCommit
<1>2. w \in InFlight /\ tx[w] \in PatchTx /\ TypeOK /\ tx[w].new = NoWrites
    BY <1>1, Kinds DEF IInv, RequestsInv
<1>3. /\ tx'[w] = Idle /\ \A v \in Workers \ {w} : tx'[v] = tx[v]
      /\ InFlight' = InFlight \ {w} /\ InFlight \subseteq Workers
    BY <1>1, <1>2, OthersSame DEF InFlight
<1>4. /\ sessions' \in [SessionIds -> SessionRow \cup {Free}]
      /\ \A s \in SessionIds : SessionIsLive(s)' <=> SessionIsLive(s)
      /\ \A s \in SessionIds : SessionIsLive(s) =>
                    /\ sessions'[s].plan = sessions[s].plan
                    /\ sessions'[s].date = sessions[s].date
      /\ \A s, r \in SessionIds :
                SessionIsLive(s)' /\ SessionIsLive(r)' =>
                    (SlotOf(sessions'[s]) = SlotOf(sessions'[r]) => s = r)
      /\ \/ Taken' = Taken
         \/ \E c \in Taken : \E e :
                    /\ e \notin Taken /\ e \notin Held(w, "slots")
                    /\ e[1] = c[1] /\ e[3] = c[3]
                    /\ Taken' = (Taken \ {c}) \cup {e}
    BY PatchedSlots
<1>5. DaysInv'
    <2>1. \A s \in SessionIds : SessionIsLive(s)' =>
                OnDay(plans', sessions'[s].plan, sessions'[s].date)
        BY <1>1, <1>4 DEF IInv, DaysInv
    <2>2. \A v \in InFlight' : \A x \in tx'[v].new.slots :
                OnDay(plans' \cup tx'[v].new.plans, x[1], x[3])
        BY <1>1, <1>3 DEF IInv, DaysInv
    <2>. QED
        BY <2>1, <2>2 DEF DaysInv, OnDay, TodayDayName, Weekday
<1>6. TypeOK'
    <2>1. \A r \in Range(sessions)' \ {Free} : \E p \in plans' : p.id = r.plan
        BY <1>4, <1>5 DEF DaysInv, OnDay, Range, SessionIsLive
    <2>2. tx' \in [Workers -> ImportTx \cup FillTx \cup PatchTx \cup {Idle}]
        BY <1>1, <1>2 DEF TypeOK
    <2>3. links' \subseteq SessionIds \X Groups
        BY <1>1, <1>2 DEF TypeOK, PatchTx
    <2>. QED
        BY <1>1, <1>2, <1>4, <2>1, <2>2, <2>3 DEF TypeOK
<1>7. PlansInv'
    <2>1. \A v \in InFlight' : /\ OneForEachId(tx'[v].new.plans)
                               /\ SameCourse(tx'[v].new.plans, plans')
        BY <1>1, <1>3 DEF IInv, PlansInv
    <2>2. \A u, v \in InFlight' :
            u # v => NoSharedId(tx'[u].new.plans, tx'[v].new.plans)
        BY <1>3 DEF IInv, PlansInv
    <2>3. OneForEachId(plans')
        BY <1>1 DEF IInv, PlansInv
    <2>. QED
        BY <2>1, <2>2, <2>3 DEF PlansInv, OneForEachId, SameCourse, NoSharedId
<1>8. \A v \in InFlight' : /\ tx[v].new.slots \subseteq Held(w, "slots")
                           /\ tx[v].new.slots \cap Taken = {}
                           /\ tx[v].new.slots \cap Taken' = {}
    <2>1. \A v \in InFlight' : /\ tx[v].new.slots \subseteq Held(w, "slots")
                               /\ tx[v].new.slots \cap Taken = {}
        BY <1>3 DEF Held, IInv, SlotsInv
    <2>. QED
        BY <1>4, <2>1
<1>9. SlotsInv'
    <2>1. \A v \in InFlight' : tx'[v].new.slots \cap Taken' = {}
        BY <1>3, <1>8
    <2>2. \A u, v \in InFlight' :
            u # v => tx'[u].new.slots \cap tx'[v].new.slots = {}
        BY <1>3 DEF IInv, SlotsInv
    <2>. QED
        BY <1>4, <2>1, <2>2 DEF SlotsInv, SlotOf
<1>10. RoomInv'
    <2>1. \A v \in InFlight' : IsFiniteSet(tx'[v].new.slots)
        BY <1>3 DEF IInv, RoomInv
    <2>2. Asked' = Asked
        <3>1. tx[w].new.slots = {}
            BY <1>2 DEF NoWrites
        <3>. QED
            BY <1>3, <3>1 DEF Asked
    <2>3. FreeIds' = FreeIds
        BY <1>4 DEF FreeIds
    <2>. QED
        BY <2>1, <2>2, <2>3 DEF IInv, RoomInv
<1>11. RequestsInv'
    <2>1. ASSUME NEW v \in InFlight', tx[v].op = "import"
          PROVE  Done(Taken', tx[v])
        <3>1. v \in InFlight /\ v \in Workers /\ tx[v] # Idle
            BY <1>3 DEF InFlight
        <3>2. tx[v] \in ImportTx /\ Done(Taken, tx[v]) /\ IsFiniteSet(tx[v].new.slots)
            BY <1>2, <2>1, <3>1, Kinds DEF IInv, RequestsInv, RoomInv
        <3>3. CASE Taken' = Taken
            BY <3>2, <3>3
        <3>4. ASSUME NEW c \in Taken, NEW e, e \notin Taken, e \notin Held(w, "slots"),
                     e[1] = c[1], e[3] = c[3], Taken' = (Taken \ {c}) \cup {e}
              PROVE  Done(Taken', tx[v])
            <4>. DEFINE less == Taken \cup tx[v].new.slots
                        more == Taken' \cup tx[v].new.slots
            <4>1. IsFiniteSet(Taken) /\ IsFiniteSet(less)
                <5>1. IsFiniteSet(Taken)
                    BY FiniteTables DEF IInv, RoomInv
                <5>. QED
                    BY <3>2, <5>1, FS_Union
            <4>2. more = (less \ {c}) \cup {e} /\ c \in less /\ e \notin less
                BY <1>8, <3>4
            <4>. HIDE DEF less, more
            <4>3. \A q, d : Cardinality(ClassesOf(less, q, d))
                                <= Cardinality(ClassesOf(more, q, d))
                BY <3>4, <4>1, <4>2, ClassesSwapped
            <4>4. IsFiniteSet(more)
                <5>1. IsFiniteSet(less \ {c})
                    BY <4>1, FS_RemoveElement
                <5>. QED
                    BY <4>2, <5>1, FS_AddElement
            <4>. QED
                BY <3>2, <4>1, <4>3, <4>4, DoneKept DEF less, more
        <3>. QED
            BY <1>4, <3>3, <3>4
    <2>2. ASSUME NEW v \in InFlight'
          PROVE  /\ tx'[v].op = "import" => Done(Taken, tx[v])'
                 /\ tx'[v].op # "import" => tx'[v].new.plans = {}
                 /\ tx'[v].op = "patch" => tx'[v].new = NoWrites
                 /\ tx'[v].op = "patch" => sessions'[tx'[v].session] # Free
        <3>1. v \in InFlight /\ v \in Workers /\ tx'[v] = tx[v] /\ tx[v] # Idle
            BY <1>3 DEF InFlight
        <3>2. ASSUME tx[v].op = "patch"
              PROVE  sessions'[tx[v].session] # Free
            <4>1. tx[v] \in PatchTx /\ SessionIsLive(tx[v].session)
                BY <1>2, <3>1, <3>2, Kinds DEF IInv, RequestsInv
            <4>2. tx[v].session \in SessionIds
                BY <4>1 DEF PatchTx
            <4>. QED
                BY <1>4, <4>1, <4>2 DEF SessionIsLive
        <3>3. tx'[v].op = "import" => Done(Taken, tx[v])'
            BY <2>1, <3>1
        <3>. QED
            BY <3>1, <3>2, <3>3 DEF IInv, RequestsInv
    <2>. QED
        BY <2>2 DEF RequestsInv, SessionIsLive
<1>. QED
    BY <1>5, <1>6, <1>7, <1>9, <1>10, <1>11 DEF IInv

\* A request that fails leaves the tables as they are.
LEMMA AbortKeeps ==
    ASSUME IInv, NEW w \in Workers, Abort(w)
    PROVE  IInv'
<1>1. /\ tx[w] # Idle /\ tx' = [tx EXCEPT ![w] = Idle] /\ TypeOK
      /\ UNCHANGED <<plans, sessions, modules, rooms, links, history>>
    BY DEF Abort, IInv
<1>2. /\ tx'[w] = Idle /\ \A v \in Workers \ {w} : tx'[v] = tx[v]
      /\ InFlight' = InFlight \ {w} /\ InFlight \subseteq Workers
    BY <1>1, OthersSame DEF InFlight
<1>3. /\ Taken' = Taken /\ FreeIds' = FreeIds
      /\ \A s : SessionIsLive(s)' <=> SessionIsLive(s)
    BY <1>1 DEF Taken, FreeIds, SessionIsLive
<1>4. TypeOK'
    <2>1. tx' \in [Workers -> ImportTx \cup FillTx \cup PatchTx \cup {Idle}]
        BY <1>1 DEF TypeOK
    <2>. QED
        BY <1>1, <2>1 DEF TypeOK
<1>5. PlansInv'
    <2>1. \A v \in InFlight' : /\ OneForEachId(tx'[v].new.plans)
                               /\ SameCourse(tx'[v].new.plans, plans)
        BY <1>2 DEF IInv, PlansInv
    <2>2. \A u, v \in InFlight' :
            u # v => NoSharedId(tx'[u].new.plans, tx'[v].new.plans)
        BY <1>2 DEF IInv, PlansInv
    <2>. QED
        BY <1>1, <2>1, <2>2
        DEF IInv, PlansInv, OneForEachId, SameCourse, NoSharedId
<1>6. DaysInv'
    <2>1. \A v \in InFlight' : \A x \in tx'[v].new.slots :
            OnDay(plans \cup tx'[v].new.plans, x[1], x[3])
        BY <1>2 DEF IInv, DaysInv
    <2>. QED
        BY <1>1, <1>3, <2>1 DEF IInv, DaysInv, OnDay, TodayDayName, Weekday
<1>7. SlotsInv'
    <2>1. \A v \in InFlight' : tx'[v].new.slots \cap Taken = {}
        BY <1>2 DEF IInv, SlotsInv
    <2>2. \A u, v \in InFlight' :
            u # v => tx'[u].new.slots \cap tx'[v].new.slots = {}
        BY <1>2 DEF IInv, SlotsInv
    <2>3. \A s, r \in SessionIds :
            SessionIsLive(s)' /\ SessionIsLive(r)' =>
                (SlotOf(sessions[s])' = SlotOf(sessions[r])' => s = r)
        BY <1>1, <1>3 DEF IInv, SlotsInv, SlotOf
    <2>. QED
        BY <1>3, <2>1, <2>2, <2>3 DEF SlotsInv
<1>8. RoomInv'
    <2>1. \A v \in InFlight' : IsFiniteSet(tx'[v].new.slots)
        BY <1>2 DEF IInv, RoomInv
    <2>2. Asked' \subseteq Asked
        BY <1>2 DEF Asked
    <2>3. IsFiniteSet(Asked) /\ IsFiniteSet(FreeIds)
        BY <1>1, FiniteTables DEF IInv, RoomInv
    <2>4. IsFiniteSet(Asked') /\ Cardinality(Asked') <= Cardinality(Asked)
        BY <2>2, <2>3, FS_Subset
    <2>5. Cardinality(Asked') <= Cardinality(FreeIds)
        BY <2>3, <2>4, FS_CardinalityType DEF IInv, RoomInv
    <2>. QED
        BY <1>3, <2>1, <2>5 DEF RoomInv
<1>9. RequestsInv'
    <2>1. ASSUME NEW v \in InFlight'
          PROVE  /\ tx'[v].op = "import" => Done(Taken, tx[v])'
                 /\ tx'[v].op # "import" => tx'[v].new.plans = {}
                 /\ tx'[v].op = "patch" => tx'[v].new = NoWrites
                 /\ tx'[v].op = "patch" => sessions'[tx'[v].session] # Free
        <3>1. v \in InFlight /\ tx'[v] = tx[v]
            BY <1>2
        <3>2. tx[v].op = "import" => Done(Taken', tx[v])
            BY <1>3, <3>1 DEF IInv, RequestsInv
        <3>3. tx'[v].op = "import" => Done(Taken, tx[v])'
            BY <3>1, <3>2
        <3>4. tx[v].op = "patch" => sessions'[tx[v].session] # Free
            BY <1>1, <3>1 DEF IInv, RequestsInv, SessionIsLive
        <3>. QED
            BY <3>1, <3>3, <3>4 DEF IInv, RequestsInv
    <2>. QED
        BY <2>1 DEF RequestsInv, SessionIsLive
<1>. QED
    BY <1>4, <1>5, <1>6, <1>7, <1>8, <1>9 DEF IInv

\* An import is in the history only with what it has stored.
LEMMA CommitsStore ==
    ASSUME IInv, NEW w \in Workers
    PROVE  /\ ImportCommit(w) =>
                /\ w \in InFlight /\ tx[w] \in ImportTx /\ Store(w)
                /\ history' = history \cup {tx[w].import}
                /\ Done(Taken, tx[w]) /\ tx[w].next = Len(tx[w].import.file) + 1
           /\ FillCommit(w) =>
                /\ w \in InFlight /\ Store(w) /\ history' = history
                /\ tx[w].new.plans = {}
<1>1. ASSUME ImportCommit(w)
      PROVE  /\ w \in InFlight /\ tx[w] \in ImportTx /\ Store(w)
             /\ history' = history \cup {tx[w].import}
             /\ Done(Taken, tx[w]) /\ tx[w].next = Len(tx[w].import.file) + 1
    <2>1. /\ tx[w] # Idle /\ tx[w].op = "import" /\ Store(w)
          /\ tx[w].next > Len(tx[w].import.file)
          /\ history' = history \cup {tx[w].import}
        BY <1>1 DEF ImportCommit
    <2>2. w \in InFlight /\ tx[w] \in ImportTx /\ Done(Taken, tx[w])
        BY <2>1, Kinds DEF IInv, RequestsInv
    <2>3. Len(tx[w].import.file) \in Nat
        BY <2>2, FilesAssumption DEF ImportTx, Import
    <2>4. tx[w].next \in 1..(Len(tx[w].import.file) + 1)
        BY <2>2 DEF Done
    <2>. QED
        BY <2>1, <2>2, <2>3, <2>4
<1>2. ASSUME FillCommit(w)
      PROVE  /\ w \in InFlight /\ Store(w) /\ history' = history
             /\ tx[w].new.plans = {}
    <2>1. tx[w] # Idle /\ tx[w].op = "fill" /\ Store(w) /\ history' = history
        BY <1>2 DEF FillCommit
    <2>. QED
        BY <2>1 DEF InFlight, IInv, RequestsInv
<1>. QED
    BY <1>1, <1>2

\* Every step keeps the invariant.
LEMMA NextKeeps == IInv /\ [Next]_vars => IInv'
<1>. SUFFICES ASSUME IInv, [Next]_vars PROVE IInv'
    OBVIOUS
<1>1. history \subseteq Import
    BY DEF IInv, TypeOK
<1>2. CASE UNCHANGED vars
    <2>1. /\ Taken' = Taken /\ FreeIds' = FreeIds /\ InFlight' = InFlight
          /\ Asked' = Asked /\ UNCHANGED <<plans, sessions, tx>>
        BY <1>2 DEF vars, Taken, FreeIds, SessionIsLive, SlotOf, InFlight, Asked
    <2>2. TypeOK'
        BY <1>2 DEF vars, IInv, TypeOK
    <2>3. PlansInv'
        BY <2>1 DEF IInv, PlansInv, OneForEachId, SameCourse, NoSharedId
    <2>4. DaysInv'
        BY <2>1 DEF IInv, DaysInv, OnDay, TodayDayName, Weekday, SessionIsLive
    <2>5. SlotsInv'
        BY <2>1 DEF IInv, SlotsInv, SessionIsLive, SlotOf
    <2>6. RoomInv'
        BY <2>1 DEF IInv, RoomInv
    <2>7. RequestsInv'
        <3>1. \A v \in InFlight : tx[v].op = "import" => Done(Taken', tx'[v])
            BY <2>1 DEF IInv, RequestsInv
        <3>2. \A v \in InFlight' : tx'[v].op = "import" => Done(Taken, tx[v])'
            BY <2>1, <3>1
        <3>. QED
            BY <2>1, <3>2 DEF IInv, RequestsInv, SessionIsLive
    <2>. QED
        BY <2>2, <2>3, <2>4, <2>5, <2>6, <2>7 DEF IInv
<1>3. ASSUME NEW w \in Workers, Start(w) PROVE IInv'
    BY <1>3, StartKeeps
<1>4. ASSUME NEW w \in Workers, ImportRow(w) PROVE IInv'
    BY <1>4, ImportRowKeeps
<1>5. ASSUME NEW w \in Workers, ImportCommit(w) PROVE IInv'
    <2>1. history' \subseteq Import
        BY <1>1, <1>5, CommitsStore DEF ImportTx
    <2>. QED
        BY <1>5, <2>1, CommitsStore, StoreKeeps
<1>6. ASSUME NEW w \in Workers, FillCommit(w) PROVE IInv'
    BY <1>1, <1>6, CommitsStore, StoreKeeps
<1>7. ASSUME NEW w \in Workers, PatchCommit(w) PROVE IInv'
    BY <1>7, PatchCommitKeeps
<1>8. ASSUME NEW w \in Workers, Abort(w) PROVE IInv'
    BY <1>8, AbortKeeps
<1>. QED
    BY <1>2, <1>3, <1>4, <1>5, <1>6, <1>7, <1>8 DEF Next, Advance

\* It holds of the plans that are stored already.
LEMMA InitInv == Init => IInv
<1>. SUFFICES ASSUME Init PROVE IInv
    OBVIOUS
<1>1. InFlight = {} /\ \A s \in SessionIds : ~SessionIsLive(s)
    BY DEF Init, InFlight, SessionIsLive
<1>2. Asked = {} /\ FreeIds = SessionIds
    BY <1>1 DEF Asked, FreeIds
<1>3. RoomInv
    BY <1>1, <1>2, FS_EmptySet, FS_CardinalityType, TablesAssumption DEF RoomInv
<1>4. TypeOK
    BY LegacyAssumption DEF Init, TypeOK, Range
<1>5. PlansInv /\ DaysInv /\ SlotsInv /\ RequestsInv
    BY <1>1, LegacyAssumption
    DEF Init, PlansInv, OneForEachId, DaysInv, SlotsInv, RequestsInv
<1>. QED
    BY <1>3, <1>4, <1>5 DEF IInv
-----------------------------------------------------------------------------
(* The theorems.                                                           *)

\* The types, the plans' ids, the days, the slots and what requests in flight
\* rely on hold together, whatever the requests and however they interleave.
THEOREM TimetableInductive == Spec => []IInv
BY InitInv, NextKeeps, PTL DEF Spec

\* The tables and the requests in flight are as the code declares them, and the
\* plan of each session is stored.
THEOREM TimetableTypeCorrect == Spec => []TypeOK
<1>1. IInv => TypeOK
    BY DEF IInv
<1>. QED
    BY <1>1, TimetableInductive, PTL

\* Dates counted in weeks from the start of a semester, dates of today and of a
\* week, and sessions passed on, all fall on the weekday that the plan names.
THEOREM SessionsOnTheirDay == Spec => []OnPlannedDay
<1>1. IInv => OnPlannedDay
    <2>. SUFFICES ASSUME IInv, NEW s \in SessionIds, SessionIsLive(s)
                  PROVE  TodayDayName(sessions[s].date)
                            = DayOf[PlanOf(sessions[s]).course]
        BY DEF OnPlannedDay
    <2>1. OnDay(plans, sessions[s].plan, sessions[s].date)
        BY DEF IInv, DaysInv
    <2>2. PICK p \in plans : /\ p.id = sessions[s].plan
                             /\ DayOf[p.course] = TodayDayName(sessions[s].date)
        BY <2>1 DEF OnDay
    <2>3. PlanOf(sessions[s]) = p
        BY <2>2 DEF PlanOf, IInv, PlansInv, OneForEachId
    <2>. QED
        BY <2>2, <2>3
<1>. QED
    BY <1>1, TimetableInductive, PTL

\* What an import that commits has done is there for every row of its file.
LEMMA CommitIsWhole ==
    ASSUME IInv, NEW w \in Workers, ImportCommit(w),
           NEW i, i = tx[w].import, NEW k \in DOMAIN i.file
    PROVE  \E p \in plans' : /\ p.course = i.file[k].course
                             /\ Given(Taken', p.id, i.file[k], i.start)
<1>1. /\ w \in InFlight /\ tx[w] \in ImportTx /\ Store(w)
      /\ Done(Taken, tx[w]) /\ tx[w].next = Len(tx[w].import.file) + 1
    BY CommitsStore
<1>2. /\ Taken' = Taken \cup tx[w].new.slots /\ tx[w].new.plans \subseteq plans'
    BY <1>1, StoredSlots, StoredPlans
<1>3. k \in 1..(tx[w].next - 1)
    BY <1>1, FilesAssumption DEF ImportTx, Import
<1>4. PICK p \in tx[w].new.plans :
            /\ p.course = i.file[k].course
            /\ Given(Taken \cup tx[w].new.slots, p.id, i.file[k], i.start)
    BY <1>1, <1>3 DEF Done
<1>. QED
    BY <1>2, <1>4

\* An import is in the history only when every row of its file has its plan and
\* its classes, and every plan is of a file that is in the history.
THEOREM ImportsStoreAll == Spec => ImportsAreWhole
<1>. DEFINE A == /\ \A i \in history' \ history : Whole(i)'
                 /\ \A p \in plans' \ plans : \E i \in history' :
                        \E k \in DOMAIN i.file : i.file[k].course = p.course
<1>1. ASSUME IInv, Next PROVE A
    <2>1. CASE UNCHANGED <<plans, history>>
        BY <2>1
    <2>2. ASSUME NEW w \in Workers, ImportCommit(w) PROVE A
        <3>1. /\ w \in InFlight /\ tx[w] \in ImportTx /\ Store(w)
              /\ history' = history \cup {tx[w].import}
              /\ Done(Taken, tx[w]) /\ tx[w].next = Len(tx[w].import.file) + 1
            BY <1>1, <2>2, CommitsStore
        <3>2. ASSUME NEW i \in history' \ history PROVE Whole(i)'
            <4>1. i = tx[w].import
                BY <3>1
            <4>2. \A k \in DOMAIN i.file : \E p \in plans' :
                        /\ p.course = i.file[k].course
                        /\ Given(Taken', p.id, i.file[k], i.start)
                BY <1>1, <2>2, <4>1, CommitIsWhole
            <4>. QED
                BY <4>2 DEF Whole, Given, ClassesOf
        <3>3. ASSUME NEW p \in plans' \ plans
              PROVE  \E i \in history' : \E k \in DOMAIN i.file :
                        i.file[k].course = p.course
            <4>1. p \in tx[w].new.plans
                BY <1>1, <3>1, StoredPlans
            <4>2. PICK k \in 1..(tx[w].next - 1) :
                        p.course = tx[w].import.file[k].course
                BY <3>1, <4>1 DEF Done
            <4>3. k \in DOMAIN tx[w].import.file
                BY <3>1, FilesAssumption DEF ImportTx, Import
            <4>. QED
                BY <3>1, <4>2, <4>3
        <3>. QED
            BY <3>2, <3>3
    <2>3. ASSUME NEW w \in Workers, FillCommit(w) PROVE A
        <3>1. Store(w) /\ history' = history /\ tx[w].new.plans = {}
            BY <1>1, <2>3, CommitsStore
        <3>2. plans' = plans
            BY <3>1 DEF Store
        <3>. QED
            BY <3>1, <3>2
    <2>4. ASSUME NEW w \in Workers, Start(w) PROVE UNCHANGED <<plans, history>>
        BY <2>4 DEF Start, ImportStart, SyncModulesStart, MyModulesStart, TodayStart,
           AvailableStart, PatchStart, AddGroupStart, BeginPatch, Fill, Begin
    <2>5. ASSUME NEW w \in Workers, ImportRow(w) \/ PatchCommit(w) \/ Abort(w)
          PROVE  UNCHANGED <<plans, history>>
        BY <2>5 DEF ImportRow, PatchCommit, Abort
    <2>. QED
        BY <1>1, <2>1, <2>2, <2>3, <2>4, <2>5 DEF Next, Advance
<1>2. IInv /\ [Next]_vars => [A]_vars
    BY <1>1
<1>. QED
    BY <1>2, TimetableInductive, PTL DEF Spec, ImportsAreWhole
-----------------------------------------------------------------------------
(* The timetable is a calendar.                                            *)

\* What readers count.
Entries == Cardinality({s \in SessionIds : SessionIsLive(s)})

\* Readers count finitely many sessions.
LEMMA FiniteEntries ==
    /\ IsFiniteSet({s \in SessionIds : SessionIsLive(s)})
    /\ Entries \in Nat
<1>. DEFINE live == {s \in SessionIds : SessionIsLive(s)}
<1>1. IsFiniteSet(live)
    BY TablesAssumption, FS_Subset
<1>. QED
    BY <1>1, FS_CardinalityType DEF Entries

\* A commit schedules one class for each row it inserts.
LEMMA StoreSchedules ==
    ASSUME IInv, NEW w \in InFlight, Store(w)
    PROVE  /\ Taken \subseteq Taken'
           /\ Entries' = Entries + Cardinality(Taken' \ Taken)
<1>. DEFINE slots == tx[w].new.slots
            live == {s \in SessionIds : SessionIsLive(s)}
            added == FreeIds \ FreeIds'
<1>1. /\ Taken' = Taken \cup slots /\ FreeIds' \subseteq FreeIds
      /\ \A s \in SessionIds : SessionIsLive(s) => sessions'[s] = sessions[s]
      /\ IsFiniteSet(added) /\ Cardinality(added) = Cardinality(slots)
    BY StoredSlots
<1>2. slots \cap Taken = {}
    BY DEF IInv, SlotsInv
<1>3. Taken' \ Taken = slots
    BY <1>1, <1>2
<1>4. live' = live \cup added /\ live \cap added = {}
    BY <1>1 DEF FreeIds, SessionIsLive
<1>5. IsFiniteSet(live)
    BY FiniteEntries
<1>. HIDE DEF live, added, slots
<1>6. Cardinality(live \cup added) = Cardinality(live) + Cardinality(added)
    <2>1. /\ Cardinality(live) \in Nat /\ Cardinality(added) \in Nat
          /\ Cardinality(live \cap added) = 0
        BY <1>1, <1>4, <1>5, FS_CardinalityType, FS_EmptySet
    <2>2. Cardinality(live \cup added)
            = Cardinality(live) + Cardinality(added) - Cardinality(live \cap added)
        BY <1>1, <1>5, FS_Union
    <2>. QED
        BY <2>1, <2>2
<1>7. Entries = Cardinality(live) /\ Entries' = Cardinality(live')
    BY DEF Entries, live
<1>. QED
    BY <1>1, <1>3, <1>4, <1>6, <1>7

\* Whatever imports, days, weeks and patches do to the tables, readers see a
\* calendar to which classes are added, or one of whose classes changes hands.
THEOREM TimetableIsACalendar == Spec => ImplementsCalendar
<1>1. Init => Promised!Init
    <2>. SUFFICES ASSUME Init PROVE Promised!Init
        OBVIOUS
    <2>1. {s \in SessionIds : SessionIsLive(s)} = {}
        BY DEF Init, SessionIsLive
    <2>2. Taken = {}
        BY <2>1 DEF Taken
    <2>. QED
        BY <2>1, <2>2, FS_EmptySet DEF Promised!Init
<1>2. ASSUME IInv, [Next]_vars
      PROVE  [Promised!Next]_<<Taken, Entries>>
    <2>1. CASE sessions' = sessions
        BY <2>1 DEF Taken, Entries, SessionIsLive, SlotOf
    <2>2. ASSUME NEW w \in InFlight, Store(w) PROVE Promised!Next
        <3>1. Promised!Cardinality(Taken' \ Taken) = Cardinality(Taken' \ Taken)
            BY DEF Promised!Cardinality, Cardinality
        <3>. QED
            BY <1>2, <2>2, <3>1, StoreSchedules
            DEF Promised!Next, Promised!Schedule, Entries
    <2>3. ASSUME NEW w \in Workers, PatchCommit(w)
          PROVE  [Promised!Next]_<<Taken, Entries>>
        <3>1. /\ \A s \in SessionIds : SessionIsLive(s)' <=> SessionIsLive(s)
              /\ \/ Taken' = Taken
                 \/ \E c \in Taken : \E e :
                        /\ e \notin Taken /\ e[1] = c[1] /\ e[3] = c[3]
                        /\ Taken' = (Taken \ {c}) \cup {e}
            BY <1>2, <2>3, PatchedSlots
        <3>2. Entries' = Entries
            BY <3>1 DEF Entries
        <3>3. CASE Taken' = Taken
            BY <3>2, <3>3
        <3>4. CASE \E c \in Taken : \E e :
                        /\ e \notin Taken /\ e[1] = c[1] /\ e[3] = c[3]
                        /\ Taken' = (Taken \ {c}) \cup {e}
            <4>1. Promised!Pass
                BY <3>2, <3>4 DEF Promised!Pass, Entries
            <4>. QED
                BY <4>1 DEF Promised!Next
        <3>. QED
            BY <3>1, <3>3, <3>4
    <2>4. ASSUME NEW w \in Workers, Start(w) PROVE sessions' = sessions
        BY <2>4 DEF Start, ImportStart, SyncModulesStart, MyModulesStart, TodayStart,
           AvailableStart, PatchStart, AddGroupStart, BeginPatch, Fill, Begin
    <2>5. ASSUME NEW w \in Workers, ImportRow(w) \/ Abort(w)
          PROVE  sessions' = sessions
        BY <2>5 DEF ImportRow, Abort
    <2>6. ASSUME NEW w \in Workers, ImportCommit(w) \/ FillCommit(w)
          PROVE  Promised!Next
        BY <1>2, <2>2, <2>6, CommitsStore
    <2>. QED
        BY <1>2, <2>1, <2>3, <2>4, <2>5, <2>6 DEF Next, Advance, vars
<1>3. IInv /\ [Next]_vars => [Promised!Next]_<<Taken, Entries>>
    BY <1>2
<1>. QED
    BY <1>1, <1>3, TimetableInductive, PTL
    DEF Spec, ImplementsCalendar, Promised!Spec, Entries
=============================================================================
