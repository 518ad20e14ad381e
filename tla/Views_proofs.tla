------------------------------ MODULE Views_proofs ------------------------------
(* Theorems about Views, for any sessions, students, pages and dates.      *)
(* Sums over a table are compared by counting: the sum of what each key    *)
(* has is the number of entries.  The induction over the finite set of     *)
(* keys is the search for a smallest counterexample.                       *)
EXTENDS Views, FiniteSetTheorems, FunctionTheorems, WellFoundedInduction, TLAPS

(***************************************************************************)
(* Finite sets.                                                            *)
(***************************************************************************)

\* A nonempty set of subsets of a finite set has a smallest one.
LEMMA SmallestSubset ==
    ASSUME NEW S, IsFiniteSet(S), NEW F \in SUBSET SUBSET S, F # {}
    PROVE  \E U \in F : \A V \in F : V \subseteq U => V = U
<1>1. IsWellFoundedOn(StrictSubsetOrdering(S), SUBSET S)
    BY FS_StrictSubsetOrderingWellFounded, FS_FiniteSubsetsOfFinite
<1>2. PICK U \in F : \A V \in F : <<V, U>> \notin StrictSubsetOrdering(S)
    BY <1>1, WFMin
<1>3. \A V \in F : V \subseteq U => V = U
    BY <1>2 DEF StrictSubsetOrdering
<1>. QED
    BY <1>3

\* A finite set of integers has a largest element.
LEMMA MaxExists ==
    ASSUME NEW S, IsFiniteSet(S), S # {}
    PROVE  S \subseteq Int => Max(S) \in S /\ \A y \in S : Max(S) >= y
<1>. DEFINE F == {U \in SUBSET S : U # {} /\ ~ \E x \in U : \A y \in U : x >= y}
<1>1. F # {} => \E U \in F : \A V \in F : V \subseteq U => V = U
    <2>1. F \in SUBSET SUBSET S
        OBVIOUS
    <2>. HIDE DEF F
    <2>. QED
        BY <2>1, SmallestSubset
<1>. SUFFICES ASSUME S \subseteq Int
              PROVE  Max(S) \in S /\ \A y \in S : Max(S) >= y
    OBVIOUS
<1>2. ASSUME NEW U \in F, \A V \in F : V \subseteq U => V = U
      PROVE  FALSE
    <2>1. PICK x \in U : TRUE
        OBVIOUS
    <2>2. U \ {x} # {}
        BY <2>1
    <2>3. U \ {x} \notin F
        BY <1>2, <2>1
    <2>4. PICK y \in U \ {x} : \A z \in U \ {x} : y >= z
        BY <2>2, <2>3
    <2>5. x \in Int /\ y \in Int /\ \A z \in U : z \in Int
        BY <2>1, <2>4
    <2>6. \A z \in U : (IF x >= y THEN x ELSE y) >= z
        BY <2>4, <2>5
    <2>. QED
        BY <2>1, <2>4, <2>6
<1>3. PICK x \in S : \A y \in S : x >= y
    BY <1>1, <1>2
<1>. QED
    BY <1>3 DEF Max

\* The larger and the smaller of two.
LEMMA TwoOf ==
    ASSUME NEW a \in Int, NEW b \in Int
    PROVE  /\ Max({a, b}) = IF a < b THEN b ELSE a
           /\ Min({a, b}) = IF a < b THEN a ELSE b
<1>1. Max({a, b}) = IF a < b THEN b ELSE a
    BY DEF Max
<1>2. Min({a, b}) = IF a < b THEN a ELSE b
    BY DEF Min
<1>. QED
    BY <1>1, <1>2

(***************************************************************************)
(* Sums.                                                                   *)
(***************************************************************************)

\* The entries of K whose key is in s.
Keyed(K, key, s) == {k \in K : key[k] \in s}

\* The step of a sum: the weight of an element and the sum of the others.
Step(w, h, s) ==
    IF s = {} THEN 0
    ELSE w[CHOOSE x \in s : TRUE] + h[s \ {CHOOSE x \in s : TRUE}]

\* The entries of a set of keys are those of one key and of the others.
LEMMA KeyedCount ==
    ASSUME NEW K, IsFiniteSet(K), NEW key, NEW s, NEW x \in s
    PROVE  /\ Cardinality(Keyed(K, key, {x})) \in Nat
           /\ Cardinality(Keyed(K, key, s \ {x})) \in Nat
           /\ Cardinality(Keyed(K, key, s)) =
                Cardinality(Keyed(K, key, {x}))
                    + Cardinality(Keyed(K, key, s \ {x}))
<1>. DEFINE A == Keyed(K, key, {x})  B == Keyed(K, key, s \ {x})
<1>1. A \in SUBSET K /\ B \in SUBSET K /\ Keyed(K, key, s) = A \cup B
        /\ A \cap B = {}
    BY DEF Keyed
<1>2. /\ IsFiniteSet(A) /\ IsFiniteSet(B)
      /\ Cardinality(A) \in Nat /\ Cardinality(B) \in Nat
    BY <1>1, FS_Subset, FS_CardinalityType
<1>3. Cardinality(A \cup B) = Cardinality(A) + Cardinality(B) - Cardinality(A \cap B)
    BY <1>2, FS_Union
<1>4. Cardinality(A \cap B) = 0
    BY <1>1, FS_EmptySet
<1>5. Cardinality(Keyed(K, key, s)) = Cardinality(A \cup B)
    BY <1>1
<1>6. Cardinality(Keyed(K, key, s)) = Cardinality(A) + Cardinality(B)
    <2>. HIDE DEF A, B
    <2>. QED
        BY <1>2, <1>3, <1>4, <1>5
<1>. QED
    BY <1>2, <1>6

\* When each key weighs what it has, the weights add up to the entries.
LEMMA SumCounts ==
    ASSUME NEW S, IsFiniteSet(S), NEW K, IsFiniteSet(K), NEW key,
           NEW w, DOMAIN w = S,
           \A x \in S : w[x] = Cardinality(Keyed(K, key, {x}))
    PROVE  SumFunction(w) = Cardinality(Keyed(K, key, S))
<1>. DEFINE g == [s \in SUBSET S |-> Cardinality(Keyed(K, key, s))]
<1>1. \A s \in SUBSET S : g[s] = Step(w, g, s)
    <2>. TAKE s \in SUBSET S
    <2>1. CASE s = {}
        <3>1. Keyed(K, key, s) = {}
            BY <2>1 DEF Keyed
        <3>. QED
            BY <2>1, <3>1, FS_EmptySet DEF Step
    <2>2. CASE s # {}
        <3>. DEFINE x == CHOOSE x \in s : TRUE
        <3>1. x \in s
            BY <2>2
        <3>. HIDE DEF x
        <3>2. g[s] = w[x] + g[s \ {x}]
            <4>1. /\ g[s] = Cardinality(Keyed(K, key, s))
                  /\ g[s \ {x}] = Cardinality(Keyed(K, key, s \ {x}))
                  /\ w[x] = Cardinality(Keyed(K, key, {x}))
                BY <3>1
            <4>. HIDE DEF g
            <4>. QED
                BY <4>1, <3>1, KeyedCount
        <3>. QED
            BY <2>2, <3>2 DEF Step, x
    <2>. QED
        BY <2>1, <2>2
<1>2. g = [s \in SUBSET S |-> Step(w, g, s)]
    BY <1>1
<1>. HIDE DEF g
<1>3. ASSUME NEW h, h = [s \in SUBSET S |-> Step(w, h, s)]
      PROVE  h = g
    <2>. DEFINE F == {s \in SUBSET S : h[s] # g[s]}
    <2>1. F = {}
        <3>. SUFFICES ASSUME F # {} PROVE FALSE
            OBVIOUS
        <3>0. PICK U \in F : \A V \in F : V \subseteq U => V = U
            <4>1. F \in SUBSET SUBSET S
                OBVIOUS
            <4>. HIDE DEF F
            <4>. QED
                BY <4>1, SmallestSubset
        <3>1. U \in SUBSET S /\ h[U] # g[U]
            BY <3>0
        <3>2. h[U] = Step(w, h, U) /\ g[U] = Step(w, g, U)
            BY <1>2, <1>3
        <3>3. U # {}
            BY <3>2, <3>1 DEF Step
        <3>. DEFINE x == CHOOSE x \in U : TRUE
        <3>4. x \in U
            BY <3>3
        <3>. HIDE DEF x
        <3>5. U \ {x} \notin F
            BY <3>0, <3>4
        <3>6. h[U \ {x}] = g[U \ {x}]
            BY <3>5, <3>1
        <3>7. Step(w, h, U) = Step(w, g, U)
            BY <3>6, <3>3 DEF Step, x
        <3>. QED
            BY <3>1, <3>2, <3>7
    <2>2. \A s \in SUBSET S : h[s] = g[s]
        BY <2>1
    <2>. QED
        BY <2>2, <1>2, <1>3
<1>4. SumFunction(w) = g[S]
    BY <1>2, <1>3, Zenon
       DEF SumFunction, SumFunctionOnSet, FoldFunctionOnSet, MapThenFoldSet, Step
<1>. QED
    BY <1>4 DEF g

(***************************************************************************)
(* The inductive invariant.                                                *)
(***************************************************************************)

\* A profile between its queries has no more absences than sessions, and a
\* summary that was loaded has a row to update.
PageOK(t) ==
    t # Idle =>
        /\ t.page = "profile" /\ t.stage = "read" =>
               t.absences <= Cardinality(OwnGroup(t.student))
        /\ t.page = "summary" /\ t.loaded # NULL => summary[t.session] # NULL

\* The range of a profile's figures rests on its two queries' order.
IInv == TypeOK /\ \A r \in Readers : PageOK(tx[r])

Pages == ProfilePage \cup StatsPage \cup SummaryPage

\* The page tells what a request holds.
LEMMA Kinds ==
    ASSUME NEW t \in Pages
    PROVE  /\ t.page = "profile" => t \in ProfilePage
           /\ t.page = "stats" => t \in StatsPage
           /\ t.page = "summary" => t \in SummaryPage
BY DEF Pages, ProfilePage, StatsPage, SummaryPage

\* What a set of sessions or students can count.
LEMMA Counting ==
    ASSUME NEW S, IsFiniteSet(S), NEW T, T \subseteq S
    PROVE  /\ IsFiniteSet(T)
           /\ Cardinality(T) \in Nat /\ Cardinality(S) \in Nat
           /\ Cardinality(T) <= Cardinality(S)
           /\ Cardinality(T) \in 0..Cardinality(S)
<1>1. IsFiniteSet(T) /\ Cardinality(T) <= Cardinality(S)
    BY FS_Subset
<1>2. Cardinality(T) \in Nat /\ Cardinality(S) \in Nat
    BY <1>1, FS_CardinalityType
<1>. QED
    BY <1>1, <1>2

\* A student is absent from, and present in, no more sessions than there are.
LEMMA CountsTyped ==
    ASSUME NEW m, NEW S, S \subseteq Sessions
    PROVE  /\ Cardinality(S) \in Counts
           /\ AbsencesIn(m, S) \in Counts /\ AbsencesIn(m, S) <= Cardinality(S)
           /\ PresencesIn(m, S) \in Counts
           /\ PresencesIn(m, S) <= Cardinality(S)
<1>. DEFINE A == {s \in S : Absent(s, m)}  P == {s \in S : Present(s, m)}
<1>1. IsFiniteSet(S) /\ Cardinality(S) \in Counts
    BY Counting, ViewsAssumption DEF Counts
<1>2. Cardinality(A) \in Counts /\ Cardinality(P) \in Counts
    <2>1. A \subseteq Sessions /\ P \subseteq Sessions
        OBVIOUS
    <2>. HIDE DEF A, P
    <2>. QED
        BY <2>1, Counting, ViewsAssumption DEF Counts
<1>3. Cardinality(A) <= Cardinality(S) /\ Cardinality(P) <= Cardinality(S)
    <2>1. A \subseteq S /\ P \subseteq S
        OBVIOUS
    <2>. HIDE DEF A, P
    <2>. QED
        BY <2>1, <1>1, Counting
<1>. QED
    BY <1>1, <1>2, <1>3 DEF AbsencesIn, PresencesIn

\* Whatever was counted before, the card of warnings shows a number of
\* students.
LEMMA CardsTyped ==
    ASSUME NEW e \in Nat
    PROVE  AtExclusion \in People /\ AtWarning(e) \in People
<1>. DEFINE n == Cardinality(Reached(Warning, live))
<1>1. \A k : Reached(k, live) \subseteq Students
    BY DEF Reached
<1>2. n \in People /\ AtExclusion \in People
    BY <1>1, Counting, ViewsAssumption DEF People, AtExclusion
<1>3. Cardinality(Students) \in Nat
    BY ViewsAssumption, FS_CardinalityType
<1>. HIDE DEF n
<1>4. n \in Int /\ n - e \in Int
    BY <1>2 DEF People
<1>5. Max({n - e, 0}) = IF n - e < 0 THEN 0 ELSE n - e
    BY <1>4, TwoOf
<1>6. Max({n - e, 0}) \in People
    BY <1>2, <1>3, <1>5 DEF People
<1>. QED
    BY <1>2, <1>6 DEF AtWarning, n

\* Present and absent students are two parts of the students.
LEMMA CountedTyped ==
    ASSUME NEW s, NEW total \in People
    PROVE  Counted(s, total) \in Summary
<1>. DEFINE P == {m \in Students : Present(s, m)}
            A == {m \in Students : Absent(s, m)}
<1>1. P \subseteq Students /\ A \subseteq Students /\ P \cap A = {}
    BY DEF Present, Absent
<1>2. Cardinality(Students) \in Nat
    BY ViewsAssumption, FS_CardinalityType
<1>. HIDE DEF P, A
<1>3. /\ IsFiniteSet(P) /\ IsFiniteSet(A)
      /\ Cardinality(P) \in People /\ Cardinality(A) \in People
    BY <1>1, Counting, ViewsAssumption DEF People
<1>4. Cardinality(P \cup A) <= Cardinality(Students)
    <2>1. P \cup A \subseteq Students
        BY <1>1
    <2>. QED
        BY <2>1, Counting, ViewsAssumption
<1>5. Cardinality(P \cup A) =
        Cardinality(P) + Cardinality(A) - Cardinality(P \cap A)
    BY <1>3, FS_Union
<1>6. Cardinality(P \cap A) = 0
    BY <1>1, FS_EmptySet
<1>7. Cardinality(P) + Cardinality(A) <= Cardinality(Students)
    BY <1>3, <1>4, <1>5, <1>6 DEF People
<1>8. total - Cardinality(P) - Cardinality(A)
          \in -Cardinality(Students)..Cardinality(Students)
    BY <1>2, <1>3, <1>7 DEF People
<1>. QED
    BY <1>3, <1>8 DEF Counted, Figures, Summary, P, A

\* An empty database shows nothing out of range.
LEMMA InitInv == Init => IInv
BY ViewsAssumption DEF Init, IInv, TypeOK, PageOK, Scenario, Marks, Recorded

\* A request that goes on changes nothing else.
LEMMA PageKeeps ==
    ASSUME IInv, NEW r \in Readers, NEW t \in Pages \cup {Idle},
           tx' = [tx EXCEPT ![r] = t], PageOK(t),
           UNCHANGED <<live, mark, groups, direct, summary>>,
           ahead' \in Scenario, ahead'.sessions = ahead.sessions
    PROVE  IInv'
<1>1. tx' \in [Readers -> {Idle} \cup ProfilePage \cup StatsPage
                              \cup SummaryPage]
    BY DEF IInv, TypeOK, Pages
<1>2. TypeOK'
    BY <1>1 DEF IInv, TypeOK, Recorded
<1>3. ASSUME NEW x \in Readers PROVE PageOK(tx[x])'
    <2>1. tx'[x] = IF x = r THEN t ELSE tx[x]
        BY DEF IInv, TypeOK
    <2>2. PageOK(tx'[x])
        BY <2>1 DEF IInv
    <2>. QED
        BY <2>2 DEF PageOK, OwnGroup
<1>. QED
    BY <1>2, <1>3 DEF IInv

\* A page that is opened is one fewer to open.
LEMMA BeginKeeps ==
    ASSUME IInv, NEW r \in Readers, NEW page \in {"profile", "stats", "summary"},
           NEW t \in Pages, Begin(r, page, t), PageOK(t)
    PROVE  IInv'
<1>. DEFINE opens == ahead.opens  n == opens[r][page]
<1>1. /\ opens \in [Readers -> [{"profile", "stats", "summary"} -> Nat]]
      /\ ahead \in [{"opens", "sessions"} -> {opens, ahead.sessions}]
      /\ ahead.sessions \in SUBSET Sessions
    BY DEF IInv, TypeOK, Scenario
<1>2. n \in Nat /\ n > 0
    BY <1>1 DEF Begin
<1>3. [opens EXCEPT ![r][page] = n - 1]
          \in [Readers -> [{"profile", "stats", "summary"} -> Nat]]
    BY <1>1, <1>2
<1>4. /\ ahead' = [opens |-> [opens EXCEPT ![r][page] = n - 1],
                   sessions |-> ahead.sessions]
    BY <1>1 DEF Begin, IInv, TypeOK, Scenario
<1>5. ahead' \in Scenario /\ ahead'.sessions = ahead.sessions
    BY <1>1, <1>3, <1>4 DEF Scenario
<1>. QED
    BY <1>5, PageKeeps DEF Begin

\* A page's next query.
LEMMA ReadKeeps ==
    ASSUME IInv, NEW r \in Readers, NEW t \in Pages \cup {Idle}, Read(r, t),
           PageOK(t)
    PROVE  IInv'
BY PageKeeps DEF Read, IInv, TypeOK

\* The absences are counted first.
LEMMA ProfileAbsencesKeeps ==
    ASSUME IInv, NEW r \in Readers, NEW m \in Students, ProfileAbsences(r, m)
    PROVE  IInv'
<1>. DEFINE t == [page |-> "profile", stage |-> "read", student |-> m,
                  absences |-> AbsencesIn(m, OwnGroup(m)), total |-> 0]
<1>1. OwnGroup(m) \subseteq Sessions
    BY DEF OwnGroup, IInv, TypeOK
<1>2. /\ AbsencesIn(m, OwnGroup(m)) \in Counts
      /\ AbsencesIn(m, OwnGroup(m)) <= Cardinality(OwnGroup(m))
    BY <1>1, CountsTyped
<1>3. 0 \in Counts
    BY ViewsAssumption, FS_CardinalityType DEF Counts
<1>4. t \in Pages /\ PageOK(t)
    BY <1>2, <1>3 DEF Pages, ProfilePage, PageOK
<1>. HIDE DEF t
<1>5. Begin(r, "profile", t)
    BY DEF ProfileAbsences, t
<1>. QED
    BY <1>4, <1>5, BeginKeeps

\* By the time the sessions are counted there are no fewer of them.
LEMMA ProfileTotalKeeps ==
    ASSUME IInv, NEW r \in Readers, ProfileTotal(r)
    PROVE  IInv'
<1>. DEFINE own == OwnGroup(tx[r].student)
            t == [tx[r] EXCEPT !.stage = "served", !.total = Cardinality(own)]
<1>1. tx[r] \in ProfilePage /\ tx[r].stage = "read" /\ tx[r] # Idle
    BY Kinds DEF ProfileTotal, At, IInv, TypeOK, Pages
<1>2. own \subseteq Sessions
    BY DEF OwnGroup, IInv, TypeOK
<1>3. Cardinality(own) \in Counts
    BY <1>2, CountsTyped
<1>4. tx[r].absences <= Cardinality(own)
    BY <1>1 DEF IInv, PageOK, ProfilePage
<1>. HIDE DEF own
<1>5. t \in Pages /\ PageOK(t)
    BY <1>1, <1>3, <1>4 DEF Pages, ProfilePage, PageOK
<1>. HIDE DEF t
<1>6. Read(r, t)
    BY DEF ProfileTotal, t, own
<1>. QED
    BY <1>5, <1>6, ReadKeeps

\* The two cards, whatever is recorded between them.
LEMMA StatsKeeps ==
    ASSUME IInv, NEW r \in Readers, StatsExclusion(r) \/ StatsWarning(r)
    PROVE  IInv'
<1>1. CASE StatsExclusion(r)
    <2>. DEFINE t == [page |-> "stats", stage |-> "read",
                      exclusion |-> AtExclusion, warning |-> 0]
    <2>1. 0 \in Nat /\ AtExclusion \in People /\ 0 \in People
        BY CardsTyped, ViewsAssumption, FS_CardinalityType DEF People
    <2>2. t \in Pages /\ PageOK(t)
        BY <2>1 DEF Pages, StatsPage, PageOK
    <2>. HIDE DEF t
    <2>3. Begin(r, "stats", t)
        BY <1>1 DEF StatsExclusion, t
    <2>. QED
        BY <2>2, <2>3, BeginKeeps
<1>2. CASE StatsWarning(r)
    <2>. DEFINE t == [tx[r] EXCEPT !.stage = "served",
                                   !.warning = AtWarning(tx[r].exclusion)]
    <2>1. tx[r] \in StatsPage /\ tx[r] # Idle
        BY <1>2, Kinds DEF StatsWarning, At, IInv, TypeOK, Pages
    <2>2. AtWarning(tx[r].exclusion) \in People
        BY <2>1, CardsTyped DEF StatsPage, People
    <2>3. t \in Pages /\ PageOK(t)
        BY <2>1, <2>2 DEF Pages, StatsPage, PageOK
    <2>. HIDE DEF t
    <2>4. Read(r, t)
        BY <1>2 DEF StatsWarning, t
    <2>. QED
        BY <2>3, <2>4, ReadKeeps
<1>. QED
    BY <1>1, <1>2

\* Those expected are students.
LEMMA RosterTyped ==
    ASSUME TypeOK, NEW s \in Sessions
    PROVE  /\ Roster(s) \subseteq Students /\ IsFiniteSet(Roster(s))
           /\ Cardinality(Roster(s)) \in People
<1>1. direct[s] \subseteq Students /\ \A g : Members(g) \subseteq Students
    BY DEF Members, TypeOK
<1>2. ASSUME NEW m \in Roster(s) PROVE m \in Students
    <2>1. m \in direct[s] \/ \E g : m \in Members(g)
        BY Zenon DEF Roster
    <2>. QED
        BY <1>1, <2>1
<1>3. Roster(s) \subseteq Students
    BY <1>2
<1>. QED
    BY <1>3, Counting, ViewsAssumption DEF People

\* A summary counts the roster, then the records, and loads its row.
LEMMA SummaryReads ==
    ASSUME IInv, NEW r \in Readers,
           \/ \E s \in Summarised : SummaryTotal(r, s)
           \/ SummaryCount(r)
           \/ SummaryLoad(r)
           \/ SummaryFails(r)
    PROVE  IInv'
<1>1. ASSUME NEW s \in Summarised, SummaryTotal(r, s) PROVE IInv'
    <2>. DEFINE n == Cardinality(Roster(s))
                t == [page |-> "summary", stage |-> "read", session |-> s,
                      loaded |-> NULL, new |-> Figures(n, 0, 0)]
    <2>1. n \in People
        BY RosterTyped, ViewsAssumption DEF IInv
    <2>. HIDE DEF n
    <2>2. Figures(n, 0, 0) \in Summary
        BY <2>1, ViewsAssumption, FS_CardinalityType
           DEF Figures, Summary, People
    <2>3. t \in Pages /\ PageOK(t)
        BY <2>2 DEF Pages, SummaryPage, PageOK
    <2>. HIDE DEF t
    <2>4. Begin(r, "summary", t)
        BY <1>1 DEF SummaryTotal, t, n
    <2>. QED
        BY <2>3, <2>4, BeginKeeps
<1>2. CASE SummaryCount(r)
    <2>. DEFINE s == tx[r].session
                new == Counted(s, tx[r].new.total)
                t == [tx[r] EXCEPT !.stage = "counted", !.new = new]
    <2>1. tx[r] \in SummaryPage /\ tx[r] # Idle
        BY <1>2, Kinds DEF SummaryCount, At, IInv, TypeOK, Pages
    <2>2. tx[r].new.total \in People /\ s \in Sessions
        BY <2>1, ViewsAssumption DEF SummaryPage, Summary
    <2>3. new \in Summary
        BY <2>2, CountedTyped
    <2>. HIDE DEF new
    <2>4. t \in Pages /\ PageOK(t)
        BY <2>1, <2>3 DEF Pages, SummaryPage, PageOK, IInv
    <2>. HIDE DEF t
    <2>5. Read(r, t)
        BY <1>2 DEF SummaryCount, t, new
    <2>. QED
        BY <2>4, <2>5, ReadKeeps
<1>3. CASE SummaryLoad(r)
    <2>. DEFINE s == tx[r].session
                t == [tx[r] EXCEPT !.stage = "loaded", !.loaded = summary[s]]
    <2>1. tx[r] \in SummaryPage /\ tx[r] # Idle
        BY <1>3, Kinds DEF SummaryLoad, At, IInv, TypeOK, Pages
    <2>2. s \in Sessions /\ summary[s] \in Summary \cup {NULL}
        BY <2>1, ViewsAssumption DEF SummaryPage, IInv, TypeOK
    <2>3. t \in Pages /\ PageOK(t)
        BY <2>1, <2>2 DEF Pages, SummaryPage, PageOK
    <2>. HIDE DEF t
    <2>4. Read(r, t)
        BY <1>3 DEF SummaryLoad, t
    <2>. QED
        BY <2>3, <2>4, ReadKeeps
<1>4. CASE SummaryFails(r)
    BY <1>4, ReadKeeps DEF SummaryFails, PageOK
<1>. QED
    BY <1>1, <1>2, <1>3, <1>4

\* An UPDATE mixes the columns of two summaries, each in its range.
LEMMA SummaryStoreKeeps ==
    ASSUME IInv, NEW r \in Readers, SummaryStore(r)
    PROVE  IInv'
<1>. DEFINE s == tx[r].session  old == tx[r].loaded  new == tx[r].new
            row == IF old = NULL THEN new
                   ELSE [c \in DOMAIN new |->
                            IF new[c] = old[c] THEN summary[s][c] ELSE new[c]]
<1>1. tx[r] \in SummaryPage /\ tx[r] # Idle
    BY Kinds DEF SummaryStore, At, IInv, TypeOK, Pages
<1>2. s \in Sessions /\ new \in Summary
    BY <1>1, ViewsAssumption DEF SummaryPage
<1>3. old # NULL => summary[s] \in Summary
    BY <1>1, <1>2 DEF IInv, TypeOK, PageOK, SummaryPage
<1>4. row \in Summary
    <2>1. CASE old = NULL
        BY <2>1, <1>2
    <2>2. CASE old # NULL
        BY <2>2, <1>2, <1>3 DEF Summary
    <2>. QED
        BY <2>1, <2>2
<1>5. summary' = [summary EXCEPT ![s] = row]
    BY DEF SummaryStore
<1>. HIDE DEF row
<1>6. \A x \in Sessions : summary'[x] = IF x = s THEN row ELSE summary[x]
    BY <1>5 DEF IInv, TypeOK
<1>7. TypeOK'
    <2>1. summary' \in [Sessions -> Summary \cup {NULL}]
        BY <1>4, <1>5 DEF IInv, TypeOK
    <2>2. tx' \in [Readers -> {Idle} \cup ProfilePage \cup StatsPage
                                  \cup SummaryPage]
        BY DEF SummaryStore, IInv, TypeOK
    <2>. QED
        BY <2>1, <2>2 DEF SummaryStore, IInv, TypeOK, Recorded
<1>8. ASSUME NEW x \in Readers PROVE PageOK(tx[x])'
    <2>1. tx'[x] = IF x = r THEN Idle ELSE tx[x]
        BY DEF SummaryStore, IInv, TypeOK
    <2>2. CASE x = r
        BY <2>1, <2>2 DEF PageOK
    <2>3. CASE x # r
        <3>1. tx[x] # Idle /\ tx[x].page = "summary" => tx[x].session \in Sessions
            BY Kinds, ViewsAssumption
               DEF IInv, TypeOK, Pages, SummaryPage
        <3>2. PageOK(tx[x]) /\ tx'[x] = tx[x] /\ live' = live
            BY <2>1, <2>3 DEF SummaryStore, IInv
        <3>3. row # NULL
            BY <1>4, NullAssumption
        <3>. QED
            BY <1>6, <3>1, <3>2, <3>3 DEF PageOK, OwnGroup
    <2>. QED
        BY <2>2, <2>3
<1>. QED
    BY <1>7, <1>8 DEF IInv

\* Sessions are never deleted: a group has no fewer of them later.
LEMMA OwnGrows ==
    ASSUME TypeOK, live \subseteq live', live' \subseteq Sessions, NEW m
    PROVE  Cardinality(OwnGroup(m)) <= Cardinality(OwnGroup(m)')
<1>1. OwnGroup(m) \subseteq OwnGroup(m)' /\ OwnGroup(m)' \subseteq Sessions
    BY DEF OwnGroup
<1>2. IsFiniteSet(OwnGroup(m)')
    BY <1>1, Counting, ViewsAssumption
<1>. QED
    BY <1>1, <1>2, Counting

\* What others commit: marks, sessions, groups and students.
LEMMA CommitKeeps ==
    ASSUME IInv, UNCHANGED <<summary, tx>>, live \subseteq live', TypeOK'
    PROVE  IInv'
<1>1. ASSUME NEW r \in Readers PROVE PageOK(tx[r])'
    <2>1. CASE tx[r] # Idle /\ tx[r].page = "profile"
        <3>1. tx[r] \in ProfilePage
            BY <2>1, Kinds DEF IInv, TypeOK, Pages
        <3>2. PICK m \in Students : m = tx[r].student
            BY <3>1 DEF ProfilePage
        <3>8. tx[r].absences \in Int
            BY <3>1 DEF ProfilePage, Counts
        <3>3. OwnGroup(m) \subseteq Sessions /\ OwnGroup(m)' \subseteq Sessions
            BY DEF OwnGroup, IInv, TypeOK
        <3>4. /\ Cardinality(OwnGroup(m)) \in Int
              /\ Cardinality(OwnGroup(m)') \in Int
            BY <3>3, Counting, ViewsAssumption
        <3>5. Cardinality(OwnGroup(m)) <= Cardinality(OwnGroup(m)')
            BY OwnGrows DEF IInv, TypeOK
        <3>6. tx[r].stage = "read" => tx[r].absences <= Cardinality(OwnGroup(m))
            BY <2>1, <3>2 DEF IInv, PageOK
        <3>7. tx[r].stage = "read" => tx[r].absences <= Cardinality(OwnGroup(m)')
            BY <3>8, <3>4, <3>5, <3>6
        <3>. QED
            BY <2>1, <3>2, <3>7 DEF PageOK, OwnGroup
    <2>2. CASE tx[r] = Idle \/ tx[r].page # "profile"
        BY <2>2 DEF IInv, PageOK
    <2>. QED
        BY <2>1, <2>2
<1>. QED
    BY <1>1 DEF IInv

\* What others do between two queries of a page keeps every page in range.
LEMMA OthersKeep ==
    ASSUME IInv, NEW s \in Sessions,
           \/ \E m \in Students : \/ Mark(s, m, "absent")
                                  \/ Mark(s, m, "present")
                                  \/ Delete(s, m)
                                  \/ AddStudent(s, m)
           \/ Materialise(s)
           \/ \E g \in Names : AddGroup(s, g)
    PROVE  IInv'
<1>1. ASSUME NEW m \in Students, NEW v \in {"absent", "present"}, Mark(s, m, v)
      PROVE  IInv'
    <2>1. mark' \in [Sessions \X Students -> Marks]
        BY <1>1 DEF Mark, IInv, TypeOK, Marks
    <2>2. \A k \in Sessions \X Students :
              mark'[k] # "none" => mark[k] # "none" \/ k = <<s, m>>
        BY <1>1 DEF Mark, IInv, TypeOK
    <2>3. TypeOK'
        BY <1>1, <2>1, <2>2 DEF Mark, IInv, TypeOK, Recorded
    <2>. QED
        BY <1>1, <2>3, CommitKeeps DEF Mark
<1>2. ASSUME NEW m \in Students, Delete(s, m) PROVE IInv'
    <2>1. mark' \in [Sessions \X Students -> Marks]
        BY <1>2 DEF Delete, IInv, TypeOK, Marks
    <2>2. \A k \in Sessions \X Students : mark'[k] # "none" => mark[k] # "none"
        BY <1>2 DEF Delete, IInv, TypeOK
    <2>3. TypeOK'
        BY <1>2, <2>1, <2>2 DEF Delete, IInv, TypeOK, Recorded
    <2>. QED
        BY <1>2, <2>3, CommitKeeps DEF Delete
<1>3. ASSUME NEW m \in Students, AddStudent(s, m) PROVE IInv'
    <2>1. TypeOK'
        BY <1>3 DEF AddStudent, IInv, TypeOK, Recorded
    <2>. QED
        BY <1>3, <2>1, CommitKeeps DEF AddStudent
<1>4. ASSUME Materialise(s) PROVE IInv'
    <2>1. ahead' \in Scenario /\ ahead'.sessions = ahead.sessions \ {s}
        BY <1>4 DEF Materialise, IInv, TypeOK, Scenario
    <2>2. TypeOK'
        BY <1>4, <2>1 DEF Materialise, IInv, TypeOK, Recorded
    <2>. QED
        BY <1>4, <2>2, CommitKeeps DEF Materialise
<1>5. ASSUME NEW g \in Names, AddGroup(s, g) PROVE IInv'
    <2>1. TypeOK'
        BY <1>5 DEF AddGroup, IInv, TypeOK, Recorded
    <2>. QED
        BY <1>5, <2>1, CommitKeeps DEF AddGroup
<1>. QED
    BY <1>1, <1>2, <1>3, <1>4, <1>5

\* And so does every step of the pages themselves.
LEMMA NextInv == IInv /\ [Next]_vars => IInv'
<1>. SUFFICES ASSUME IInv, [Next]_vars PROVE IInv'
    OBVIOUS
<1>1. ASSUME NEW r \in Readers, Serve(r) PROVE IInv'
    BY <1>1, ProfileAbsencesKeeps, ProfileTotalKeeps, StatsKeeps, SummaryReads,
       SummaryStoreKeeps DEF Serve
<1>2. CASE UNCHANGED vars
    <2>1. TypeOK'
        BY <1>2 DEF vars, IInv, TypeOK, Recorded
    <2>. QED
        BY <1>2, <2>1, CommitKeeps DEF vars
<1>. QED
    BY <1>1, <1>2, OthersKeep DEF Next

\* The tables, the figures on every page and the summaries stay in range,
\* whatever is recorded between the queries of a page.
THEOREM ViewsInductive == Spec => []IInv
<1>. QED
    BY InitInv, NextInv, PTL DEF Spec

\* An attendance rate stays between 0 and 100 %, no card counts a negative
\* number of students.
THEOREM ViewsTypeCorrect == Spec => []TypeOK
<1>1. IInv => TypeOK
    BY DEF IInv
<1>. QED
    BY <1>1, ViewsInductive, PTL

(***************************************************************************)
(* The pages agree.                                                        *)
(***************************************************************************)

\* When every entry has one of the keys, the weights add up to all of them.
LEMMA SumOfParts ==
    ASSUME NEW S, IsFiniteSet(S), NEW K, IsFiniteSet(K), NEW key,
           \A k \in K : key[k] \in S,
           NEW w, DOMAIN w = S,
           \A x \in S : w[x] = Cardinality({k \in K : key[k] = x})
    PROVE  SumFunction(w) = Cardinality(K)
<1>1. Keyed(K, key, S) = K
    BY DEF Keyed
<1>2. \A x : Keyed(K, key, {x}) = {k \in K : key[k] = x}
    BY DEF Keyed
<1>3. \A x \in S : w[x] = Cardinality(Keyed(K, key, {x}))
    BY <1>2
<1>. QED
    BY <1>1, <1>3, SumCounts

\* The values of a function on a finite set are finitely many.
LEMMA FiniteImage ==
    ASSUME NEW S, IsFiniteSet(S), NEW f, DOMAIN f = S, f = [x \in S |-> f[x]],
           NEW T, T = {f[x] : x \in S}
    PROVE  IsFiniteSet(T)
<1>1. f \in Surjection(S, T)
    BY DEF Surjection
<1>. QED
    BY <1>1, FS_Surjection

\* The keys by which pages group what they count are finitely many.
LEMMA FiniteKeys ==
    /\ IsFiniteSet(Levels) /\ IsFiniteSet(Months)
    /\ IsFiniteSet(Modules) /\ IsFiniteSet(Teachers)
    /\ IsFiniteSet(Teachers \X Modules)
<1>1. IsFiniteSet(Levels)
    <2>. DEFINE f == [m \in Students |-> Person[m].niveau]
    <2>1. /\ DOMAIN f = Students /\ f = [m \in Students |-> f[m]]
          /\ Levels = {f[m] : m \in Students}
        BY DEF Levels
    <2>. HIDE DEF f
    <2>. QED
        BY <2>1, FiniteImage, ViewsAssumption
<1>2. IsFiniteSet(Months)
    <2>. DEFINE f == [s \in Sessions |-> Class[s].date % 12]
    <2>1. /\ DOMAIN f = Sessions /\ f = [s \in Sessions |-> f[s]]
          /\ Months = {f[s] : s \in Sessions}
        BY DEF Months
    <2>. HIDE DEF f
    <2>. QED
        BY <2>1, FiniteImage, ViewsAssumption
<1>3. IsFiniteSet(Modules)
    <2>. DEFINE f == [s \in Sessions |-> Class[s].module]
    <2>1. /\ DOMAIN f = Sessions /\ f = [s \in Sessions |-> f[s]]
          /\ Modules = {f[s] : s \in Sessions}
        BY DEF Modules
    <2>. HIDE DEF f
    <2>. QED
        BY <2>1, FiniteImage, ViewsAssumption
<1>4. IsFiniteSet(Teachers)
    <2>. DEFINE f == [s \in Sessions |-> Class[s].teacher]
    <2>1. /\ DOMAIN f = Sessions /\ f = [s \in Sessions |-> f[s]]
          /\ Teachers = {f[s] : s \in Sessions}
        BY DEF Teachers
    <2>. HIDE DEF f
    <2>. QED
        BY <2>1, FiniteImage, ViewsAssumption
<1>. QED
    BY <1>1, <1>2, <1>3, <1>4, FS_Product

\* The records of absences of S, and those recorded at all, are finitely many.
LEMMA FiniteEntries ==
    ASSUME NEW S, S \subseteq Sessions, NEW K, K \subseteq S \X Students
    PROVE  IsFiniteSet(K)
<1>1. IsFiniteSet(Sessions \X Students)
    BY ViewsAssumption, FS_Product
<1>2. K \subseteq Sessions \X Students
    OBVIOUS
<1>. QED
    BY <1>1, <1>2, FS_Subset

\* The bars by level, the points by month and the bars by teacher and module
\* split the absences of a year.
LEMMA YearReconciles ==
    ASSUME TypeOK, NEW y
    PROVE  LET total == AbsencesOfAll(HeldIn(y))
           IN  /\ total = SumFunction([l \in Levels |-> LevelBar(y, l).absent])
               /\ total = SumFunction([d \in Months |-> MonthPoint(y, d)])
               /\ total = SumFunction([b \in Teachers \X Modules |->
                                           ModuleBar(b[1], y, b[2])])
<1>. DEFINE held == HeldIn(y)
            K == {k \in held \X Students : Absent(k[1], k[2])}
<1>1. held \subseteq live /\ held \subseteq Sessions
    BY DEF HeldIn, TypeOK
<1>2. IsFiniteSet(K)
    <2>1. K \subseteq held \X Students
        OBVIOUS
    <2>. HIDE DEF K
    <2>. QED
        BY <1>1, <2>1, FiniteEntries
<1>3. AbsencesOfAll(held) = Cardinality(K)
    BY DEF AbsencesOfAll
<1>4. \A k \in K : /\ k[1] \in held /\ k[2] \in Students /\ k = <<k[1], k[2]>>
                   /\ k[1] \in Sessions
    BY <1>1
<1>5. SumFunction([l \in Levels |-> LevelBar(y, l).absent]) = Cardinality(K)
    <2>. DEFINE key == [k \in K |-> Person[k[2]].niveau]
                w == [l \in Levels |-> LevelBar(y, l).absent]
    <2>1. \A k \in K : key[k] \in Levels
        BY <1>4 DEF Levels
    <2>2. ASSUME NEW l \in Levels
          PROVE  w[l] = Cardinality({k \in K : key[k] = l})
        <3>. DEFINE entries == {k \in held \X Students :
                                   /\ Recorded(k[1], k[2])
                                   /\ Person[k[2]].niveau = l}
        <3>1. {k \in entries : Absent(k[1], k[2])} = {k \in K : key[k] = l}
            BY DEF Absent, Recorded
        <3>2. w[l] = Cardinality({k \in entries : Absent(k[1], k[2])})
            BY DEF LevelBar
        <3>. QED
            BY <3>1, <3>2
    <2>3. DOMAIN w = Levels
        OBVIOUS
    <2>. HIDE DEF key, w, K
    <2>. QED
        BY <2>1, <2>2, <2>3, <1>2, FiniteKeys, SumOfParts DEF w
<1>6. SumFunction([d \in Months |-> MonthPoint(y, d)]) = Cardinality(K)
    <2>. DEFINE key == [k \in K |-> Class[k[1]].date % 12]
                w == [d \in Months |-> MonthPoint(y, d)]
    <2>1. \A k \in K : key[k] \in Months
        BY <1>4 DEF Months
    <2>2. ASSUME NEW d \in Months
          PROVE  w[d] = Cardinality({k \in K : key[k] = d})
        <3>. DEFINE S == {s \in held : Class[s].date % 12 = d}
        <3>1. {k \in S \X Students : Absent(k[1], k[2])} = {k \in K : key[k] = d}
            OBVIOUS
        <3>2. w[d] = Cardinality({k \in S \X Students : Absent(k[1], k[2])})
            BY DEF MonthPoint, AbsencesOfAll
        <3>. QED
            BY <3>1, <3>2
    <2>3. DOMAIN w = Months
        OBVIOUS
    <2>. HIDE DEF key, w, K
    <2>. QED
        BY <2>1, <2>2, <2>3, <1>2, FiniteKeys, SumOfParts DEF w
<1>7. SumFunction([b \in Teachers \X Modules |-> ModuleBar(b[1], y, b[2])])
          = Cardinality(K)
    <2>. DEFINE key == [k \in K |-> <<Class[k[1]].teacher, Class[k[1]].module>>]
                w == [b \in Teachers \X Modules |-> ModuleBar(b[1], y, b[2])]
    <2>1. \A k \in K : key[k] \in Teachers \X Modules
        BY <1>4 DEF Teachers, Modules
    <2>2. ASSUME NEW b \in Teachers \X Modules
          PROVE  w[b] = Cardinality({k \in K : key[k] = b})
        <3>. DEFINE S == Of(held \cap TaughtBy(b[1]), b[2])
        <3>1. S = {s \in held : Class[s].teacher = b[1] /\ Class[s].module = b[2]}
            BY <1>1 DEF Of, TaughtBy
        <3>4. PICK t \in Teachers, c \in Modules : b = <<t, c>>
            BY <2>2
        <3>5. \A k \in K : key[k] = b <=> Class[k[1]].teacher = b[1]
                                       /\ Class[k[1]].module = b[2]
            BY <3>4
        <3>2. {k \in S \X Students : Absent(k[1], k[2])} = {k \in K : key[k] = b}
            <4>. HIDE DEF key
            <4>. QED
                BY <3>1, <3>5
        <3>3. w[b] = Cardinality({k \in S \X Students : Absent(k[1], k[2])})
            BY DEF ModuleBar, AbsencesOfAll
        <3>. QED
            BY <3>2, <3>3
    <2>. DEFINE T == Teachers \X Modules
    <2>3. DOMAIN w = T /\ IsFiniteSet(T)
        BY FiniteKeys
    <2>4. /\ \A k \in K : key[k] \in T
          /\ \A b \in T : w[b] = Cardinality({k \in K : key[k] = b})
        BY <2>1, <2>2
    <2>5. SumFunction(w) = Cardinality(K)
        <3>. HIDE DEF key, w, K, T
        <3>. QED
            BY <2>3, <2>4, <1>2, SumOfParts
    <2>. QED
        BY <2>5
<1>. QED
    BY <1>3, <1>5, <1>6, <1>7

\* Counting a student's sessions is counting his records.
LEMMA OneStudent ==
    ASSUME NEW S, IsFiniteSet(S), NEW m
    PROVE  Cardinality(S) = Cardinality({<<s, m>> : s \in S})
<1>. DEFINE T == {<<s, m>> : s \in S}  f == [s \in S |-> <<s, m>>]
<1>1. f \in [S -> T]
    OBVIOUS
<1>2. \A a, b \in S : f[a] = f[b] => a = b
    OBVIOUS
<1>3. \A t \in T : \E s \in S : f[s] = t
    OBVIOUS
<1>4. f \in Bijection(S, T)
    <2>. HIDE DEF f, T
    <2>. QED
        BY <1>1, <1>2, <1>3, Fun_IsBij
<1>5. Cardinality(S) = Cardinality(T)
    <2>. HIDE DEF f, T
    <2>. QED
        BY <1>4, FS_Bijection DEF ExistsBijection
<1>. QED
    BY <1>5

\* And so is counting from one.
LEMMA OneSession ==
    ASSUME NEW S, IsFiniteSet(S), NEW s
    PROVE  Cardinality(S) = Cardinality({<<s, i>> : i \in S})
<1>. DEFINE T == {<<s, i>> : i \in S}  f == [i \in S |-> <<s, i>>]
<1>1. f \in [S -> T]
    OBVIOUS
<1>2. \A a, b \in S : f[a] = f[b] => a = b
    OBVIOUS
<1>3. \A p \in T : \E i \in S : f[i] = p
    OBVIOUS
<1>4. f \in Bijection(S, T)
    <2>. HIDE DEF f, T
    <2>. QED
        BY <1>1, <1>2, <1>3, Fun_IsBij
<1>5. Cardinality(S) = Cardinality(T)
    <2>. HIDE DEF f, T
    <2>. QED
        BY <1>4, FS_Bijection DEF ExistsBijection
<1>. QED
    BY <1>5

\* The totals of the students' list, and of their export, add up to the rows
\* of the absences export.
LEMMA ExportsReconcile ==
    ASSUME TypeOK
    PROVE  /\ SumFunction([m \in Students |-> ListedAbsences(m)])
                  = Cardinality(ExportedAbsences)
           /\ SumFunction([m \in Students |-> ExportedTotal(m)])
                  = Cardinality(ExportedRows)
<1>. DEFINE key == [k \in live \X Students |-> k[2]]
<1>1. ASSUME NEW K, K \subseteq live \X Students, NEW w, DOMAIN w = Students,
             \A m \in Students :
                 w[m] = Cardinality({s \in live : <<s, m>> \in K})
      PROVE  SumFunction(w) = Cardinality(K)
    <2>1. IsFiniteSet(K)
        BY <1>1, FiniteEntries DEF TypeOK
    <2>2. \A k \in K : key[k] \in Students
        BY <1>1
    <2>3. ASSUME NEW m \in Students
          PROVE  w[m] = Cardinality({k \in K : key[k] = m})
        <3>. DEFINE S == {s \in live : <<s, m>> \in K}
        <3>1. IsFiniteSet(S)
            <4>1. S \subseteq Sessions
                BY DEF TypeOK
            <4>. QED
                BY <4>1, Counting, ViewsAssumption
        <3>2. Cardinality(S) = Cardinality({<<s, m>> : s \in S})
            <4>. HIDE DEF S
            <4>. QED
                BY <3>1, OneStudent
        <3>3. {<<s, m>> : s \in S} = {k \in K : key[k] = m}
            <4>1. \A k \in K : k = <<k[1], k[2]>> /\ k[1] \in live
                              /\ key[k] = k[2]
                BY <1>1
            <4>2. \A s \in S : <<s, m>> \in K /\ key[<<s, m>>] = m
                BY <1>1, <4>1
            <4>3. \A k \in K : key[k] = m => k[1] \in S /\ k = <<k[1], m>>
                BY <1>1, <4>1
            <4>. HIDE DEF key, S
            <4>. QED
                BY <4>2, <4>3
        <3>. QED
            BY <1>1, <3>2, <3>3
    <2>. HIDE DEF key
    <2>. QED
        BY <1>1, <2>1, <2>2, <2>3, SumOfParts, ViewsAssumption
<1>2. SumFunction([m \in Students |-> ListedAbsences(m)])
          = Cardinality(ExportedAbsences)
    <2>. DEFINE w == [m \in Students |-> ListedAbsences(m)]
    <2>1. ExportedAbsences \subseteq live \X Students
        BY DEF ExportedAbsences, ExportedRows
    <2>2. ASSUME NEW m \in Students
          PROVE  w[m] = Cardinality({s \in live : <<s, m>> \in ExportedAbsences})
        <3>1. {s \in live : <<s, m>> \in ExportedAbsences}
                  = {s \in live : Absent(s, m)}
            BY DEF ExportedAbsences, ExportedRows, Absent, Recorded
        <3>. QED
            BY <3>1 DEF ListedAbsences, AbsencesIn
    <2>3. DOMAIN w = Students
        OBVIOUS
    <2>. HIDE DEF w
    <2>4. SumFunction(w) = Cardinality(ExportedAbsences)
        BY <1>1, <2>1, <2>2, <2>3
    <2>. QED
        BY <2>4 DEF w
<1>3. SumFunction([m \in Students |-> ExportedTotal(m)])
          = Cardinality(ExportedRows)
    <2>. DEFINE w == [m \in Students |-> ExportedTotal(m)]
    <2>1. ExportedRows \subseteq live \X Students
        BY DEF ExportedRows
    <2>2. ASSUME NEW m \in Students
          PROVE  w[m] = Cardinality({s \in live : <<s, m>> \in ExportedRows})
        <3>1. {s \in live : <<s, m>> \in ExportedRows}
                  = {s \in live : Recorded(s, m)}
            BY DEF ExportedRows, Recorded
        <3>. QED
            BY <3>1 DEF ExportedTotal
    <2>3. DOMAIN w = Students
        OBVIOUS
    <2>. HIDE DEF w
    <2>4. SumFunction(w) = Cardinality(ExportedRows)
        BY <1>1, <2>1, <2>2, <2>3
    <2>. QED
        BY <2>4 DEF w
<1>. QED
    BY <1>2, <1>3

\* A group has the absences that its teachers see in it.
LEMMA GroupReconciles ==
    ASSUME TypeOK, NEW g, NEW y
    PROVE  SumFunction([t \in Teachers |-> GroupCard(t, g, y).absences])
               = GroupRate(g, y, NULL, NULL).absences
<1>. DEFINE held == {s \in live : /\ Class[s].group = g
                                  /\ y # NULL => Class[s].year = y}
            K == {k \in held \X Students : Absent(k[1], k[2])}
            key == [k \in K |-> Class[k[1]].teacher]
            w == [t \in Teachers |-> GroupCard(t, g, y).absences]
<1>1. GroupRate(g, y, NULL, NULL).absences = Cardinality(K)
    BY DEF GroupRate, AbsencesOfAll
<1>2. IsFiniteSet(K)
    <2>1. held \subseteq Sessions /\ K \subseteq held \X Students
        BY DEF TypeOK
    <2>. HIDE DEF held, K
    <2>. QED
        BY <2>1, FiniteEntries
<1>3. \A k \in K : key[k] \in Teachers
    BY DEF Teachers, TypeOK
<1>4. ASSUME NEW t \in Teachers
      PROVE  w[t] = Cardinality({k \in K : key[k] = t})
    <2>. DEFINE S == GroupSessions(t, g, y)
    <2>1. S = {s \in held : Class[s].teacher = t}
        BY DEF GroupSessions, TaughtBy
    <2>2. {k \in S \X Students : Absent(k[1], k[2])} = {k \in K : key[k] = t}
        BY <2>1
    <2>3. w[t] = Cardinality({k \in S \X Students : Absent(k[1], k[2])})
        BY DEF GroupCard, AbsencesOfAll
    <2>. QED
        BY <2>2, <2>3
<1>5. DOMAIN w = Teachers
    OBVIOUS
<1>6. SumFunction(w) = Cardinality(K)
    <2>. HIDE DEF w, key, K
    <2>. QED
        BY <1>2, <1>3, <1>4, <1>5, FiniteKeys, SumOfParts
<1>. QED
    BY <1>1, <1>6

\* The lines of a teacher's profile split the sessions of the export; those
\* with students are the lines an administrator sees.
LEMMA LinesReconcile ==
    ASSUME TypeOK, NEW t
    PROVE  /\ SumFunction([l \in Lines(t) |-> Line(t, l).sessions])
                  = ExportedSessions(t)
           /\ AdminLines(t) = {l \in Lines(t) : Line(t, l).students > 0}
<1>. DEFINE K == TaughtBy(t)
            key == [s \in K |-> LineOf(s)]
            w == [l \in Lines(t) |-> Line(t, l).sessions]
            L == Lines(t)
            Mine(l) == {s \in K : LineOf(s) = l}
<1>1. K \subseteq Sessions /\ IsFiniteSet(K)
    <2>1. K \subseteq Sessions
        BY DEF TaughtBy, TypeOK
    <2>. QED
        BY <2>1, Counting, ViewsAssumption
<1>2. L = {key[s] : s \in K} /\ \A s \in K : key[s] \in L
    BY DEF Lines
<1>3. IsFiniteSet(L)
    <2>1. DOMAIN key = K /\ key = [s \in K |-> key[s]]
        OBVIOUS
    <2>. HIDE DEF key, K, L
    <2>. QED
        BY <1>1, <1>2, <2>1, FiniteImage
<1>4. ASSUME NEW l \in L
      PROVE  w[l] = Cardinality({s \in K : key[s] = l})
    <2>1. Mine(l) = {s \in K : key[s] = l}
        OBVIOUS
    <2>2. w[l] = Cardinality(Mine(l))
        BY DEF Line
    <2>. QED
        BY <2>1, <2>2
<1>5. SumFunction(w) = Cardinality(K)
    <2>1. DOMAIN w = L
        OBVIOUS
    <2>. HIDE DEF w, key, K, L
    <2>. QED
        BY <2>1, <1>1, <1>2, <1>3, <1>4, SumOfParts
<1>6. ASSUME NEW l \in L
      PROVE  Line(t, l).students > 0 <=> Known(Mine(l)) # {}
    <2>. DEFINE S == Known(Mine(l))
                f == [s \in S |-> summary[s]["total"]]
                P == {p \in S \X People : 0 < p[2] /\ p[2] <= f[p[1]]}
                first == [p \in P |-> p[1]]
    <2>1. /\ S \subseteq Sessions /\ DOMAIN f = S
          /\ \A s \in S : f[s] \in People /\ f[s] > 0
        BY <1>1, NullAssumption DEF Known, TypeOK, Summary
    <2>2. Line(t, l).students = SumFunction(f)
        BY DEF Line
    <2>3. IsFiniteSet(S) /\ IsFiniteSet(People) /\ Cardinality(Students) \in Nat
        <3>1. Cardinality(Students) \in Nat
            BY ViewsAssumption, FS_CardinalityType
        <3>2. IsFiniteSet(People)
            BY <3>1, FS_Interval DEF People
        <3>. HIDE DEF S
        <3>3. IsFiniteSet(S)
            BY <2>1, Counting, ViewsAssumption
        <3>. QED
            BY <3>1, <3>2, <3>3
    <2>. HIDE DEF S, f
    <2>4. IsFiniteSet(P)
        <3>1. IsFiniteSet(S \X People) /\ P \subseteq S \X People
            BY <2>3, FS_Product
        <3>. HIDE DEF P
        <3>. QED
            BY <3>1, FS_Subset
    <2>5. ASSUME NEW s \in S
          PROVE  f[s] = Cardinality({p \in P : first[p] = s})
        <3>1. {p \in P : first[p] = s} = {<<s, i>> : i \in 1..f[s]}
            BY <2>1, <2>3 DEF People
        <3>2. f[s] \in Nat
            BY <2>1, <2>3 DEF People
        <3>. DEFINE N == 1..f[s]
        <3>3. IsFiniteSet(N) /\ Cardinality(N) = f[s]
            BY <3>2, FS_Interval
        <3>4. {p \in P : first[p] = s} = {<<s, i>> : i \in N}
            BY <3>1
        <3>. HIDE DEF N
        <3>5. Cardinality(N) = Cardinality({<<s, i>> : i \in N})
            BY <3>3, OneSession
        <3>. QED
            BY <3>3, <3>4, <3>5
    <2>6. SumFunction(f) = Cardinality(P)
        <3>1. \A p \in P : first[p] \in S
            OBVIOUS
        <3>. HIDE DEF P, first
        <3>. QED
            BY <3>1, <2>1, <2>3, <2>4, <2>5, SumOfParts
    <2>7. P = {} <=> S = {}
        <3>1. ASSUME NEW s \in S PROVE <<s, f[s]>> \in P
            BY <2>1 DEF People
        <3>. QED
            BY <3>1
    <2>8. Cardinality(P) > 0 <=> P # {}
        <3>. HIDE DEF P
        <3>. QED
            BY <2>4, FS_EmptySet, FS_CardinalityType
    <2>. QED
        BY <2>2, <2>6, <2>7, <2>8 DEF S
<1>7. AdminLines(t) = {l \in L : Known(Mine(l)) # {}}
    BY DEF AdminLines, Lines, Known
<1>. QED
    BY <1>5, <1>6, <1>7 DEF ExportedSessions

\* The presences of a student in S are those in a part of it and in the rest.
LEMMA PresencesSplit ==
    ASSUME NEW m, NEW S, S \subseteq Sessions, NEW T, T \subseteq S
    PROVE  PresencesIn(m, S) = PresencesIn(m, T) + PresencesIn(m, S \ T)
<1>. DEFINE A == {s \in T : Present(s, m)}  B == {s \in S \ T : Present(s, m)}
<1>1. /\ {s \in S : Present(s, m)} = A \cup B /\ A \cap B = {}
      /\ A \subseteq Sessions /\ B \subseteq Sessions
    OBVIOUS
<1>2. PresencesIn(m, S) = Cardinality(A \cup B)
    BY <1>1 DEF PresencesIn
<1>3. PresencesIn(m, T) = Cardinality(A) /\ PresencesIn(m, S \ T) = Cardinality(B)
    BY DEF PresencesIn
<1>. HIDE DEF A, B
<1>4. /\ IsFiniteSet(A) /\ IsFiniteSet(B)
      /\ Cardinality(A) \in Nat /\ Cardinality(B) \in Nat
    BY <1>1, Counting, ViewsAssumption
<1>5. Cardinality(A \cup B) = Cardinality(A) + Cardinality(B) - Cardinality(A \cap B)
    BY <1>4, FS_Union
<1>6. Cardinality(A \cap B) = 0
    BY <1>1, FS_EmptySet
<1>. QED
    BY <1>2, <1>3, <1>4, <1>5, <1>6

\* The list and the history count the same presences, in two ways.
LEMMA ListMatches == TypeOK => ListMatchesHistory
<1>. SUFFICES ASSUME TypeOK, NEW t, NEW g, NEW y, NEW m
              PROVE  ListRow(t, g, y, m) = HistoryRow(t, g, y, m)
    BY DEF ListMatchesHistory
<1>. DEFINE base == GroupSessions(t, g, y)  all == Eligible(t, g, y)
<1>1. base \subseteq all
    BY DEF GroupSessions, Eligible, ModulesOf
<1>2. all \subseteq Sessions
    BY DEF Eligible, TaughtBy, TypeOK
<1>. HIDE DEF base, all
<1>3. PresencesIn(m, all) = PresencesIn(m, base) + PresencesIn(m, all \ base)
    BY <1>1, <1>2, PresencesSplit
<1>. QED
    BY <1>3 DEF ListRow, HistoryRow, base, all

\* The worst module of a student reaches a count when one of them does.
LEMMA WorstReaches ==
    ASSUME TypeOK, NEW m \in Students, NEW n \in Nat \ {0}
    PROVE  /\ Worst(m) \in Nat
           /\ Worst(m) >= n <=> m \in Reached(n, live)
<1>. DEFINE f == [c \in Modules |-> AbsencesIn(m, Of(live, c))]
            V == {f[c] : c \in Modules}
            S == {0} \cup V
<1>1. ASSUME NEW c PROVE AbsencesIn(m, Of(live, c)) \in Nat
    <2>1. Of(live, c) \subseteq Sessions
        BY DEF Of, TypeOK
    <2>2. Cardinality(Sessions) \in Nat
        BY ViewsAssumption, FS_CardinalityType
    <2>. QED
        BY <2>1, <2>2, CountsTyped DEF Counts
<1>2. V \subseteq Nat /\ S \subseteq Nat
    BY <1>1
<1>3. IsFiniteSet(V)
    <2>1. DOMAIN f = Modules /\ f = [c \in Modules |-> f[c]]
        OBVIOUS
    <2>. HIDE DEF f
    <2>. QED
        BY <2>1, FiniteImage, FiniteKeys
<1>4. IsFiniteSet(S)
    <2>. HIDE DEF V
    <2>. QED
        BY <1>3, FS_Union, FS_Singleton
<1>5. Worst(m) = Max(S)
    BY DEF Worst
<1>6. m \in Reached(n, live) <=> \E v \in V : v >= n
    BY DEF Reached
<1>. HIDE DEF V, f
<1>7. Max(S) \in S /\ \A v \in S : Max(S) >= v
    <2>1. S # {} /\ S \subseteq Int
        BY <1>2
    <2>. HIDE DEF S
    <2>. QED
        BY <1>4, <2>1, MaxExists
<1>8. PICK w \in S : Worst(m) = w /\ \A v \in S : w >= v
    BY <1>5, <1>7
<1>9. w >= n <=> \E v \in V : v >= n
    BY <1>2, <1>8
<1>. QED
    BY <1>2, <1>6, <1>8, <1>9

\* The administrators' two cards split the students at or past the warning.
LEMMA CardsReconcile ==
    ASSUME TypeOK
    PROVE  AtWarning(AtExclusion) = Cardinality(
               {m \in Students : Worst(m) >= Warning /\ Worst(m) < Maximum})
<1>. DEFINE W == Reached(Warning, live)  X == Reached(Maximum, live)
            B == {m \in Students : Worst(m) >= Warning /\ Worst(m) < Maximum}
<1>1. W \subseteq Students /\ X \subseteq Students
    BY DEF Reached
<1>2. \A m \in Students : /\ Worst(m) \in Nat
                          /\ Worst(m) >= Warning <=> m \in W
                          /\ Worst(m) >= Maximum <=> m \in X
    BY WorstReaches, ViewsAssumption
<1>. HIDE DEF W, X
<1>3. X \subseteq W /\ B = W \ X
    BY <1>1, <1>2, ViewsAssumption
<1>4. /\ IsFiniteSet(W) /\ Cardinality(W) \in Nat /\ Cardinality(X) \in Nat
      /\ Cardinality(X) <= Cardinality(W)
    BY <1>1, <1>3, Counting, ViewsAssumption
<1>5. Cardinality(W \ X) = Cardinality(W) - Cardinality(X)
    <2>1. W \cap X = X
        BY <1>3
    <2>. QED
        BY <1>4, <2>1, FS_Difference
<1>6. AtWarning(AtExclusion) = Max({Cardinality(W) - Cardinality(X), 0})
    BY DEF AtWarning, AtExclusion, W, X
<1>. HIDE DEF B
<1>7. Max({Cardinality(W) - Cardinality(X), 0}) = Cardinality(W) - Cardinality(X)
    BY <1>4, TwoOf
<1>. QED
    BY <1>3, <1>5, <1>6, <1>7 DEF B

\* A teacher's card counts the students of the alerts.
LEMMA AlertsReconcile ==
    ASSUME NEW t
    PROVE  AtRisk(t) = Cardinality({a.student : a \in Alerts(t)})
<1>. DEFINE n(k) == AbsencesIn(k[1], Of(TaughtBy(t), k[2]))
            K == {k \in Students \X Modules : n(k) >= Warning}
            R == Reached(Warning, TaughtBy(t))
            A == {a.student : a \in Alerts(t)}
<1>1. A = {k[1] : k \in K}
    <2>. DEFINE alert(k) == [student |-> k[1], module |-> k[2],
                             red |-> n(k) > Maximum]
    <2>1. Alerts(t) = {alert(k) : k \in K}
        BY DEF Alerts
    <2>2. \A k \in K : alert(k).student = k[1]
        OBVIOUS
    <2>. HIDE DEF K, alert
    <2>. QED
        BY <2>1, <2>2
<1>2. ASSUME NEW m \in R PROVE \E k \in K : k[1] = m
    <2>1. PICK c \in Modules : AbsencesIn(m, Of(TaughtBy(t), c)) >= Warning
        BY DEF Reached
    <2>2. m \in Students
        BY DEF Reached
    <2>3. <<m, c>> \in K
        BY <2>1, <2>2
    <2>. QED
        BY <2>3
<1>3. ASSUME NEW k \in K PROVE k[1] \in R
    BY DEF Reached
<1>4. A = R
    <2>. HIDE DEF K, R, A
    <2>. QED
        BY <1>1, <1>2, <1>3
<1>. QED
    BY <1>4 DEF AtRisk


\* A set of students has someone exactly when its count is not zero.
LEMMA SomeStudents ==
    ASSUME NEW S, S \subseteq Students
    PROVE  /\ IsFiniteSet(S) /\ Cardinality(S) \in Nat
           /\ Cardinality(S) > 0 <=> S # {}
<1>1. IsFiniteSet(S) /\ Cardinality(S) \in Nat
    BY Counting, ViewsAssumption
<1>. QED
    BY <1>1, FS_EmptySet

\* Two sets of students have at most as many together as apart.
LEMMA Together ==
    ASSUME NEW A, A \subseteq Students, NEW B, B \subseteq Students
    PROVE  Cardinality(A \cup B) <= Cardinality(A) + Cardinality(B)
<1>1. /\ IsFiniteSet(A) /\ IsFiniteSet(B)
      /\ Cardinality(A) \in Nat /\ Cardinality(B) \in Nat
      /\ Cardinality(A \cap B) \in Nat
    BY SomeStudents
<1>2. Cardinality(A \cup B) = Cardinality(A) + Cardinality(B) - Cardinality(A \cap B)
    BY <1>1, FS_Union
<1>. QED
    BY <1>1, <1>2

\* The pages of one session agree with each other, with the students' list
\* and with the planning export.
LEMMA SessionReconciles ==
    ASSUME TypeOK, NEW s \in live
    PROVE  LET list == StudentsOf(s)
               sheet == Sheet(s)
               now == Counted(s, Cardinality(Roster(s)))
           IN  /\ MySession(s).attended <=> now.present + now.absent > 0
               /\ ClassSize(s) <= Cardinality(Roster(s))
               /\ \A m \in Roster(s) :
                   list[m] = "absent" => sheet[m].absences > 0
               /\ now.pending <=
                   Cardinality({m \in Roster(s) : list[m] = "none"})
<1>. DEFINE P == {m \in Students : Present(s, m)}
            A == {m \in Students : Absent(s, m)}
            N == {m \in Roster(s) : StudentsOf(s)[m] = "none"}
            now == Counted(s, Cardinality(Roster(s)))
<1>1. s \in Sessions /\ Roster(s) \subseteq Students
    BY RosterTyped DEF TypeOK
<1>2. ASSUME NEW m \in Students
      PROVE  mark[<<s, m>>] \in {"none", "absent", "present"}
    BY <1>1 DEF TypeOK, Marks
<1>3. P \subseteq Students /\ A \subseteq Students /\ N \subseteq Students
    BY <1>1
<1>4. /\ now.present = Cardinality(P) /\ now.absent = Cardinality(A)
      /\ now.pending = Cardinality(Roster(s)) - Cardinality(P) - Cardinality(A)
    BY DEF Counted, Figures
<1>5. MySession(s).attended <=> P # {} \/ A # {}
    <2>1. MySession(s).attended <=> \E m \in Students : Recorded(s, m)
        BY DEF MySession
    <2>2. \A m \in Students : Recorded(s, m) <=> m \in P \/ m \in A
        BY <1>2 DEF Recorded, Present, Absent
    <2>. QED
        BY <2>1, <2>2
<1>6. \A m \in Roster(s) : m \in P \/ m \in A \/ m \in N
    BY <1>1, <1>2 DEF StudentsOf, Present, Absent
<1>7. ClassSize(s) <= Cardinality(Roster(s))
    <2>. DEFINE C == {m \in Students : /\ Person[m].groupe = Class[s].group
                                       /\ Person[m].niveau = Class[s].year}
    <2>1. ASSUME NEW m \in C PROVE m \in Roster(s)
        <3>1. Class[s].group \in SessionGroups(s) /\ m \in Members(Class[s].group)
            BY DEF SessionGroups, Members
        <3>. QED
            BY <3>1 DEF Roster
    <2>2. ClassSize(s) = Cardinality(C) /\ C \subseteq Roster(s)
        BY <2>1 DEF ClassSize
    <2>. HIDE DEF C
    <2>. QED
        BY <1>1, <2>2, SomeStudents, Counting
<1>8. ASSUME NEW m \in Roster(s), StudentsOf(s)[m] = "absent"
      PROVE  Sheet(s)[m].absences > 0
    <2>. DEFINE S == {x \in live : Absent(x, m)}
    <2>1. Sheet(s)[m].absences = Cardinality(S)
        BY DEF Sheet, ListedAbsences, AbsencesIn
    <2>2. s \in S /\ S \subseteq Sessions
        BY <1>8 DEF StudentsOf, Absent, TypeOK
    <2>. HIDE DEF S
    <2>3. IsFiniteSet(S) /\ Cardinality(S) \in Nat
        BY <2>2, Counting, ViewsAssumption
    <2>4. Cardinality(S) # 0
        BY <2>2, <2>3, FS_EmptySet
    <2>. QED
        BY <2>1, <2>3, <2>4
<1>. HIDE DEF P, A, N, now
<1>9. MySession(s).attended <=> now.present + now.absent > 0
    BY <1>3, <1>4, <1>5, SomeStudents
<1>10. now.pending <= Cardinality(N)
    <2>1. Roster(s) \subseteq (P \cup A) \cup N /\ P \cup A \subseteq Students
        BY <1>3, <1>6
    <2>2. /\ Cardinality(P) \in Nat /\ Cardinality(A) \in Nat
          /\ Cardinality(N) \in Nat /\ Cardinality(P \cup A) \in Nat
          /\ Cardinality(Roster(s)) \in Nat
        BY <1>1, <1>3, <2>1, SomeStudents
    <2>3. Cardinality(Roster(s)) <= Cardinality((P \cup A) \cup N)
        <3>1. IsFiniteSet((P \cup A) \cup N)
            BY <1>3, <2>1, SomeStudents, FS_Union
        <3>. QED
            BY <2>1, <3>1, Counting
    <2>4. /\ Cardinality((P \cup A) \cup N)
              <= Cardinality(P \cup A) + Cardinality(N)
          /\ Cardinality(P \cup A) <= Cardinality(P) + Cardinality(A)
        BY <1>3, <2>1, Together
    <2>5. Cardinality((P \cup A) \cup N) \in Nat
        <3>1. (P \cup A) \cup N \subseteq Students
            BY <1>3
        <3>. QED
            BY <3>1, SomeStudents
    <2>. QED
        BY <1>4, <2>2, <2>3, <2>4, <2>5
<1>. QED
    BY <1>7, <1>8, <1>9, <1>10 DEF N, now

\* A student misses no more sessions of a module than are held.
LEMMA ModulesReconcile ==
    ASSUME TypeOK, NEW m, NEW c
    PROVE  ModuleLine(m, c).missed <= ModuleLine(m, c).held
<1>1. Of(Exactly(m), c) \subseteq Sessions
    BY DEF Of, Exactly, TypeOK
<1>. QED
    BY <1>1, CountsTyped DEF ModuleLine

\* Whatever is recorded, all pages that count it agree.
LEMMA Reconciles == TypeOK => FiguresReconcile
<1>. SUFFICES ASSUME TypeOK PROVE FiguresReconcile
    OBVIOUS
<1>1. \A t \in Teachers :
        /\ AtRisk(t) = Cardinality({a.student : a \in Alerts(t)})
        /\ SumFunction([l \in Lines(t) |-> Line(t, l).sessions])
                = ExportedSessions(t)
        /\ AdminLines(t) = {l \in Lines(t) : Line(t, l).students > 0}
    BY AlertsReconcile, LinesReconcile
<1>2. \A g \in Names, y \in Levels \cup {NULL} :
        SumFunction([t \in Teachers |-> GroupCard(t, g, y).absences])
            = GroupRate(g, y, NULL, NULL).absences
    BY GroupReconciles
<1>3. \A m \in Students, c \in Modules :
        ModuleLine(m, c).missed <= ModuleLine(m, c).held
    BY ModulesReconcile
<1>. QED
    BY <1>1, <1>2, <1>3, CardsReconcile, YearReconciles, ExportsReconcile,
       SessionReconciles, Zenon DEF FiguresReconcile

\* A teacher reads the same attendance of a student in the list of the group
\* and in the student's history, in every reachable state.
THEOREM ViewsListMatchesHistory == Spec => []ListMatchesHistory
<1>. QED
    BY ListMatches, ViewsTypeCorrect, PTL

\* The same absences are behind every page: cards, alerts, bars, points,
\* profiles, lists and exports of one state add up to the same records.
THEOREM ViewsFiguresReconcile == Spec => []FiguresReconcile
<1>. QED
    BY Reconciles, ViewsTypeCorrect, PTL

================================================================================
