---------------------------- MODULE Accounts_proofs ----------------------------
(* Theorems about Accounts, for any requests, accounts and files.             *)
EXTENDS Accounts, FiniteSetTheorems, FunctionTheorems, TLAPS

\* A student's account has a matricule.
KeysInv == \A i \in OfRole("student") : accounts[i].key \in Keys

\* What a request writes to an account it has loaded, by its handler: no role
\* changes; only an edit changes the number, and neither that nor an import
\* opens or closes an account.
LoadedInv ==
    \A w \in InFlight : \A x \in tx[w].writes : x.loaded # Free =>
        /\ IsLive(x.id) /\ accounts[x.id].role = x.new.role
        /\ x.loaded.role = x.new.role
        /\ tx[w].op \in {"status", "import"} => x.new.key = x.loaded.key
        /\ tx[w].op # "status" => x.new.active = x.loaded.active

\* The id of an account to be created stays free until its request ends.
CreatedInv ==
    \A w \in InFlight : \A x \in tx[w].writes : x.loaded = Free =>
        /\ ~IsLive(x.id) /\ tx[w].op # "status"
        /\ \A v \in InFlight \ {w} : \A y \in tx[v].writes : y.id # x.id

\* Students are written with a matricule, by a request that also writes the
\* academic row of that matricule.
StudentsInv ==
    \A w \in InFlight : \A x \in tx[w].writes : x.new.role = "student" =>
        x.new.key \in Keys /\ tx[w].op # "staff"

\* Academic rows are never deleted.
ReadsInv ==
    \A w \in InFlight, k \in Keys :
        tx[w].academics[k] # Free => academics[k] # Free

\* The write gives its account an email that it does not have yet.
Renames(x) == x.loaded = Free \/ x.loaded.email # x.new.email

\* What a request has checked is still so while nothing overlaps it: no other
\* table has an email that it gives to an account.
AloneInv ==
    \A w \in InFlight : tx[w].alone =>
        /\ InFlight = {w}
        /\ tx[w].academics = academics
        /\ \A x \in tx[w].writes :
            /\ x.loaded # Free => x.loaded = accounts[x.id]
            /\ Renames(x) => \A i \in ByEmail(x.new.email) \ {x.id} :
                                accounts[i].role = x.new.role
        /\ \A x, y \in tx[w].writes :
            /\ x.new.role = y.new.role
            /\ x.id = y.id => x = y
            /\ x.new.role = "student" /\ x.new.key = y.new.key => x = y

\* The administrator who asked, or the one who is created, stays active.
AdminsInv ==
    \A w \in InFlight : tx[w].alone =>
        \E i \in Ids :
            /\ \A x \in tx[w].writes : x.id = i =>
                  x.new.role = "admin" /\ x.new.active
            /\ i \in ActiveAdmins \/ \E x \in tx[w].writes : x.id = i

IInv ==
    /\ TypeOK /\ StudentsAreAcademic /\ KeysInv /\ LoadedInv /\ CreatedInv
    /\ StudentsInv /\ ReadsInv /\ AloneInv /\ AdminsInv
-----------------------------------------------------------------------------
(* What an UPDATE writes.                                                  *)

\* Column by column, what the request has changed or what is there.
LEMMA MergedAccount ==
    ASSUME NEW current \in Account, NEW loaded \in Account, NEW new \in Account
    PROVE  LET row == Merged(current, loaded, new) IN
           /\ row \in Account
           /\ row.role = IF new.role = loaded.role THEN current.role
                                                   ELSE new.role
           /\ row.email = IF new.email = loaded.email THEN current.email
                                                      ELSE new.email
           /\ row.key = IF new.key = loaded.key THEN current.key ELSE new.key
           /\ row.active = IF new.active = loaded.active THEN current.active
                                                         ELSE new.active
           /\ loaded = current => row = new
<1>1. loaded # Free
    BY MarksAssumption
<1>2. DOMAIN new = {"role", "email", "key", "group", "level", "active"}
    BY DEF Account
<1>. DEFINE val(c) == IF new[c] = loaded[c] THEN current[c] ELSE new[c]
<1>3. Merged(current, loaded, new) = [c \in DOMAIN new |-> val(c)]
    BY <1>1 DEF Merged
<1>4. Merged(current, loaded, new) =
        [role |-> val("role"), email |-> val("email"), key |-> val("key"),
         group |-> val("group"), level |-> val("level"),
         active |-> val("active")]
    BY <1>2, <1>3
<1>5. Merged(current, loaded, new) \in Account
    BY <1>4 DEF Account
<1>6. loaded = current => Merged(current, loaded, new) = new
    BY <1>4 DEF Account
<1>. QED
    BY <1>4, <1>5, <1>6

\* An UPDATE that writes what a request has changed leaves an academic row.
LEMMA MergedAcademic ==
    ASSUME NEW current \in Academic \cup {Free},
           NEW loaded \in Academic \cup {Free}, NEW new \in Academic,
           loaded # Free => current # Free
    PROVE  LET row == Merged(current, loaded, new) IN
           /\ row \in Academic
           /\ loaded = current => row = new
<1>1. CASE loaded = Free
    BY <1>1 DEF Merged
<1>2. CASE loaded # Free
    <2>. DEFINE val(c) == IF new[c] = loaded[c] THEN current[c] ELSE new[c]
    <2>1. DOMAIN new = {"group", "email"}
        BY DEF Academic
    <2>2. Merged(current, loaded, new)
            = [group |-> val("group"), email |-> val("email")]
        BY <1>2, <2>1 DEF Merged
    <2>. QED
        BY <1>2, <2>2 DEF Academic
<1>. QED
    BY <1>1, <1>2

\* The row that a request would write to an account now.
LEMMA RowTyped ==
    ASSUME IInv, NEW w \in InFlight, NEW x \in tx[w].writes
    PROVE  /\ tx[w] \in Request /\ x \in Write
           /\ Row(x) \in Account /\ Row(x).role = x.new.role
           /\ x.loaded = Free => Row(x) = x.new
           /\ x.loaded # Free =>
                /\ x.loaded \in Account /\ accounts[x.id] \in Account
                /\ Row(x).key = IF x.new.key = x.loaded.key
                                THEN accounts[x.id].key ELSE x.new.key
                /\ Row(x).active = IF x.new.active = x.loaded.active
                                   THEN accounts[x.id].active ELSE x.new.active
                /\ x.loaded = accounts[x.id] => Row(x) = x.new
<1>1. tx[w] \in Request /\ x \in Write
    BY DEF IInv, TypeOK, InFlight, Request
<1>2. x.id \in Ids /\ x.loaded \in Account \cup {Free} /\ x.new \in Account
    BY <1>1 DEF Write
<1>3. CASE x.loaded = Free
    BY <1>1, <1>2, <1>3 DEF Row, Merged
<1>4. CASE x.loaded # Free
    <2>1. accounts[x.id] \in Account /\ accounts[x.id].role = x.new.role
        BY <1>2, <1>4 DEF IInv, TypeOK, LoadedInv, IsLive
    <2>. QED
        BY <1>1, <1>2, <1>4, <2>1, MergedAccount DEF Row
<1>. QED
    BY <1>3, <1>4
-----------------------------------------------------------------------------
(* The invariant is inductive.                                             *)

\* The accounts that are there at first satisfy the invariant.
LEMMA InitInv == Init => IInv
<1>. SUFFICES ASSUME Init PROVE IInv
    OBVIOUS
<1>1. \A i \in Ids : accounts[i] = IF i \in DOMAIN Existing THEN Existing[i]
                                                            ELSE Free
    BY DEF Init
<1>2. InFlight = {}
    BY DEF Init, InFlight
<1>3. \A i \in Live : i \in DOMAIN Existing /\ accounts[i] = Existing[i]
    BY <1>1 DEF Live, IsLive
<1>4. accounts \in [Ids -> Account \cup {Free}]
    BY <1>1, ExistingAssumption DEF Init
<1>5. \A i, j \in Live : i # j => ~SameKey(accounts[i], accounts[j])
    BY <1>3, ExistingAssumption DEF SameKey
<1>6. OfRole("student") = {}
    BY <1>3, ExistingAssumption DEF OfRole
<1>7. academics \in [Keys -> Academic \cup {Free}]
    BY DEF Init
<1>8. TypeOK
    BY <1>4, <1>5, <1>7 DEF Init, TypeOK
<1>. QED
    BY <1>2, <1>6, <1>8 DEF IInv, StudentsAreAcademic, KeysInv, LoadedInv,
       CreatedInv, StudentsInv, ReadsInv, AloneInv, AdminsInv

\* There are ids for as many new accounts as the bound has left, one each.
LEMMA NewIdsFit ==
    ASSUME NEW rows, IsFiniteSet(rows),
           Cardinality(rows) <= Cardinality(FreeIds)
    PROVE  /\ NewIds(rows) \in [rows -> FreeIds]
           /\ \A r, q \in rows : NewIds(rows)[r] = NewIds(rows)[q] => r = q
<1>1. IsFiniteSet(FreeIds)
    BY FS_Subset, InputsAssumption DEF FreeIds
<1>. DEFINE n == Cardinality(rows)
            m == Cardinality(FreeIds)
<1>2. n \in Nat /\ m \in Nat /\ ExistsBijection(1..n, rows)
        /\ ExistsBijection(1..m, FreeIds)
    BY <1>1, FS_CardinalityType
<1>3. PICK f \in Bijection(rows, 1..n) : TRUE
    BY <1>2, Fun_ExistsBijSymmetric DEF ExistsBijection
<1>4. PICK g \in Bijection(1..m, FreeIds) : TRUE
    BY <1>2 DEF ExistsBijection
<1>. DEFINE h == [r \in rows |-> g[f[r]]]
<1>5. f \in [rows -> 1..n] /\ \A r, q \in rows : f[r] = f[q] => r = q
    BY <1>3 DEF Bijection, Injection, IsInjective
<1>6. g \in [1..m -> FreeIds] /\ \A i, j \in 1..m : g[i] = g[j] => i = j
    BY <1>4 DEF Bijection, Injection, IsInjective
<1>7. \A r \in rows : f[r] \in 1..m
    BY <1>2, <1>5
<1>8. h \in [rows -> FreeIds] /\ IsInjective(h)
    BY <1>5, <1>6, <1>7 DEF IsInjective
<1>9. NewIds(rows) \in [rows -> FreeIds] /\ IsInjective(NewIds(rows))
    BY <1>8 DEF NewIds
<1>. QED
    BY <1>9 DEF IsInjective

\* What a handler has made sure of when it begins to write.
Sound(op, writes) ==
    /\ writes \in SUBSET Write
    /\ \A x \in writes :
        /\ x.loaded # Free =>
            /\ IsLive(x.id) /\ x.loaded = accounts[x.id]
            /\ x.new.role = x.loaded.role
            /\ op \in {"status", "import"} => x.new.key = x.loaded.key
            /\ op # "status" => x.new.active = x.loaded.active
        /\ x.loaded = Free => x.id \in FreeIds /\ op # "status"
        /\ x.new.role = "student" => x.new.key \in Keys /\ op # "staff"
        /\ Renames(x) => \A i \in ByEmail(x.new.email) \ {x.id} :
                            accounts[i].role = x.new.role
    /\ \A x, y \in writes :
        /\ x.new.role = y.new.role
        /\ x.id = y.id => x = y
        /\ x.new.role = "student" /\ x.new.key = y.new.key => x = y
    /\ \E i \in Ids :
        /\ \A x \in writes : x.id = i => x.new.role = "admin" /\ x.new.active
        /\ i \in ActiveAdmins \/ \E x \in writes : x.id = i

\* A request that begins with sound writes, and makes others no longer alone.
LEMMA BeginKeeps ==
    ASSUME IInv, NEW w \in Workers, NEW writes,
           NEW op \in {"register", "update", "staff", "status", "import"},
           Sound(op, writes), Begin(w, op, writes)
    PROVE  IInv'
<1>. DEFINE t == [op |-> op, writes |-> writes, academics |-> academics,
                  phase |-> "read", alone |-> InFlight = {}]
<1>1. /\ tx[w] = Idle /\ tx'[w] = t /\ UNCHANGED <<accounts, academics>>
      /\ \A v \in Workers \ {w} : tx'[v] = IF tx[v] = Idle THEN Idle
                                          ELSE [tx[v] EXCEPT !.alone = FALSE]
    BY DEF Begin
<1>2. t \in Request
    BY DEF Sound, Request, IInv, TypeOK
<1>3. ASSUME NEW v \in InFlight
      PROVE  /\ v \in Workers \ {w} /\ tx'[v] \in Request
             /\ tx'[v].op = tx[v].op /\ tx'[v].writes = tx[v].writes
             /\ tx'[v].academics = tx[v].academics /\ ~tx'[v].alone
    <2>1. tx[v] \in Request /\ v \in Workers \ {w} /\ tx[v] # Idle
        BY <1>1 DEF IInv, TypeOK, InFlight
    <2>. QED
        BY <1>1, <2>1 DEF Request
<1>4. InFlight' = InFlight \cup {w}
    BY <1>1, <1>2, <1>3, IdleAssumption DEF InFlight
<1>5. /\ Live' = Live /\ OfRole("student")' = OfRole("student")
      /\ ActiveAdmins' = ActiveAdmins
      /\ \A e \in Emails : ByEmail(e)' = ByEmail(e)
      /\ \A i \in Ids : IsLive(i)' = IsLive(i)
    BY <1>1 DEF Live, IsLive, OfRole, ActiveAdmins, ByEmail
<1>. HIDE DEF t
<1>6. /\ t.op = op /\ t.writes = writes /\ t.academics = academics
      /\ t.alone <=> InFlight = {}
    BY DEF t
<1>7. TypeOK'
    <2>1. \A v \in Workers : tx'[v] \in Request \cup {Idle}
        BY <1>1, <1>2, <1>3 DEF InFlight, t
    <2>2. tx' \in [Workers -> Request \cup {Idle}]
        BY <2>1 DEF Begin
    <2>. QED
        BY <1>1, <1>5, <2>2 DEF IInv, TypeOK, SameKey
<1>8. StudentsAreAcademic' /\ KeysInv'
    BY <1>1, <1>5 DEF IInv, StudentsAreAcademic, KeysInv
<1>9. \A x \in writes : x \in Write /\ x.id \in Ids
    BY DEF Sound, Write
<1>10. \A v \in InFlight : \A x \in tx[v].writes : x \in Write /\ x.id \in Ids
    BY DEF IInv, TypeOK, InFlight, Request, Write
<1>11. LoadedInv'
    BY <1>1, <1>3, <1>4, <1>5, <1>6, <1>9, <1>10
       DEF IInv, LoadedInv, Sound
<1>12. CreatedInv'
    <2>1. \A x \in writes : \A v \in InFlight : \A y \in tx[v].writes :
              x.loaded = Free => y.id # x.id /\ ~IsLive(x.id)
        BY DEF Sound, FreeIds, Live
    <2>2. \A x \in writes : \A v \in InFlight : \A y \in tx[v].writes :
              y.loaded = Free => y.id # x.id
        BY <2>1 DEF Sound, IInv, CreatedInv
    <2>3. \A x \in writes : x.loaded = Free => ~IsLive(x.id) /\ op # "status"
        BY <1>9 DEF Sound, FreeIds, Live
    <2>. QED
        BY <1>1, <1>3, <1>4, <1>5, <1>6, <1>9, <1>10, <2>1, <2>2, <2>3
           DEF IInv, CreatedInv
<1>13. StudentsInv'
    BY <1>1, <1>3, <1>4, <1>6 DEF IInv, StudentsInv, Sound
<1>14. ReadsInv'
    BY <1>1, <1>3, <1>4, <1>6 DEF IInv, ReadsInv
<1>15. \A v \in InFlight' : tx'[v].alone => v = w /\ InFlight' = {w}
    BY <1>1, <1>3, <1>4, <1>6
<1>16. AloneInv'
    <2>1. \A x \in writes : x.new.email \in Emails
        BY <1>9 DEF Write, Account
    <2>. QED
        BY <1>1, <1>5, <1>6, <1>15, <2>1 DEF AloneInv, Sound
<1>17. AdminsInv'
    BY <1>1, <1>5, <1>6, <1>15 DEF AdminsInv, Sound
<1>. QED
    BY <1>7, <1>8, <1>11, <1>12, <1>13, <1>14, <1>16, <1>17 DEF IInv

\* An account entered under an email that no other has.
LEMMA InsertKeeps ==
    ASSUME IInv, NEW w \in Workers, NEW op \in {"register", "staff"},
           NEW row \in Account, Insert(w, op, row),
           EmailIsFree(row.email), row.active,
           row.role = "student" => row.key \in Keys /\ op # "staff",
           ActiveAdmins # {} \/ row.role = "admin"
    PROVE  IInv'
<1>1. PICK i \in FreeIds :
          Begin(w, op, {[id |-> i, loaded |-> Free, new |-> row]})
    BY DEF Insert
<1>. DEFINE x == [id |-> i, loaded |-> Free, new |-> row]
<1>2. x \in Write /\ i \in Ids /\ i \notin Live
    BY DEF Write, FreeIds
<1>3. \E a \in Ids : /\ a = i => row.role = "admin" /\ row.active
                     /\ a \in ActiveAdmins \/ a = i
    BY <1>2 DEF ActiveAdmins, OfRole, Live
<1>4. Sound(op, {x})
    BY <1>2, <1>3 DEF Sound, EmailIsFree
<1>. QED
    BY <1>1, <1>4, BeginKeeps

\* An account edited as it was loaded.
LEMMA ChangeKeeps ==
    ASSUME IInv, NEW w \in Workers, NEW op \in {"update", "staff", "status"},
           NEW i \in Live, NEW row \in Account, Change(w, op, i, row),
           row.role = accounts[i].role,
           op = "status" => row.key = accounts[i].key,
           op # "status" => row.active = accounts[i].active,
           row.email # accounts[i].email => ByEmail(row.email) \subseteq {i},
           row.role = "student" => row.key \in Keys /\ op # "staff",
           \E a \in ActiveAdmins : a = i => row.active
    PROVE  IInv'
<1>. DEFINE x == [id |-> i, loaded |-> accounts[i], new |-> row]
<1>1. accounts[i] \in Account /\ i \in Ids /\ IsLive(i)
    BY DEF IInv, TypeOK, Live, IsLive
<1>2. x \in Write
    BY <1>1 DEF Write
<1>3. accounts[i] # Free
    BY <1>1, MarksAssumption
<1>4. \E a \in Ids : /\ a = i => row.role = "admin" /\ row.active
                     /\ a \in ActiveAdmins
    BY DEF ActiveAdmins, OfRole, Live
<1>5. Sound(op, {x})
    BY <1>1, <1>2, <1>3, <1>4 DEF Sound, Renames
<1>. QED
    BY <1>5, BeginKeeps DEF Change

\* An account with the fields that a PATCH sends, and no others, replaced.
LEMMA PatchedAccount ==
    ASSUME NEW i, accounts[i] \in Account, NEW s,
           NEW sent \in SUBSET {"email", "key", "group", "level"},
           "email" \in sent => s.email \in Emails,
           "key" \in sent => s.key \in Keys,
           "group" \in sent => s.group \in Groups \cup {NULL},
           "level" \in sent => s.level \in {"super", "regular", NULL}
    PROVE  LET row == Patched(i, s, sent) IN
           /\ row \in Account /\ row.role = accounts[i].role
           /\ row.active = accounts[i].active
           /\ row.email = IF "email" \in sent THEN s.email
                                             ELSE accounts[i].email
           /\ row.key = IF "key" \in sent THEN s.key ELSE accounts[i].key
<1>. DEFINE val(c) == IF c \in sent THEN s[c] ELSE accounts[i][c]
<1>1. DOMAIN accounts[i] = {"role", "email", "key", "group", "level", "active"}
    BY DEF Account
<1>2. "role" \notin sent /\ "active" \notin sent
    OBVIOUS
<1>3. Patched(i, s, sent) =
        [role |-> accounts[i].role, email |-> val("email"), key |-> val("key"),
         group |-> val("group"), level |-> val("level"),
         active |-> accounts[i].active]
    BY <1>1, <1>2 DEF Patched
<1>. QED
    BY <1>3 DEF Account

\* A change of status changes the status.
LEMMA StatusSet ==
    ASSUME NEW a \in Account, NEW b \in BOOLEAN
    PROVE  [a EXCEPT !.active = b].active = b
BY DEF Account

\* A request that enters one account, new or edited, keeps the invariant.
LEMMA EntriesKeep ==
    ASSUME IInv, NEW w \in Workers,
           \/ \E s \in Students : RegisterStudent(w, s)
           \/ \E a \in Staff :
                RegisterTeacher(w, a) \/ RegisterAdmin(w, a) \/ Bootstrap(w, a)
           \/ \E i \in Ids, s \in Students, sent \in SUBSET Fields["student"] :
                UpdateStudent(w, i, s, sent)
           \/ \E i \in Ids, a \in Staff : \E sent \in SUBSET Fields[a.role] :
                UpdateStaff(w, i, a, sent)
           \/ \E i, j \in Ids, b \in BOOLEAN : SetStatus(w, i, j, b)
    PROVE  IInv'
<1>1. CASE \E s \in Students : RegisterStudent(w, s)
    <2>1. PICK s \in Students : RegisterStudent(w, s)
        BY <1>1
    <2>2. NewStudent(s) \in Account /\ NewStudent(s).email = s.email
            /\ NewStudent(s).active /\ NewStudent(s).key \in Keys
        BY InputsAssumption DEF NewStudent, Account, Entered
    <2>. QED
        BY <2>1, <2>2, InsertKeeps DEF RegisterStudent
<1>2. CASE \E a \in Staff :
            RegisterTeacher(w, a) \/ RegisterAdmin(w, a) \/ Bootstrap(w, a)
    <2>1. PICK a \in Staff :
            RegisterTeacher(w, a) \/ RegisterAdmin(w, a) \/ Bootstrap(w, a)
        BY <1>2
    <2>2. a \in Account /\ a.role # "student" /\ a.active
        BY InputsAssumption
    <2>3. ASSUME NEW level \in {"super", "regular"}
          PROVE  LET row == [a EXCEPT !.level = level] IN
                 /\ row \in Account /\ row.role = a.role
                 /\ row.email = a.email /\ row.active = a.active
        BY <2>2 DEF Account
    <2>4. CASE RegisterTeacher(w, a)
        BY <2>2, <2>4, InsertKeeps DEF RegisterTeacher
    <2>5. CASE RegisterAdmin(w, a)
        BY <2>2, <2>3, <2>5, InsertKeeps DEF RegisterAdmin
    <2>6. CASE Bootstrap(w, a)
        BY <2>2, <2>3, <2>6, InsertKeeps DEF Bootstrap
    <2>. QED
        BY <2>1, <2>4, <2>5, <2>6
<1>3. CASE \E i \in Ids, s \in Students, sent \in SUBSET Fields["student"] :
            UpdateStudent(w, i, s, sent)
    <2>1. PICK i \in Ids, s \in Students, sent \in SUBSET Fields["student"] :
            UpdateStudent(w, i, s, sent)
        BY <1>3
    <2>. DEFINE row == Patched(i, s, sent)
    <2>2. /\ i \in Live /\ accounts[i] \in Account
          /\ accounts[i].role = "student" /\ accounts[i].key \in Keys
        BY <2>1 DEF UpdateStudent, OfRole, Live, IsLive, IInv, TypeOK, KeysInv
    <2>3. s \in Entered /\ sent \in SUBSET {"email", "key", "group"}
        BY <2>1, InputsAssumption DEF Fields
    <2>4. /\ row \in Account /\ row.role = "student" /\ row.key \in Keys
          /\ row.email = IF "email" \in sent THEN s.email ELSE accounts[i].email
          /\ row.active = accounts[i].active
        <3>1. /\ s.email \in Emails /\ s.key \in Keys
              /\ s.group \in Groups \cup {NULL} /\ "level" \notin sent
            BY <2>3 DEF Entered
        <3>2. sent \in SUBSET {"email", "key", "group", "level"}
            BY <2>3
        <3>. QED
            BY <2>2, <3>1, <3>2, PatchedAccount
    <2>5. \E a \in ActiveAdmins : a # i
        BY <2>1, <2>2 DEF UpdateStudent, MayPatch, ActiveAdmins, OfRole
    <2>6. /\ Change(w, "update", i, row)
          /\ row.email # accounts[i].email => ByEmail(row.email) \subseteq {i}
        BY <2>1, <2>4 DEF UpdateStudent, MayPatch
    <2>. HIDE DEF row
    <2>. QED
        BY <2>1, <2>2, <2>4, <2>5, <2>6, ChangeKeeps
<1>4. CASE \E i \in Ids, a \in Staff : \E sent \in SUBSET Fields[a.role] :
            UpdateStaff(w, i, a, sent)
    <2>1. PICK i \in Ids, a \in Staff :
            \E sent \in SUBSET Fields[a.role] : UpdateStaff(w, i, a, sent)
        BY <1>4
    <2>0. PICK sent \in SUBSET Fields[a.role] : UpdateStaff(w, i, a, sent)
        BY <2>1
    <2>. DEFINE row == Patched(i, a, sent)
    <2>2. a \in Account /\ a.role \in {"teacher", "admin"}
        BY InputsAssumption DEF Account
    <2>3. /\ i \in Live /\ accounts[i] \in Account
          /\ accounts[i].role = a.role
        BY <2>0 DEF UpdateStaff, OfRole, Live, IsLive, IInv, TypeOK
    <2>4. /\ row \in Account /\ row.role = a.role
          /\ row.email = IF "email" \in sent THEN a.email ELSE accounts[i].email
          /\ row.active = accounts[i].active
        <3>1. sent \in SUBSET {"email", "key", "level"}
            BY <2>0, <2>2 DEF UpdateStaff, Fields
        <3>2. /\ a.email \in Emails /\ a.level \in {"super", "regular", NULL}
              /\ "key" \in sent => a.key \in Keys
            BY <2>0, <2>2 DEF UpdateStaff, MayPatch, Account
        <3>3. sent \in SUBSET {"email", "key", "group", "level"}
                /\ "group" \notin sent
            BY <3>1
        <3>. QED
            BY <2>3, <3>2, <3>3, PatchedAccount
    <2>5. \E b \in ActiveAdmins : b = i => row.active
        BY <2>0, <2>4 DEF UpdateStaff, MayPatch, ActiveAdmins
    <2>6. /\ Change(w, "staff", i, row)
          /\ row.email # accounts[i].email => ByEmail(row.email) \subseteq {i}
        BY <2>0, <2>4 DEF UpdateStaff, MayPatch
    <2>. HIDE DEF row
    <2>. QED
        BY <2>2, <2>3, <2>4, <2>5, <2>6, ChangeKeeps
<1>5. CASE \E i, j \in Ids, b \in BOOLEAN : SetStatus(w, i, j, b)
    <2>1. PICK admin \in Ids, i \in Ids, b \in BOOLEAN :
              SetStatus(w, admin, i, b)
        BY <1>5
    <2>. DEFINE row == [accounts[i] EXCEPT !.active = b]
    <2>2. /\ i \in Live /\ accounts[i] \in Account
          /\ admin \in ActiveAdmins /\ (admin # i \/ b)
        BY <2>1 DEF SetStatus, Live, IsLive, IInv, TypeOK
    <2>3. /\ row \in Account /\ row.role = accounts[i].role
          /\ row.key = accounts[i].key /\ row.email = accounts[i].email
        BY <2>2 DEF Account
    <2>4. row.role = "student" => row.key \in Keys
        BY <2>2, <2>3 DEF IInv, KeysInv, OfRole
    <2>5. \E a \in ActiveAdmins : a = i => row.active
        <3>1. row.active = b
            BY <2>2, StatusSet
        <3>. QED
            BY <2>2, <3>1
    <2>6. Change(w, "status", i, row)
        BY <2>1 DEF SetStatus
    <2>. HIDE DEF row
    <2>. QED
        BY <2>2, <2>3, <2>4, <2>5, <2>6, ChangeKeeps
<1>. QED
    BY <1>1, <1>2, <1>3, <1>4, <1>5

\* The students of a file: those with an account keep its number, the others
\* get a free id each.
LEMMA ImportStudentsKeeps ==
    ASSUME IInv, NEW w \in Workers, NEW f \in StudentFiles, ImportStudents(w, f)
    PROVE  IInv'
<1>. DEFINE known == {r \in f : ByEmail(r.email) # {}}
            owner(r) == CHOOSE i \in ByEmail(r.email) : TRUE
            ids == NewIds(f \ known)
            old(r) == [id |-> owner(r), loaded |-> accounts[owner(r)],
                       new |-> [accounts[owner(r)] EXCEPT !.group = r.group]]
            fresh(r) == [id |-> ids[r], loaded |-> Free, new |-> NewStudent(r)]
            writes == {old(r) : r \in known} \cup {fresh(r) : r \in f \ known}
<1>1. /\ ActiveAdmins # {} /\ Begin(w, "import", writes)
      /\ \A r \in known : \A i \in ByEmail(r.email) :
            accounts[i].role = "student" /\ accounts[i].key = r.key
      /\ Cardinality(f \ known) <= Cardinality(FreeIds)
    <2>1. Begin(w, "import", writes)
        BY DEF ImportStudents, Imports
    <2>2. \A r \in known : \A i \in ByEmail(r.email) :
              accounts[i].role = "student" /\ accounts[i].key = r.key
        BY DEF ImportStudents
    <2>3. Cardinality(f \ known) <= Cardinality(FreeIds)
        BY DEF ImportStudents
    <2>. QED
        BY <2>1, <2>2, <2>3 DEF ImportStudents
<1>2. IsFiniteSet(f \ known) /\ \A r \in f : r \in Entered
    BY FS_Subset, InputsAssumption
<1>3. /\ \A r \in f \ known : ids[r] \in FreeIds
      /\ \A r, q \in f \ known : ids[r] = ids[q] => r = q
    <2>. DEFINE rows == f \ known
    <2>1. IsFiniteSet(rows) /\ Cardinality(rows) <= Cardinality(FreeIds)
        BY <1>1, <1>2
    <2>. HIDE DEF rows, known, old, fresh, writes
    <2>2. /\ NewIds(rows) \in [rows -> FreeIds]
          /\ \A r, q \in rows : NewIds(rows)[r] = NewIds(rows)[q] => r = q
        BY <2>1, NewIdsFit
    <2>. QED
        BY <2>2 DEF rows
<1>4. ASSUME NEW r \in known
      PROVE  /\ owner(r) \in Live /\ owner(r) \in Ids
             /\ accounts[owner(r)] \in Account /\ IsLive(owner(r))
             /\ accounts[owner(r)].email = r.email
             /\ accounts[owner(r)].role = "student"
             /\ accounts[owner(r)].key = r.key
    <2>1. owner(r) \in ByEmail(r.email)
        OBVIOUS
    <2>. HIDE DEF owner
    <2>. QED
        BY <1>1, <2>1 DEF ByEmail, Live, IsLive, IInv, TypeOK
<1>. HIDE DEF owner, ids
<1>5. ASSUME NEW r \in known
      PROVE  LET x == old(r) IN
             /\ x \in Write /\ x.loaded # Free /\ x.id = owner(r)
             /\ x.loaded = accounts[x.id] /\ x.new.role = "student"
             /\ x.new.key = r.key /\ x.new.email = r.email
             /\ x.new.active = x.loaded.active
    <2>1. r \in Entered
        BY <1>2
    <2>. QED
        BY <1>4, <2>1, MarksAssumption DEF Write, Account, Entered
<1>6. ASSUME NEW r \in f \ known
      PROVE  LET x == fresh(r) IN
             /\ x \in Write /\ x.loaded = Free /\ x.id = ids[r]
             /\ x.new.role = "student" /\ x.new.key = r.key
             /\ x.new.email = r.email
    BY <1>2, <1>3 DEF NewStudent, Write, Account, Entered, FreeIds
<1>. HIDE DEF old, fresh
<1>7. ASSUME NEW x \in writes
      PROVE  \E r \in f : /\ IF r \in known THEN x = old(r) ELSE x = fresh(r)
                          /\ x \in Write /\ x.new.role = "student"
                          /\ x.new.key = r.key /\ x.new.email = r.email
    BY <1>5, <1>6
<1>8. ASSUME NEW x \in writes
      PROVE  /\ x.loaded # Free =>
                /\ IsLive(x.id) /\ x.loaded = accounts[x.id]
                /\ x.loaded.role = "student"
                /\ x.new.key = x.loaded.key /\ x.new.active = x.loaded.active
             /\ x.loaded = Free => x.id \in FreeIds
             /\ x.new.key \in Keys
             /\ \A i \in ByEmail(x.new.email) : accounts[i].role = "student"
    <2>1. PICK r \in f : /\ IF r \in known THEN x = old(r) ELSE x = fresh(r)
                         /\ x.new.key = r.key /\ x.new.email = r.email
        BY <1>7
    <2>2. r.key \in Keys /\ \A i \in ByEmail(r.email) :
                                accounts[i].role = "student"
        BY <1>1, <1>2 DEF Entered
    <2>3. CASE r \in known
        BY <1>4, <1>5, <2>1, <2>2, <2>3
    <2>4. CASE r \notin known
        BY <1>3, <1>6, <2>1, <2>2, <2>4
    <2>. QED
        BY <2>3, <2>4
<1>9. ASSUME NEW x \in writes, NEW y \in writes,
             x.id = y.id \/ x.new.key = y.new.key
      PROVE  x = y
    <2>1. PICK r \in f : /\ IF r \in known THEN x = old(r) ELSE x = fresh(r)
                         /\ x.new.key = r.key
        BY <1>7
    <2>2. PICK q \in f : /\ IF q \in known THEN y = old(q) ELSE y = fresh(q)
                         /\ y.new.key = q.key
        BY <1>7
    <2>3. r.key = q.key => x = y
        <3>1. r.key = q.key => r = q
            BY FilesAssumption
        <3>. QED
            BY <2>1, <2>2, <3>1
    <2>4. CASE r \in known /\ q \in known
        BY <1>4, <1>5, <1>9, <2>1, <2>2, <2>3, <2>4
    <2>5. CASE r \notin known /\ q \notin known
        BY <1>3, <1>6, <1>9, <2>1, <2>2, <2>3, <2>5
    <2>6. CASE ~(r \in known <=> q \in known)
        <3>1. ASSUME NEW a \in known, NEW b \in f \ known
              PROVE  old(a).id # fresh(b).id
            <4>1. old(a).id = owner(a) /\ owner(a) \in Live
                BY <1>4, <1>5
            <4>2. fresh(b).id = ids[b] /\ ids[b] \in FreeIds
                BY <1>3, <1>6
            <4>. QED
                BY <4>1, <4>2 DEF FreeIds
        <3>. QED
            BY <1>9, <2>1, <2>2, <2>3, <2>6, <3>1
    <2>. QED
        BY <2>4, <2>5, <2>6
<1>10. \E i \in ActiveAdmins : \A x \in writes : x.id # i
    <2>1. PICK i \in ActiveAdmins : TRUE
        BY <1>1
    <2>2. i \in Live /\ accounts[i].role = "admin"
        BY <2>1 DEF ActiveAdmins, OfRole
    <2>. QED
        BY <1>8, <2>1, <2>2 DEF FreeIds
<1>11. \A x \in writes : x \in Write /\ x.new.role = "student"
    BY <1>7
<1>12. Sound("import", writes)
    <2>1. \E i \in Ids : (\A x \in writes : x.id # i) /\ i \in ActiveAdmins
        BY <1>10 DEF ActiveAdmins, OfRole, Live
    <2>. HIDE DEF writes
    <2>. QED
        BY <1>8, <1>9, <1>11, <2>1 DEF Sound
<1>. QED
    BY <1>1, <1>12, BeginKeeps

\* Whom get_user_by_email finds has the email; nobody has one it does not find.
LEMMA FoundFacts ==
    ASSUME IInv, NEW e
    PROVE  /\ FoundByEmail(e) \subseteq ByEmail(e)
           /\ FoundByEmail(e) = {} => ByEmail(e) = {}
<1>1. \A i \in ByEmail(e) : \/ i \in OfRole("admin")
                            \/ i \in OfRole("teacher")
                            \/ i \in OfRole("student")
    BY DEF ByEmail, OfRole, Live, IsLive, IInv, TypeOK, Account
<1>. QED
    BY <1>1 DEF FoundByEmail

\* The teachers of a file: those with an account keep their number and get the
\* file's email, which nobody has if it is new to them; the others get a free
\* id each.
LEMMA ImportTeachersKeeps ==
    ASSUME IInv, NEW w \in Workers, NEW f \in TeacherFiles, ImportTeachers(w, f)
    PROVE  IInv'
<1>. DEFINE known == {r \in f : ByKey("teacher", r.key) # {}}
            owner(r) == CHOOSE i \in ByKey("teacher", r.key) : TRUE
            ids == NewIds(f \ known)
            old(r) == [id |-> owner(r), loaded |-> accounts[owner(r)],
                       new |-> [accounts[owner(r)] EXCEPT !.email = r.email]]
            fresh(r) == [id |-> ids[r], loaded |-> Free,
                         new |-> [role |-> "teacher", email |-> r.email,
                                  key |-> r.key, group |-> NULL,
                                  level |-> NULL, active |-> TRUE]]
            writes == {old(r) : r \in known} \cup {fresh(r) : r \in f \ known}
<1>1. /\ ActiveAdmins # {} /\ Begin(w, "import", writes)
      /\ \A r \in f : FoundByEmail(r.email) \subseteq
                          (IF r \in known THEN {owner(r)} ELSE {})
      /\ Cardinality(f \ known) <= Cardinality(FreeIds)
    <2>1. Begin(w, "import", writes)
        BY DEF ImportTeachers, Imports
    <2>2. \A r \in f : FoundByEmail(r.email) \subseteq
                           (IF r \in known THEN {owner(r)} ELSE {})
        BY DEF ImportTeachers
    <2>3. Cardinality(f \ known) <= Cardinality(FreeIds)
        BY DEF ImportTeachers
    <2>. QED
        BY <2>1, <2>2, <2>3 DEF ImportTeachers
<1>2. IsFiniteSet(f \ known) /\ \A r \in f : r \in [email : Emails, key : Keys]
    BY FS_Subset, InputsAssumption
<1>3. /\ \A r \in f \ known : ids[r] \in FreeIds
      /\ \A r, q \in f \ known : ids[r] = ids[q] => r = q
    <2>. DEFINE rows == f \ known
    <2>1. IsFiniteSet(rows) /\ Cardinality(rows) <= Cardinality(FreeIds)
        BY <1>1, <1>2
    <2>. HIDE DEF rows, known, old, fresh, writes
    <2>2. /\ NewIds(rows) \in [rows -> FreeIds]
          /\ \A r, q \in rows : NewIds(rows)[r] = NewIds(rows)[q] => r = q
        BY <2>1, NewIdsFit
    <2>. QED
        BY <2>2 DEF rows
<1>4. ASSUME NEW r \in known
      PROVE  /\ owner(r) \in Live /\ owner(r) \in Ids
             /\ accounts[owner(r)] \in Account /\ IsLive(owner(r))
             /\ accounts[owner(r)].role = "teacher"
             /\ accounts[owner(r)].key = r.key
    <2>1. owner(r) \in ByKey("teacher", r.key)
        OBVIOUS
    <2>. HIDE DEF owner
    <2>. QED
        BY <1>1, <2>1 DEF ByKey, OfRole, Live, IsLive, IInv, TypeOK
<1>. HIDE DEF owner, ids
<1>5. ASSUME NEW r \in known
      PROVE  LET x == old(r) IN
             /\ x \in Write /\ x.loaded # Free /\ x.id = owner(r)
             /\ x.loaded = accounts[x.id] /\ x.new.role = "teacher"
             /\ x.new.key = r.key /\ x.new.email = r.email
             /\ x.new.active = x.loaded.active
    <2>1. r.email \in Emails
        BY <1>2
    <2>. QED
        BY <1>4, <2>1, MarksAssumption DEF Write, Account
<1>6. ASSUME NEW r \in f \ known
      PROVE  LET x == fresh(r) IN
             /\ x \in Write /\ x.loaded = Free /\ x.id = ids[r]
             /\ x.new.role = "teacher" /\ x.new.key = r.key
             /\ x.new.email = r.email
    BY <1>2, <1>3 DEF Write, Account, FreeIds
<1>. HIDE DEF old, fresh
<1>7. ASSUME NEW x \in writes
      PROVE  \E r \in f : /\ IF r \in known THEN x = old(r) ELSE x = fresh(r)
                          /\ x \in Write /\ x.new.role = "teacher"
                          /\ x.new.key = r.key /\ x.new.email = r.email
    BY <1>5, <1>6
<1>8. ASSUME NEW x \in writes
      PROVE  /\ x.loaded # Free =>
                /\ IsLive(x.id) /\ x.loaded = accounts[x.id]
                /\ x.loaded.role = "teacher"
                /\ x.new.key = x.loaded.key /\ x.new.active = x.loaded.active
             /\ x.loaded = Free => x.id \in FreeIds
             /\ Renames(x) => ByEmail(x.new.email) = {}
    <2>1. PICK r \in f : /\ IF r \in known THEN x = old(r) ELSE x = fresh(r)
                         /\ x.new.key = r.key /\ x.new.email = r.email
        BY <1>7
    <2>3. CASE r \in known
        <3>1. x.loaded = accounts[owner(r)] /\ x.loaded # Free
            BY <1>5, <2>1, <2>3
        <3>2. Renames(x) => owner(r) \notin ByEmail(r.email)
            BY <2>1, <3>1 DEF Renames, ByEmail
        <3>3. FoundByEmail(r.email) \subseteq {owner(r)}
            BY <1>1, <2>3
        <3>4. Renames(x) => FoundByEmail(r.email) = {}
            BY <3>2, <3>3, FoundFacts
        <3>5. Renames(x) => ByEmail(r.email) = {}
            BY <3>4, FoundFacts
        <3>. QED
            BY <1>4, <1>5, <2>1, <2>3, <3>5
    <2>4. CASE r \notin known
        <3>1. FoundByEmail(r.email) = {}
            BY <1>1, <2>4
        <3>2. ByEmail(r.email) = {}
            BY <3>1, FoundFacts
        <3>. QED
            BY <1>3, <1>6, <2>1, <2>4, <3>2
    <2>. QED
        BY <2>3, <2>4
<1>9. ASSUME NEW x \in writes, NEW y \in writes, x.id = y.id
      PROVE  x = y
    <2>1. PICK r \in f : /\ IF r \in known THEN x = old(r) ELSE x = fresh(r)
                         /\ x.new.key = r.key
        BY <1>7
    <2>2. PICK q \in f : /\ IF q \in known THEN y = old(q) ELSE y = fresh(q)
                         /\ y.new.key = q.key
        BY <1>7
    <2>3. r.key = q.key => x = y
        <3>1. r.key = q.key => r = q
            BY FilesAssumption
        <3>. QED
            BY <2>1, <2>2, <3>1
    <2>4. CASE r \in known /\ q \in known
        BY <1>4, <1>5, <1>9, <2>1, <2>2, <2>3, <2>4
    <2>5. CASE r \notin known /\ q \notin known
        BY <1>3, <1>6, <1>9, <2>1, <2>2, <2>3, <2>5
    <2>6. CASE ~(r \in known <=> q \in known)
        <3>1. ASSUME NEW a \in known, NEW b \in f \ known
              PROVE  old(a).id # fresh(b).id
            <4>1. old(a).id = owner(a) /\ owner(a) \in Live
                BY <1>4, <1>5
            <4>2. fresh(b).id = ids[b] /\ ids[b] \in FreeIds
                BY <1>3, <1>6
            <4>. QED
                BY <4>1, <4>2 DEF FreeIds
        <3>. QED
            BY <1>9, <2>1, <2>2, <2>6, <3>1
    <2>. QED
        BY <2>4, <2>5, <2>6
<1>10. \E i \in ActiveAdmins : \A x \in writes : x.id # i
    <2>1. PICK i \in ActiveAdmins : TRUE
        BY <1>1
    <2>2. i \in Live /\ accounts[i].role = "admin"
        BY <2>1 DEF ActiveAdmins, OfRole
    <2>. QED
        BY <1>8, <2>1, <2>2 DEF FreeIds
<1>11. \A x \in writes : x \in Write /\ x.new.role = "teacher"
    BY <1>7
<1>12. Sound("import", writes)
    <2>1. \E i \in Ids : (\A x \in writes : x.id # i) /\ i \in ActiveAdmins
        BY <1>10 DEF ActiveAdmins, OfRole, Live
    <2>. HIDE DEF writes
    <2>. QED
        BY <1>8, <1>9, <1>11, <2>1 DEF Sound
<1>. QED
    BY <1>1, <1>12, BeginKeeps

\* A request that ends leaves behind only requests that it has overlapped.
LEMMA EndFacts ==
    ASSUME IInv, NEW w \in InFlight, tx' = [tx EXCEPT ![w] = Idle]
    PROVE  /\ InFlight' = InFlight \ {w} /\ w \in Workers
           /\ \A v \in InFlight' : /\ v \in InFlight \ {w}
                                   /\ tx'[v] = tx[v] /\ ~tx[v].alone
           /\ tx' \in [Workers -> Request \cup {Idle}]
           /\ AloneInv' /\ AdminsInv'
<1>1. /\ w \in Workers /\ tx' \in [Workers -> Request \cup {Idle}]
      /\ \A v \in Workers : tx'[v] = IF v = w THEN Idle ELSE tx[v]
    BY DEF InFlight, IInv, TypeOK
<1>2. InFlight' = InFlight \ {w}
    BY <1>1 DEF InFlight
<1>3. \A v \in InFlight' : /\ v \in InFlight \ {w}
                           /\ tx'[v] = tx[v] /\ ~tx[v].alone
    BY <1>1, <1>2 DEF InFlight, IInv, AloneInv
<1>. QED
    BY <1>1, <1>2, <1>3 DEF AloneInv, AdminsInv

\* A request that rolls back leaves the tables as they were.
LEMMA AbortKeeps == ASSUME IInv, NEW w \in Workers, Abort(w) PROVE IInv'
<1>1. w \in InFlight /\ tx' = [tx EXCEPT ![w] = Idle]
        /\ UNCHANGED <<accounts, academics>>
    BY DEF Abort, InFlight
<1>2. /\ Live' = Live /\ OfRole("student")' = OfRole("student")
      /\ \A i \in Ids : IsLive(i)' = IsLive(i)
    BY <1>1 DEF Live, IsLive, OfRole
<1>3. TypeOK' /\ StudentsAreAcademic' /\ KeysInv'
    BY <1>1, <1>2, EndFacts
       DEF IInv, TypeOK, StudentsAreAcademic, KeysInv, SameKey
<1>4. LoadedInv' /\ CreatedInv' /\ StudentsInv' /\ ReadsInv'
    <2>1. /\ InFlight' \subseteq InFlight
          /\ \A v \in InFlight' : tx'[v] = tx[v]
        BY <1>1, EndFacts
    <2>2. LoadedInv'
        BY <1>1, <2>1 DEF IInv, LoadedInv, IsLive
    <2>3. CreatedInv'
        BY <1>1, <2>1 DEF IInv, CreatedInv, IsLive
    <2>4. StudentsInv' /\ ReadsInv'
        BY <1>1, <2>1 DEF IInv, StudentsInv, ReadsInv
    <2>. QED
        BY <2>2, <2>3, <2>4
<1>. QED
    BY <1>1, <1>3, <1>4, EndFacts DEF IInv

\* A flush reads the academic rows and takes the locks, and changes no row.
LEMMA FlushKeeps == ASSUME IInv, NEW w \in Workers, Flush(w) PROVE IInv'
<1>. DEFINE t == [tx[w] EXCEPT !.phase = "written", !.academics = academics]
<1>1. /\ w \in InFlight /\ tx' = [tx EXCEPT ![w] = t]
      /\ UNCHANGED <<accounts, academics>>
    BY DEF Flush, InFlight, IInv, TypeOK
<1>2. tx[w] \in Request
    BY <1>1 DEF IInv, TypeOK, InFlight
<1>3. /\ t \in Request /\ t.op = tx[w].op /\ t.writes = tx[w].writes
      /\ t.alone = tx[w].alone /\ t.academics = academics
    BY <1>2 DEF Request, IInv, TypeOK
<1>. HIDE DEF t
<1>4. \A v \in Workers : tx'[v] = IF v = w THEN t ELSE tx[v]
    BY <1>1 DEF IInv, TypeOK
<1>5. InFlight' = InFlight
    BY <1>1, <1>3, <1>4, IdleAssumption DEF InFlight
<1>6. /\ Live' = Live /\ OfRole("student")' = OfRole("student")
      /\ ActiveAdmins' = ActiveAdmins
      /\ \A i \in Ids : IsLive(i)' = IsLive(i)
    BY <1>1 DEF Live, IsLive, OfRole, ActiveAdmins
<1>7. TypeOK' /\ StudentsAreAcademic' /\ KeysInv'
    BY <1>1, <1>3, <1>6
       DEF IInv, TypeOK, StudentsAreAcademic, KeysInv, SameKey
<1>8. LoadedInv' /\ CreatedInv' /\ StudentsInv' /\ ReadsInv'
    BY <1>1, <1>3, <1>4, <1>5
       DEF IInv, LoadedInv, CreatedInv, StudentsInv, ReadsInv, IsLive, InFlight
<1>9. AloneInv'
    <2>1. \A e : ByEmail(e)' = ByEmail(e)
        BY <1>1, <1>6 DEF ByEmail
    <2>2. \A v \in InFlight :
              /\ tx'[v].writes = tx[v].writes /\ tx'[v].op = tx[v].op
              /\ tx'[v].alone = tx[v].alone
              /\ tx'[v].academics = IF v = w THEN academics
                                             ELSE tx[v].academics
        BY <1>3, <1>4 DEF InFlight
    <2>. QED
        BY <1>1, <1>5, <2>1, <2>2 DEF IInv, AloneInv
<1>10. AdminsInv'
    BY <1>1, <1>3, <1>4, <1>5, <1>6 DEF IInv, AdminsInv, InFlight
<1>. QED
    BY <1>7, <1>8, <1>9, <1>10 DEF IInv

\* What a commit leaves in the tables: rows as written or as they were, no
\* account removed or given another role, and still no key in use twice.
LEMMA StoreFacts ==
    ASSUME IInv, NEW w \in InFlight, Store(w)
    PROVE  /\ tx' = [tx EXCEPT ![w] = Idle]
           /\ accounts' \in [Ids -> Account \cup {Free}]
           /\ \A i \in Ids :
                \/ \E x \in tx[w].writes : x.id = i /\ accounts'[i] = Row(x)
                \/ /\ \A x \in tx[w].writes : x.id # i
                   /\ accounts'[i] = accounts[i]
           /\ \A i \in Live : /\ i \in Live'
                              /\ accounts'[i].role = accounts[i].role
           /\ \A i, j \in Live' : i # j =>
                ~SameKey(accounts'[i], accounts'[j])
<1>. DEFINE W == tx[w].writes
<1>1. /\ tx' = [tx EXCEPT ![w] = Idle] /\ ~Conflict(w)
      /\ accounts' = [i \in Ids |-> IF \E x \in W : x.id = i
                                    THEN Row(CHOOSE x \in W : x.id = i)
                                    ELSE accounts[i]]
    BY DEF Store
<1>2. ASSUME NEW i \in Ids
      PROVE  \/ \E x \in W : x.id = i /\ accounts'[i] = Row(x)
             \/ (\A x \in W : x.id # i) /\ accounts'[i] = accounts[i]
    <2>1. CASE \E x \in W : x.id = i
        <3>1. PICK x \in W : x.id = i /\ x = CHOOSE z \in W : z.id = i
            BY <2>1
        <3>2. accounts'[i] = Row(CHOOSE z \in W : z.id = i)
            BY <1>1, <2>1
        <3>. QED
            BY <3>1, <3>2
    <2>2. CASE \A x \in W : x.id # i
        BY <1>1, <2>2
    <2>. QED
        BY <2>1, <2>2
<1>3. accounts' \in [Ids -> Account \cup {Free}]
    <2>1. \A i \in Ids : accounts'[i] \in Account \cup {Free}
        BY <1>2, RowTyped DEF IInv, TypeOK
    <2>2. accounts' = [i \in Ids |-> accounts'[i]]
        BY <1>1
    <2>. QED
        BY <2>1, <2>2
<1>4. ASSUME NEW i \in Live
      PROVE  i \in Live' /\ accounts'[i].role = accounts[i].role
    <2>1. i \in Ids /\ accounts[i] \in Account /\ accounts[i] # Free
        BY DEF Live, IsLive, IInv, TypeOK
    <2>2. CASE \E x \in W : x.id = i /\ accounts'[i] = Row(x)
        <3>1. PICK x \in W : x.id = i /\ accounts'[i] = Row(x)
            BY <2>2
        <3>2. x.loaded # Free
            BY <2>1, <3>1 DEF IInv, CreatedInv, IsLive
        <3>3. accounts[i].role = x.new.role
            BY <3>1, <3>2 DEF IInv, LoadedInv
        <3>. QED
            BY <2>1, <3>1, <3>3, RowTyped, MarksAssumption DEF Live, IsLive
    <2>3. CASE accounts'[i] = accounts[i]
        BY <2>1, <2>3 DEF Live, IsLive
    <2>. QED
        BY <1>2, <2>1, <2>2, <2>3
<1>5. ASSUME NEW i \in Live', NEW j \in Live', i # j,
             SameKey(accounts'[i], accounts'[j])
      PROVE  FALSE
    <2>1. i \in Ids /\ j \in Ids
        BY DEF Live
    <2>2. SameKey(accounts'[j], accounts'[i])
        BY <1>5 DEF SameKey
    <2>3. ASSUME NEW x \in W, NEW k \in Ids, x.id # k, accounts'[k] = accounts[k],
                 k \in Live', SameKey(accounts[k], Row(x))
          PROVE  FALSE
        <3>1. k \in Live
            BY <2>3 DEF Live, IsLive
        <3>. QED
            BY <1>1, <2>3, <3>1 DEF Conflict
    <2>4. ASSUME NEW x \in W, NEW y \in W, x.id # y.id, SameKey(Row(y), Row(x))
          PROVE  FALSE
        BY <1>1, <2>4 DEF Conflict
    <2>5. CASE accounts'[i] = accounts[i] /\ accounts'[j] = accounts[j]
        BY <1>5, <2>1, <2>5 DEF Live, IsLive, IInv, TypeOK
    <2>. QED
        BY <1>2, <1>5, <2>1, <2>2, <2>3, <2>4, <2>5
<1>. QED
    BY <1>1, <1>2, <1>3, <1>4, <1>5

\* A commit keeps the invariant if the academic rows of the students it writes
\* are there afterwards, and none is lost.
LEMMA StoreKeeps ==
    ASSUME IInv, NEW w \in InFlight, Store(w),
           academics' \in [Keys -> Academic \cup {Free}],
           \A k \in Keys : academics[k] # Free => academics'[k] # Free,
           \A x \in tx[w].writes :
              x.new.role = "student" /\ tx[w].op # "status" =>
                  academics'[x.new.key] # Free
    PROVE  IInv'
<1>1. TypeOK'
    BY StoreFacts, EndFacts DEF TypeOK
<1>2. ASSUME NEW i \in OfRole("student")'
      PROVE  accounts'[i].key \in Keys /\ academics'[accounts'[i].key] # Free
    <2>1. i \in Ids /\ accounts'[i] # Free /\ accounts'[i].role = "student"
        BY DEF OfRole, Live, IsLive
    <2>2. CASE accounts'[i] = accounts[i]
        <3>1. i \in OfRole("student")
            BY <2>1, <2>2 DEF OfRole, Live, IsLive
        <3>. QED
            BY <2>2, <3>1 DEF IInv, KeysInv, StudentsAreAcademic
    <2>3. CASE \E x \in tx[w].writes : x.id = i /\ accounts'[i] = Row(x)
        <3>1. PICK x \in tx[w].writes : x.id = i /\ accounts'[i] = Row(x)
            BY <2>3
        <3>2. x.new.role = "student" /\ x.new.key \in Keys
            BY <2>1, <3>1, RowTyped DEF IInv, StudentsInv
        <3>3. CASE x.loaded = Free
            <4>1. tx[w].op # "status"
                BY <3>1, <3>3 DEF IInv, CreatedInv
            <4>. QED
                BY <3>1, <3>2, <3>3, <4>1, RowTyped
        <3>4. CASE x.loaded # Free
            <4>1. i \in OfRole("student")
                BY <2>1, <3>1, <3>2, <3>4
                   DEF IInv, LoadedInv, OfRole, Live
            <4>2. /\ accounts[i].key \in Keys
                  /\ academics[accounts[i].key] # Free
                BY <4>1 DEF IInv, KeysInv, StudentsAreAcademic
            <4>3. CASE x.new.key = x.loaded.key
                BY <3>1, <3>4, <4>2, <4>3, RowTyped
            <4>4. CASE x.new.key # x.loaded.key
                <5>1. tx[w].op # "status"
                    BY <3>1, <3>4, <4>4 DEF IInv, LoadedInv
                <5>. QED
                    BY <3>1, <3>2, <3>4, <4>4, <5>1, RowTyped
            <4>. QED
                BY <4>3, <4>4
        <3>. QED
            BY <3>3, <3>4
    <2>. QED
        BY <2>1, <2>2, <2>3, StoreFacts
<1>3. StudentsAreAcademic' /\ KeysInv'
    BY <1>2 DEF StudentsAreAcademic, KeysInv
<1>4. /\ InFlight' \subseteq InFlight \ {w} /\ AloneInv' /\ AdminsInv'
      /\ \A v \in InFlight' : tx'[v] = tx[v]
    BY StoreFacts, EndFacts
<1>5. ASSUME NEW v \in InFlight', NEW y \in tx[v].writes
      PROVE  y.id \in Ids
    BY <1>4 DEF IInv, TypeOK, InFlight, Request, Write
<1>6. LoadedInv'
    <2>1. ASSUME NEW v \in InFlight', NEW y \in tx[v].writes, y.loaded # Free
          PROVE  accounts'[y.id] # Free /\ accounts'[y.id].role = y.new.role
        <3>1. y.id \in Live /\ accounts[y.id].role = y.new.role
            BY <1>4, <1>5, <2>1 DEF IInv, LoadedInv, Live
        <3>. QED
            BY <3>1, StoreFacts DEF Live, IsLive
    <2>. QED
        BY <1>4, <2>1 DEF IInv, LoadedInv, IsLive
<1>7. CreatedInv'
    <2>1. ASSUME NEW v \in InFlight', NEW y \in tx[v].writes, y.loaded = Free
          PROVE  accounts'[y.id] = Free
        <3>1. \A x \in tx[w].writes : x.id # y.id
            BY <1>4, <2>1 DEF IInv, CreatedInv
        <3>2. accounts[y.id] = Free
            BY <1>4, <2>1 DEF IInv, CreatedInv, IsLive
        <3>. QED
            BY <1>5, <3>1, <3>2, StoreFacts
    <2>. QED
        BY <1>4, <2>1 DEF IInv, CreatedInv, IsLive
<1>8. StudentsInv' /\ ReadsInv'
    BY <1>4 DEF IInv, StudentsInv, ReadsInv
<1>. QED
    BY <1>1, <1>3, <1>4, <1>6, <1>7, <1>8 DEF IInv

\* What is synced: a row for each student written, and none is lost.
LEMMA SyncFacts ==
    ASSUME IInv, NEW w \in InFlight, SyncAcademics(w)
    PROVE  /\ academics' \in [Keys -> Academic \cup {Free}]
           /\ \A k \in Keys : academics[k] # Free => academics'[k] # Free
           /\ \A x \in tx[w].writes : x.new.role = "student" =>
                  /\ academics'[x.new.key] # Free
                  /\ tx[w].alone =>
                        academics'[x.new.key] = [group |-> x.new.group,
                                                 email |-> x.new.email]
<1>. DEFINE W == tx[w].writes
            ks == {x.new.key : x \in {y \in W : y.new.role = "student"}}
            writer(k) == CHOOSE x \in W : x.new.key = k
            row(k) == [group |-> writer(k).new.group,
                       email |-> writer(k).new.email]
<1>1. academics' = [k \in Keys |-> IF k \in ks THEN Synced(w, k)
                                               ELSE academics[k]]
    BY DEF SyncAcademics
<1>2. ASSUME NEW k \in ks
      PROVE  /\ k \in Keys /\ writer(k) \in W /\ writer(k).new.key = k
             /\ \E x \in W : x.new.key = k /\ x.new.role = "student"
    <2>1. PICK x \in W : x.new.role = "student" /\ x.new.key = k
        OBVIOUS
    <2>2. k \in Keys
        BY <2>1 DEF IInv, StudentsInv
    <2>. QED
        BY <2>1, <2>2
<1>3. \A k \in Keys : Synced(w, k) = Merged(academics[k], tx[w].academics[k], row(k))
    BY DEF Synced
<1>. HIDE DEF writer
<1>4. ASSUME NEW k \in ks
      PROVE  /\ row(k) \in Academic
             /\ academics[k] \in Academic \cup {Free}
             /\ tx[w].academics[k] \in Academic \cup {Free}
             /\ tx[w].academics[k] # Free => academics[k] # Free
    <2>1. writer(k) \in W /\ k \in Keys
        BY <1>2
    <2>2. writer(k) \in Write /\ tx[w] \in Request
        BY <2>1, RowTyped
    <2>3. row(k) \in Academic
        BY <2>2 DEF Write, Account, Academic
    <2>. QED
        BY <2>1, <2>2, <2>3 DEF Request, IInv, TypeOK, ReadsInv
<1>. HIDE DEF row, ks
<1>5. ASSUME NEW k \in ks
      PROVE  /\ academics'[k] \in Academic /\ academics'[k] # Free
             /\ tx[w].academics = academics => academics'[k] = row(k)
    BY <1>1, <1>2, <1>3, <1>4, MergedAcademic, MarksAssumption
<1>6. \A k \in Keys \ ks : academics'[k] = academics[k]
    BY <1>1
<1>7. academics' \in [Keys -> Academic \cup {Free}]
    <2>1. \A k \in Keys : academics'[k] \in Academic \cup {Free}
        BY <1>5, <1>6 DEF IInv, TypeOK
    <2>2. academics' = [k \in Keys |-> academics'[k]]
        BY <1>1
    <2>. QED
        BY <2>1, <2>2
<1>8. ASSUME NEW x \in W, x.new.role = "student"
      PROVE  /\ academics'[x.new.key] # Free
             /\ tx[w].alone => academics'[x.new.key] =
                    [group |-> x.new.group, email |-> x.new.email]
    <2>1. x.new.key \in ks
        BY <1>8 DEF ks
    <2>2. tx[w].alone => writer(x.new.key) = x /\ tx[w].academics = academics
        BY <1>2, <1>8, <2>1 DEF IInv, AloneInv
    <2>. QED
        BY <1>5, <2>1, <2>2 DEF row
<1>. QED
    BY <1>5, <1>6, <1>7, <1>8

\* Every commit keeps the invariant.
LEMMA CommitsKeep ==
    ASSUME IInv, NEW w \in Workers,
           StudentCommit(w) \/ StaffCommit(w) \/ ImportCommit(w)
    PROVE  IInv'
<1>1. w \in InFlight /\ Store(w)
    BY DEF StudentCommit, StaffCommit, ImportCommit, InFlight
<1>2. CASE SyncAcademics(w)
    BY <1>1, <1>2, SyncFacts, StoreKeeps
<1>3. CASE StaffCommit(w)
    <2>1. /\ UNCHANGED academics
          /\ \A x \in tx[w].writes :
                x.new.role = "student" => tx[w].op = "status"
        BY <1>1, <1>3 DEF StaffCommit, IInv, StudentsInv
    <2>. QED
        BY <1>1, <2>1, StoreKeeps DEF IInv, TypeOK
<1>. QED
    BY <1>2, <1>3 DEF StudentCommit, ImportCommit

\* So does every step.
LEMMA NextInv == IInv /\ [Next]_vars => IInv'
<1>. SUFFICES ASSUME IInv, [Next]_vars PROVE IInv'
    OBVIOUS
<1>1. ASSUME NEW w \in Workers, Start(w)
      PROVE  IInv'
    BY <1>1, EntriesKeep, ImportStudentsKeeps, ImportTeachersKeeps DEF Start
<1>2. ASSUME NEW w \in Workers, Advance(w)
      PROVE  IInv'
    BY <1>2, FlushKeeps, CommitsKeep, AbortKeeps DEF Advance
<1>3. CASE UNCHANGED vars
    <2>1. /\ accounts' = accounts /\ academics' = academics /\ tx' = tx
        BY <1>3 DEF vars
    <2>2. /\ Live' = Live /\ InFlight' = InFlight
          /\ OfRole("student")' = OfRole("student")
          /\ ActiveAdmins' = ActiveAdmins
          /\ \A e : ByEmail(e)' = ByEmail(e)
        BY <2>1 DEF Live, IsLive, InFlight, OfRole, ActiveAdmins, ByEmail
    <2>3. TypeOK' /\ StudentsAreAcademic' /\ KeysInv'
        BY <2>1, <2>2
           DEF IInv, TypeOK, StudentsAreAcademic, KeysInv, SameKey
    <2>4. LoadedInv' /\ CreatedInv' /\ StudentsInv' /\ ReadsInv'
        BY <2>1, <2>2
           DEF IInv, LoadedInv, CreatedInv, StudentsInv, ReadsInv, IsLive
    <2>5. AloneInv' /\ AdminsInv'
        BY <2>1, <2>2 DEF IInv, AloneInv, AdminsInv
    <2>. QED
        BY <2>3, <2>4, <2>5 DEF IInv
<1>. QED
    BY <1>1, <1>2, <1>3 DEF Next
-----------------------------------------------------------------------------
(* Theorems.                                                               *)

\* Types, unique keys and what each request has made sure of hold in every
\* reachable state.
THEOREM AccountsInductive == Spec => []IInv
BY InitInv, NextInv, PTL DEF Spec

\* No two accounts of a role share an email or a number, and every row and
\* request keeps its type.
THEOREM AccountsTypeCorrect == Spec => []TypeOK
<1>1. IInv => TypeOK
    BY DEF IInv
<1>. QED
    BY <1>1, AccountsInductive, PTL

\* Every student with an account is in the table of attendance lists.
THEOREM StudentsHaveRows == Spec => []StudentsAreAcademic
<1>1. IInv => StudentsAreAcademic
    BY DEF IInv
<1>. QED
    BY <1>1, AccountsInductive, PTL

\* What changes a table is the commit of the request that ends.
LEMMA CommitsStore ==
    ASSUME IInv, [Next]_vars, NEW w \in Workers, Commits(w)
    PROVE  /\ w \in InFlight /\ Store(w)
           /\ tx[w].op \notin {"staff", "status"} => SyncAcademics(w)
<1>1. /\ tx[w] # Idle /\ tx'[w] = Idle
      /\ ~UNCHANGED <<accounts, academics>>
    BY DEF Commits
<1>2. PICK v \in Workers : Start(v) \/ Advance(v)
    BY <1>1 DEF Next, vars
<1>3. ~Start(v)
    BY <1>1 DEF Start, RegisterStudent, RegisterTeacher, RegisterAdmin,
       Bootstrap, UpdateStudent, UpdateStaff, SetStatus, ImportStudents,
       ImportTeachers, Imports, Insert, Change, Begin
<1>4. StudentCommit(v) \/ StaffCommit(v) \/ ImportCommit(v)
    BY <1>1, <1>2, <1>3 DEF Advance, Flush, Abort
<1>5. tx' = [tx EXCEPT ![v] = Idle] /\ tx[v] # Idle
    BY <1>4 DEF StudentCommit, StaffCommit, ImportCommit, Store
<1>6. v = w
    BY <1>1, <1>5 DEF IInv, TypeOK
<1>. QED
    BY <1>1, <1>4, <1>6
       DEF StudentCommit, StaffCommit, ImportCommit, InFlight

\* What a request writes that nothing has overlapped is what it meant to.
LEMMA AloneWrites ==
    ASSUME IInv, NEW w \in InFlight, Store(w), tx[w].alone,
           NEW x \in tx[w].writes
    PROVE  x.id \in Ids /\ x.new \in Account /\ accounts'[x.id] = x.new
<1>1. x.id \in Ids /\ x.new \in Account
    BY RowTyped DEF Write
<1>2. PICK y \in tx[w].writes : y.id = x.id /\ accounts'[x.id] = Row(y)
    BY <1>1, StoreFacts
<1>3. y = x
    BY <1>2 DEF IInv, AloneInv
<1>4. Row(x) = x.new
    BY RowTyped DEF IInv, AloneInv
<1>. QED
    BY <1>1, <1>2, <1>3, <1>4

\* An import makes no account another person's and opens none that is closed.
THEOREM ImportsKeepIdentity == Spec => ImportKeepsIdentity
<1>1. ASSUME IInv, [Next]_vars, NEW w \in Workers, Commits(w),
             tx[w].op = "import", NEW i \in Live
      PROVE  /\ accounts'[i].key = accounts[i].key
             /\ accounts'[i].active = accounts[i].active
    <2>1. w \in InFlight /\ Store(w) /\ i \in Ids
        BY <1>1, CommitsStore DEF Live
    <2>2. CASE \E x \in tx[w].writes : x.id = i /\ accounts'[i] = Row(x)
        <3>1. PICK x \in tx[w].writes : x.id = i /\ accounts'[i] = Row(x)
            BY <2>2
        <3>2. x.loaded # Free
            BY <1>1, <2>1, <3>1 DEF IInv, CreatedInv, Live
        <3>3. x.new.key = x.loaded.key /\ x.new.active = x.loaded.active
            BY <1>1, <2>1, <3>1, <3>2 DEF IInv, LoadedInv
        <3>. QED
            BY <1>1, <2>1, <3>1, <3>2, <3>3, RowTyped
    <2>3. CASE accounts'[i] = accounts[i]
        BY <2>3
    <2>. QED
        BY <1>1, <2>1, <2>2, <2>3, StoreFacts
<1>2. IInv /\ [Next]_vars =>
        [\A w \in Workers : Commits(w) /\ tx[w].op = "import" =>
            \A i \in Live : /\ accounts'[i].key = accounts[i].key
                            /\ accounts'[i].active = accounts[i].active]_vars
    BY <1>1
<1>. QED
    BY <1>2, AccountsInductive, PTL DEF Spec, ImportKeepsIdentity

\* A request that nothing overlaps gives no email to an account that another
\* account has, and leaves an academic row equal to each student it writes.
THEOREM AloneIsRight == Spec => AloneAgrees
<1>1. ASSUME IInv, [Next]_vars, NEW w \in Workers, Commits(w), tx[w].alone
      PROVE  \A i, j \in Ids : Shares(i, j)' => Shares(i, j)
    <2>1. w \in InFlight /\ Store(w)
        BY <1>1, CommitsStore
    <2>2. ASSUME NEW i \in Ids, NEW j \in Ids, Shares(i, j)'
          PROVE  IsLive(i) /\ accounts'[i].email = accounts[i].email
        <3>1. /\ i \in Live' /\ j \in Live' /\ i # j
              /\ accounts'[i].email = accounts'[j].email
            BY <2>2 DEF Shares, Live
        <3>2. CASE accounts'[i] = accounts[i]
            BY <3>1, <3>2 DEF Live, IsLive
        <3>3. CASE \E x \in tx[w].writes : x.id = i
            <4>1. PICK x \in tx[w].writes : x.id = i
                BY <3>3
            <4>2. accounts'[i] = x.new
                BY <1>1, <2>1, <4>1, AloneWrites
            <4>3. CASE Renames(x)
                <5>1. CASE \E y \in tx[w].writes : y.id = j
                    <6>1. accounts'[j].role = x.new.role
                        BY <1>1, <2>1, <4>1, <5>1, AloneWrites
                           DEF IInv, AloneInv
                    <6>. QED
                        BY <2>1, <1>1, <3>1, <4>2, <6>1, StoreFacts DEF SameKey
                <5>2. CASE accounts'[j] = accounts[j]
                    <6>1. j \in ByEmail(x.new.email) \ {x.id}
                        BY <3>1, <4>1, <4>2, <5>2 DEF ByEmail, Live, IsLive
                    <6>2. accounts'[j].role = x.new.role
                        BY <1>1, <2>1, <4>1, <4>3, <5>2, <6>1
                           DEF IInv, AloneInv
                    <6>. QED
                        BY <2>1, <1>1, <3>1, <4>2, <6>2, StoreFacts DEF SameKey
                <5>. QED
                    BY <1>1, <2>1, <5>1, <5>2, StoreFacts
            <4>4. CASE ~Renames(x)
                <5>1. /\ x.loaded # Free /\ x.loaded.email = x.new.email
                      /\ x.loaded = accounts[i] /\ IsLive(i)
                    BY <1>1, <2>1, <4>1, <4>4
                       DEF Renames, IInv, AloneInv, LoadedInv
                <5>. QED
                    BY <4>2, <5>1
            <4>. QED
                BY <4>3, <4>4
        <3>. QED
            BY <1>1, <2>1, <3>2, <3>3, StoreFacts
    <2>3. \A i, j \in Ids : Shares(i, j)' => Shares(j, i)'
        BY DEF Shares
    <2>. QED
        BY <2>2, <2>3 DEF Shares
<1>2. ASSUME IInv, [Next]_vars, NEW w \in Workers, Commits(w),
             tx[w].alone, tx[w].op # "status", NEW x \in tx[w].writes
      PROVE  Mirrored(x.id)'
    <2>1. /\ w \in InFlight /\ Store(w)
          /\ tx[w].op # "staff" => SyncAcademics(w)
        BY <1>2, CommitsStore
    <2>2. accounts'[x.id] = x.new
        BY <1>2, <2>1, AloneWrites
    <2>3. x.new.role = "student" =>
              academics'[x.new.key] = [group |-> x.new.group,
                                       email |-> x.new.email]
        BY <1>2, <2>1, SyncFacts DEF IInv, StudentsInv
    <2>. QED
        BY <2>2, <2>3 DEF Mirrored
<1>3. IInv /\ [Next]_vars =>
        [\A w \in Workers : Commits(w) /\ tx[w].alone =>
            /\ \A i, j \in Ids : Shares(i, j)' => Shares(i, j)
            /\ tx[w].op # "status" =>
                  \A x \in tx[w].writes : Mirrored(x.id)']_vars
    BY <1>1, <1>2
<1>. QED
    BY <1>3, AccountsInductive, PTL DEF Spec, AloneAgrees

\* Requests that nothing overlaps never close the last active administrator.
THEOREM AnAdminRemains == Spec => AdminRemains
<1>1. ASSUME IInv, [Next]_vars, NEW w \in Workers, Commits(w), tx[w].alone
      PROVE  ActiveAdmins' # {}
    <2>1. w \in InFlight /\ Store(w)
        BY <1>1, CommitsStore
    <2>2. PICK i \in Ids :
            /\ \A x \in tx[w].writes : x.id = i =>
                  x.new.role = "admin" /\ x.new.active
            /\ i \in ActiveAdmins \/ \E x \in tx[w].writes : x.id = i
        BY <1>1, <2>1 DEF IInv, AdminsInv
    <2>3. CASE \E x \in tx[w].writes : x.id = i
        <3>1. PICK x \in tx[w].writes : x.id = i
            BY <2>3
        <3>2. accounts'[i] = x.new /\ x.new \in Account
            BY <1>1, <2>1, <3>1, AloneWrites
        <3>. QED
            BY <2>2, <3>1, <3>2, MarksAssumption
               DEF ActiveAdmins, OfRole, Live, IsLive
    <2>4. CASE \A x \in tx[w].writes : x.id # i
        <3>1. accounts'[i] = accounts[i] /\ i \in ActiveAdmins
            BY <1>1, <2>1, <2>2, <2>4, StoreFacts
        <3>. QED
            BY <3>1 DEF ActiveAdmins, OfRole, Live, IsLive
    <2>. QED
        BY <2>3, <2>4
<1>2. IInv /\ [Next]_vars =>
        [\A w \in Workers :
            Commits(w) /\ tx[w].alone => ActiveAdmins' # {}]_vars
    BY <1>1
<1>. QED
    BY <1>2, AccountsInductive, PTL DEF Spec, AdminRemains
=============================================================================
