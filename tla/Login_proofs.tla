----------------------------- MODULE Login_proofs -----------------------------
(* Theorems about Login, for any requests, passwords, links and lifetimes.   *)
EXTENDS Login, TLAPS

\* What a request writes follows from its handler: the columns of the user,
\* and, for those that mark the user as seen, the idleness they began with.
RequestsInv ==
    \A w \in Workers : tx[w] # Idle =>
        /\ "active" \in tx[w].cols => tx[w].op = "status"
        /\ "password" \in tx[w].cols => tx[w].op \in {"change", "confirm"}
        /\ "seen" \in tx[w].cols =>
            \/ tx[w].op = "login"
            \/ tx[w].begun.seen = NULL
            \/ tx[w].begun.seen <= Idleness
        /\ tx[w].op \in {"ask", "confirm"} => tx[w].link \in Links
        /\ tx[w].op = "confirm" => tx[w].begun.uses = 0

\* A link that is not marked as used has changed no password.
UnusedInv == \A l \in Links : links[l] # Free /\ ~links[l].used =>
                 links[l].uses = 0

\* No link is ever removed, so that a confirmation finds its link at the end.
ConfirmedInv ==
    \A w \in Workers : Running(w, {"confirm"}) => links[tx[w].link] # Free

IInv ==
    TypeOK /\ StoredWasSent /\ RequestsInv /\ UnusedInv /\ ConfirmedInv
-----------------------------------------------------------------------------
(* Typing.                                                                 *)

\* An age grows by one and stops one past the lifetime.
LEMMA AgedTyped ==
    ASSUME NEW life \in Nat, NEW age \in Ages(life) \cup {NULL}
    PROVE  /\ Aged(age, life) \in Ages(life) \cup {NULL}
           /\ Aged(age, life) = NULL <=> age = NULL
           /\ age > life => Aged(age, life) = age
BY MarksAssumption DEF Ages, Aged

\* Zero is an age, whatever the lifetime.
LEMMA ZeroTyped == ASSUME NEW life \in Nat PROVE 0 \in Ages(life)
BY DEF Ages

\* What an UPDATE leaves of the user's row is a row.
LEMMA StoredTyped ==
    ASSUME NEW w \in Workers, user \in User, tx[w] \in Request
    PROVE  /\ Stored(w) \in User
           /\ Stored(w).active = IF "active" \in tx[w].cols
                                 THEN tx[w].new.active ELSE user.active
           /\ Stored(w).password = IF "password" \in tx[w].cols
                                   THEN tx[w].new.password ELSE user.password
           /\ Stored(w).seen = IF "seen" \in tx[w].cols
                               THEN tx[w].new.seen ELSE user.seen
<1>1. tx[w].new \in User
    BY DEF Request
<1>2. Stored(w) = [active |-> IF "active" \in tx[w].cols
                             THEN tx[w].new.active ELSE user.active,
                   password |-> IF "password" \in tx[w].cols
                               THEN tx[w].new.password ELSE user.password,
                   seen |-> IF "seen" \in tx[w].cols
                           THEN tx[w].new.seen ELSE user.seen]
    BY <1>1 DEF Stored, User, Columns
<1>. QED
    BY <1>1, <1>2 DEF User

\* The initial account, browser and links are as the invariant says.
LEMMA InitInv == ASSUME Init PROVE IInv
<1>1. 0 \in Nat /\ user \in User
    BY DEF Init, User
<1>2. TypeOK
    BY <1>1 DEF Init, TypeOK
<1>. QED
    BY <1>2 DEF Init, IInv, StoredWasSent, RequestsInv, UnusedInv,
       ConfirmedInv, Running

-----------------------------------------------------------------------------
(* The start of a request.                                                 *)

\* A request whose columns, idleness and link are those of its handler may
\* begin.
LEMMA BeginKeeps ==
    ASSUME IInv, NEW w \in Workers, NEW op \in Ops,
           NEW cols \in SUBSET Columns, NEW new \in User,
           NEW link \in Links \cup {NULL},
           "active" \in cols => op = "status",
           "password" \in cols => op \in {"change", "confirm"},
           "seen" \in cols => \/ op = "login"
                              \/ user.seen = NULL
                              \/ user.seen <= Idleness,
           op \in {"ask", "confirm"} => link \in Links,
           op = "confirm" => links[link] # Free /\ ~links[link].used,
           Begin(w, op, cols, new, link)
    PROVE  IInv'
<1>. DEFINE uses == IF op = "confirm" THEN links[link].uses ELSE 0
            t == [op |-> op, cols |-> cols, new |-> new, link |-> link,
                  logged |-> op = "refuse",
                  begun |-> [seen |-> user.seen, uses |-> uses]]
<1>1. uses = 0
    BY DEF IInv, UnusedInv
<1>2. user \in User /\ user.seen \in Ages(Idleness) \cup {NULL}
    BY DEF IInv, TypeOK, User
<1>3. t \in Request
    BY <1>1, <1>2 DEF Request
<1>4. /\ tx' = [tx EXCEPT ![w] = t]
      /\ UNCHANGED <<user, cookies, links, mailed, audit, refused>>
    BY DEF Begin
<1>5. TypeOK'
    BY <1>3, <1>4 DEF IInv, TypeOK
<1>6. RequestsInv' /\ ConfirmedInv'
    <2>1. ASSUME NEW v \in Workers, v # w PROVE tx'[v] = tx[v]
        BY <1>4, <2>1 DEF IInv, TypeOK
    <2>2. tx'[w] = t
        BY <1>4 DEF IInv, TypeOK
    <2>. QED
        BY <1>1, <1>4, <2>1, <2>2
           DEF IInv, RequestsInv, ConfirmedInv, Running
<1>7. StoredWasSent' /\ UnusedInv'
    BY <1>4 DEF IInv, StoredWasSent, UnusedInv
<1>. QED
    BY <1>5, <1>6, <1>7 DEF IInv

\* The row with which a request that marks the user as seen begins is a row.
LEMMA SeenTyped ==
    ASSUME NEW u \in User
    PROVE  Seen(u) \in User
BY ZeroTyped, LivesAssumption DEF Seen, User

\* Whoever is let in has been active within the limit.
LEMMA StartKeeps ==
    ASSUME IInv, NEW w \in Workers,
           \/ \E p \in Passwords \cup {NULL} : LoginStart(w, p)
           \/ \E p \in Passwords : LoginRefused(w, p) \/ ChangeStart(w, p)
           \/ RefreshStart(w) \/ TouchStart(w) \/ LogoutStart(w)
           \/ \E l \in Links : AskStart(w, l)
           \/ \E l \in Links, p \in Passwords : ConfirmStart(w, l, p)
           \/ \E b \in BOOLEAN : StatusStart(w, b)
    PROVE  IInv'
<1>1. user \in User /\ Seen(user) \in User
    BY SeenTyped DEF IInv, TypeOK
<1>2. CASE \E p \in Passwords \cup {NULL} : LoginStart(w, p)
    BY <1>1, <1>2, BeginKeeps DEF LoginStart, Ops, Columns
<1>3. CASE \E p \in Passwords : LoginRefused(w, p)
    BY <1>1, <1>3, BeginKeeps DEF LoginRefused, Ops, Columns
<1>4. CASE \E p \in Passwords : ChangeStart(w, p)
    <2>1. PICK p \in Passwords : ChangeStart(w, p)
        BY <1>4
    <2>2. [Seen(user) EXCEPT !.password = p] \in User
        BY <1>1 DEF User
    <2>. QED
        BY <2>1, <2>2, BeginKeeps DEF ChangeStart, Admitted, Ops, Columns
<1>5. CASE RefreshStart(w) \/ TouchStart(w) \/ LogoutStart(w)
    BY <1>1, <1>5, BeginKeeps
       DEF RefreshStart, TouchStart, LogoutStart, Admitted, Ops, Columns
<1>6. CASE \E l \in Links : AskStart(w, l)
    BY <1>1, <1>6, BeginKeeps DEF AskStart, Ops, Columns
<1>7. CASE \E l \in Links, p \in Passwords : ConfirmStart(w, l, p)
    <2>1. PICK l \in Links, p \in Passwords : ConfirmStart(w, l, p)
        BY <1>7
    <2>2. [user EXCEPT !.password = p] \in User
        BY <1>1 DEF User
    <2>. QED
        BY <2>1, <2>2, BeginKeeps DEF ConfirmStart, Ops, Columns
<1>8. CASE \E b \in BOOLEAN : StatusStart(w, b)
    <2>1. PICK b \in BOOLEAN : StatusStart(w, b)
        BY <1>8
    <2>2. [user EXCEPT !.active = b] \in User
        BY <1>1 DEF User
    <2>. QED
        BY <2>1, <2>2, BeginKeeps DEF StatusStart, Ops, Columns
<1>. QED
    BY <1>2, <1>3, <1>4, <1>5, <1>6, <1>7, <1>8
-----------------------------------------------------------------------------
(* The end of a request, and the clock.                                    *)

\* A commit stores the user's columns and empties the worker's slot.
LEMMA CommitKeeps ==
    ASSUME IInv, NEW w \in Workers, tx[w] # Idle, Commit(w)
    PROVE  /\ user' \in User /\ audit' \in Nat
           /\ tx' \in [Workers -> Request \cup {Idle}]
           /\ RequestsInv'
           /\ (\A l \in Links : links[l] # Free => links'[l] # Free)
                  => ConfirmedInv'
<1>1. tx[w] \in Request /\ user \in User
    BY DEF IInv, TypeOK
<1>2. user' \in User
    BY <1>1, StoredTyped DEF Commit
<1>3. tx' = [tx EXCEPT ![w] = Idle] /\ tx \in [Workers -> Request \cup {Idle}]
    BY DEF Commit, IInv, TypeOK
<1>4. \A v \in Workers : tx'[v] # Idle => tx'[v] = tx[v]
    BY <1>3
<1>5. RequestsInv'
    BY <1>4 DEF IInv, RequestsInv
<1>6. ASSUME \A l \in Links : links[l] # Free => links'[l] # Free
      PROVE  ConfirmedInv'
    BY <1>4, <1>6 DEF IInv, RequestsInv, ConfirmedInv, Running
<1>. QED
    BY <1>2, <1>3, <1>5, <1>6 DEF Commit, IInv, TypeOK

\* A rollback leaves nothing but the refusal.
LEMMA AbortKeeps == ASSUME IInv, NEW w \in Workers, Abort(w) PROVE IInv'
<1>1. \A v \in Workers : tx'[v] # Idle => tx'[v] = tx[v]
    BY DEF Abort, IInv, TypeOK
<1>2. TypeOK'
    BY DEF Abort, IInv, TypeOK
<1>. QED
    BY <1>1, <1>2 DEF Abort, IInv, RequestsInv, StoredWasSent, UnusedInv,
       ConfirmedInv, Running

\* A commit that leaves the links alone.
LEMMA PlainCommitKeeps ==
    ASSUME IInv, NEW w \in Workers,
           TokensCommit(w) \/ TouchCommit(w) \/ StatusCommit(w)
    PROVE  IInv'
<1>1. tx[w] # Idle /\ Commit(w) /\ UNCHANGED <<links, mailed, refused>>
    BY DEF TokensCommit, TouchCommit, StatusCommit, Running
<1>2. /\ user' \in User /\ audit' \in Nat
      /\ tx' \in [Workers -> Request \cup {Idle}]
      /\ RequestsInv' /\ ConfirmedInv'
    BY <1>1, CommitKeeps
<1>3. /\ cookies' \in [access : Ages(AccessLife) \cup {NULL},
                       refresh : Ages(RefreshLife) \cup {NULL}]
      /\ cookies'.access = NULL <=> cookies'.refresh = NULL
    BY ZeroTyped, LivesAssumption, MarksAssumption
       DEF TokensCommit, TouchCommit, StatusCommit, IInv, TypeOK
<1>4. TypeOK'
    BY <1>1, <1>2, <1>3 DEF IInv, TypeOK
<1>. QED
    BY <1>1, <1>2, <1>4 DEF IInv, StoredWasSent, UnusedInv

\* A confirmation marks its link used, and counts itself.
LEMMA UsedTyped ==
    ASSUME NEW x \in Link
    PROVE  Used(x) \in Link /\ Used(x).used
<1>1. Used(x) \in Link
    <2>1. x.uses + 1 \in Nat
        BY DEF Link
    <2>. QED
        BY <2>1 DEF Used, Link
<1>2. Used(x).used = TRUE
    BY DEF Used, Link
<1>. QED
    BY <1>1, <1>2

\* A commit that stores or uses a link.
LEMMA LinkCommitKeeps ==
    ASSUME IInv, NEW w \in Workers, AskCommit(w) \/ ConfirmCommit(w)
    PROVE  IInv'
<1>1. /\ tx[w] # Idle /\ Commit(w) /\ tx[w].link \in Links
      /\ UNCHANGED <<cookies, mailed, refused>>
    BY DEF AskCommit, ConfirmCommit, Running, IInv, RequestsInv
<1>2. /\ user' \in User /\ audit' \in Nat
      /\ tx' \in [Workers -> Request \cup {Idle}]
      /\ RequestsInv'
    BY <1>1, CommitKeeps
<1>. DEFINE l == tx[w].link
<1>3. CASE AskCommit(w) /\ l \notin mailed
    <2>1. UNCHANGED links
        BY <1>3 DEF AskCommit
    <2>2. TypeOK'
        BY <1>1, <1>2, <2>1 DEF IInv, TypeOK
    <2>. QED
        BY <1>1, <1>2, <2>1, <2>2, CommitKeeps
           DEF IInv, StoredWasSent, UnusedInv
<1>4. CASE AskCommit(w) /\ l \in mailed
    <2>. DEFINE new == [age |-> 0, used |-> FALSE, uses |-> 0]
    <2>1. links' = [links EXCEPT ![l] = new]
        BY <1>4 DEF AskCommit
    <2>2. new \in Link
        BY ZeroTyped, LivesAssumption DEF Link
    <2>3. TypeOK'
        BY <1>1, <1>2, <2>1, <2>2 DEF IInv, TypeOK
    <2>4. StoredWasSent' /\ UnusedInv'
        BY <1>1, <1>4, <2>1 DEF IInv, TypeOK, StoredWasSent, UnusedInv
    <2>5. \A x \in Links : links[x] # Free => links'[x] # Free
        BY <1>1, <2>1, <2>2, MarksAssumption DEF IInv, TypeOK
    <2>. QED
        BY <1>1, <1>2, <2>3, <2>4, <2>5, CommitKeeps DEF IInv
<1>5. CASE ConfirmCommit(w)
    <2>1. links' = [links EXCEPT ![l] = Used(links[l])]
        BY <1>5 DEF ConfirmCommit
    <2>2. links[l] # Free /\ links[l] \in Link
        BY <1>1, <1>5 DEF ConfirmCommit, ConfirmedInv, IInv, TypeOK
    <2>3. Used(links[l]) \in Link /\ Used(links[l]).used
        BY <2>2, UsedTyped
    <2>4. TypeOK'
        BY <1>1, <1>2, <2>1, <2>3 DEF IInv, TypeOK
    <2>5. StoredWasSent' /\ UnusedInv'
        BY <1>1, <2>1, <2>2, <2>3 DEF IInv, TypeOK, StoredWasSent, UnusedInv
    <2>6. \A x \in Links : links[x] # Free => links'[x] # Free
        BY <1>1, <2>1, <2>3, MarksAssumption DEF IInv, TypeOK
    <2>. QED
        BY <1>1, <1>2, <2>4, <2>5, <2>6, CommitKeeps DEF IInv
<1>. QED
    BY <1>1, <1>3, <1>4, <1>5

\* A mail that arrives adds its link to those that were mailed.
LEMMA DeliverKeeps == ASSUME IInv, NEW w \in Workers, Deliver(w) PROVE IInv'
<1>1. tx[w].link \in Links
    BY DEF Deliver, Running, IInv, RequestsInv
<1>2. TypeOK'
    BY <1>1 DEF Deliver, IInv, TypeOK
<1>. QED
    BY <1>2 DEF Deliver, IInv, RequestsInv, StoredWasSent, UnusedInv,
       ConfirmedInv, Running

\* The clock ages the user's row, in the table and in every request.
LEMMA LaterTyped ==
    ASSUME NEW u \in User
    PROVE  Later(u) \in User
BY AgedTyped, LivesAssumption DEF Later, User

\* A tick changes ages only.
LEMMA TickKeeps == ASSUME IInv, Tick PROVE IInv'
<1>1. ASSUME NEW l \in Links, links[l] # Free
      PROVE  /\ links'[l] \in Link
             /\ links'[l].used = links[l].used /\ links'[l].uses = links[l].uses
    <2>1. links[l] \in Link
        BY <1>1 DEF IInv, TypeOK
    <2>2. Aged(links[l].age, LinkLife) \in Ages(LinkLife)
        BY <2>1, AgedTyped, LivesAssumption, MarksAssumption DEF Link, Ages
    <2>. QED
        BY <1>1, <2>1, <2>2 DEF Tick, Link
<1>2. \A l \in Links : links[l] = Free => links'[l] = Free
    BY DEF Tick
<1>3. ASSUME NEW w \in Workers, tx[w] # Idle
      PROVE  /\ tx'[w] \in Request
             /\ tx'[w] = [tx[w] EXCEPT !.new = Later(tx[w].new)]
    <2>1. tx[w] \in Request /\ Later(tx[w].new) \in User
        BY <1>3, LaterTyped DEF IInv, TypeOK, Request
    <2>. QED
        BY <1>3, <2>1 DEF Tick, Request
<1>4. \A w \in Workers : tx[w] = Idle => tx'[w] = Idle
    BY DEF Tick
<1>5. TypeOK'
    <2>1. user' \in User
        BY LaterTyped DEF IInv, TypeOK, Tick
    <2>2. /\ cookies' \in [access : Ages(AccessLife) \cup {NULL},
                           refresh : Ages(RefreshLife) \cup {NULL}]
          /\ cookies'.access = NULL <=> cookies'.refresh = NULL
        BY AgedTyped, LivesAssumption DEF IInv, TypeOK, Tick
    <2>3. links' \in [Links -> Link \cup {Free}]
        BY <1>1, <1>2 DEF Tick
    <2>4. tx' \in [Workers -> Request \cup {Idle}]
        BY <1>3, <1>4 DEF Tick
    <2>. QED
        BY <2>1, <2>2, <2>3, <2>4 DEF IInv, TypeOK, Tick
<1>6. RequestsInv' /\ ConfirmedInv'
    <2>1. ASSUME NEW w \in Workers, tx'[w] # Idle
          PROVE  /\ tx[w] # Idle /\ tx[w] \in Request
                 /\ tx'[w].op = tx[w].op /\ tx'[w].cols = tx[w].cols
                 /\ tx'[w].link = tx[w].link /\ tx'[w].begun = tx[w].begun
        BY <1>3, <1>4, <2>1 DEF IInv, TypeOK, Request
    <2>2. RequestsInv'
        BY <2>1 DEF IInv, RequestsInv
    <2>3. ConfirmedInv'
        BY <1>1, <2>1, MarksAssumption
           DEF IInv, RequestsInv, ConfirmedInv, Running
    <2>. QED
        BY <2>2, <2>3
<1>7. StoredWasSent' /\ UnusedInv'
    BY <1>1, <1>2 DEF IInv, StoredWasSent, UnusedInv, Tick
<1>. QED
    BY <1>5, <1>6, <1>7 DEF IInv

-----------------------------------------------------------------------------
(* The invariant, and what follows from it.                                *)

\* Every step keeps the invariant.
LEMMA NextInv == ASSUME IInv, [Next]_vars PROVE IInv'
<1>1. CASE UNCHANGED vars
    BY <1>1 DEF vars, IInv, TypeOK, StoredWasSent, RequestsInv, UnusedInv,
       ConfirmedInv, Running
<1>2. CASE Next
    BY <1>2, StartKeeps, AbortKeeps, PlainCommitKeeps, LinkCommitKeeps,
       DeliverKeeps, TickKeeps DEF Next
<1>. QED
    BY <1>1, <1>2

\* The invariant holds in every reachable state.
THEOREM LoginInductive == Spec => []IInv
BY InitInv, NextInv, PTL DEF Spec

\* The account, the cookies, the links and the requests in flight keep their
\* types, and the two tokens come and go together.
THEOREM LoginTypeCorrect == Spec => []TypeOK
BY LoginInductive, PTL DEF IInv

\* A reset link that is stored has been mailed, however sending it ended.
THEOREM LinksWereSent == Spec => []StoredWasSent
BY LoginInductive, PTL DEF IInv

\* A request that ends in a step has committed or rolled back in it.
LEMMA EndSteps ==
    ASSUME IInv, [Next]_vars, NEW w \in Workers, Ends(w)
    PROVE  /\ tx[w] \in Request
           /\ \/ UNCHANGED <<user, links>>
              \/ Commit(w) /\ UNCHANGED links
              \/ Commit(w) /\ (AskCommit(w) \/ ConfirmCommit(w))
<1>1. tx[w] \in Request /\ tx[w] # Idle /\ tx'[w] = Idle
    BY DEF Ends, IInv, TypeOK
<1>2. ASSUME NEW v \in Workers, tx' = [tx EXCEPT ![v] = Idle]
      PROVE  v = w
    BY <1>1, <1>2 DEF IInv, TypeOK
<1>3. ASSUME NEW v \in Workers, NEW op, NEW cols, NEW new, NEW link
      PROVE  ~Begin(v, op, cols, new, link)
    BY <1>1 DEF Begin, IInv, TypeOK
<1>4. ~Tick
    <2>1. [tx[w] EXCEPT !.new = Later(tx[w].new)] \in Request
        BY <1>1, LaterTyped DEF Request
    <2>. QED
        BY <1>1, <2>1, MarksAssumption DEF Tick
<1>5. ASSUME NEW v \in Workers,
             \/ TokensCommit(v) \/ TouchCommit(v) \/ StatusCommit(v)
             \/ AskCommit(v) \/ ConfirmCommit(v) \/ Abort(v)
      PROVE  v = w
    BY <1>2, <1>5 DEF TokensCommit, TouchCommit, StatusCommit, AskCommit,
       ConfirmCommit, Abort, Commit
<1>6. ASSUME NEW v \in Workers PROVE ~Deliver(v)
    BY <1>1 DEF Deliver
<1>7. ASSUME NEW v \in Workers
      PROVE  ~ \/ \E p \in Passwords \cup {NULL} : LoginStart(v, p)
               \/ \E p \in Passwords : LoginRefused(v, p) \/ ChangeStart(v, p)
               \/ RefreshStart(v) \/ TouchStart(v) \/ LogoutStart(v)
               \/ \E l \in Links : AskStart(v, l)
               \/ \E l \in Links, p \in Passwords : ConfirmStart(v, l, p)
               \/ \E b \in BOOLEAN : StatusStart(v, b)
    BY <1>3 DEF LoginStart, LoginRefused, ChangeStart, RefreshStart,
       TouchStart, LogoutStart, AskStart, ConfirmStart, StatusStart
<1>8. \/ TokensCommit(w) \/ TouchCommit(w) \/ StatusCommit(w)
      \/ AskCommit(w) \/ ConfirmCommit(w) \/ Abort(w)
    BY <1>1, <1>4, <1>5, <1>6, <1>7 DEF Next, vars
<1>. QED
    BY <1>1, <1>8 DEF TokensCommit, TouchCommit, StatusCommit, AskCommit,
       ConfirmCommit, Abort

\* What a request does to a user who has stayed away too long, to a closed
\* account, an old password and a used link.
LEMMA StepsAreSafe ==
    ASSUME IInv, [Next]_vars
    PROVE  /\ \A w \in Workers : Ends(w) =>
                /\ user'.active # user.active => tx[w].op = "status"
                /\ user'.password # user.password =>
                      tx[w].op \in {"change", "confirm"}
                /\ tx[w].op = "confirm" => tx[w].begun.uses = 0
           /\ user.seen # NULL /\ user.seen > Idleness
                /\ user'.seen <= Idleness =>
              \E w \in Workers : /\ Ends(w)
                                 /\ \/ tx[w].op = "login"
                                    \/ tx[w].begun.seen = NULL
                                    \/ tx[w].begun.seen <= Idleness
<1>1. user \in User
    BY DEF IInv, TypeOK
<1>2. ASSUME NEW w \in Workers, Ends(w)
      PROVE  /\ user'.active # user.active => tx[w].op = "status"
             /\ user'.password # user.password =>
                   tx[w].op \in {"change", "confirm"}
             /\ tx[w].op = "confirm" => tx[w].begun.uses = 0
    BY <1>1, <1>2, EndSteps, StoredTyped DEF Commit, Ends, IInv, RequestsInv
<1>3. ASSUME user.seen # NULL, user.seen > Idleness, user'.seen <= Idleness
      PROVE  \E w \in Workers : /\ Ends(w)
                                /\ \/ tx[w].op = "login"
                                   \/ tx[w].begun.seen = NULL
                                   \/ tx[w].begun.seen <= Idleness
    <2>1. user.seen \in Nat /\ Idleness \in Nat /\ ~(user.seen <= Idleness)
        BY <1>1, <1>3, LivesAssumption DEF User, Ages
    <2>2. user' # user
        BY <1>3, <2>1
    <2>3. ~Tick
        BY <1>1, <1>3, <2>1, AgedTyped, LivesAssumption DEF Tick, Later, User
    <2>4. PICK w \in Workers : Commit(w) /\ tx[w] # Idle
        BY <2>2, <2>3 DEF Next, vars, Begin, LoginStart, LoginRefused,
           ChangeStart, RefreshStart, TouchStart, LogoutStart, AskStart,
           ConfirmStart, StatusStart, TokensCommit, TouchCommit, StatusCommit,
           AskCommit, ConfirmCommit, Abort, Deliver, Running
    <2>5. Ends(w) /\ tx[w] \in Request
        BY <2>4 DEF Ends, Commit, IInv, TypeOK
    <2>6. "seen" \in tx[w].cols
        BY <1>1, <1>3, <2>1, <2>4, <2>5, StoredTyped DEF Commit
    <2>. QED
        BY <2>4, <2>5, <2>6 DEF IInv, RequestsInv
<1>. QED
    BY <1>2, <1>3

\* A user who has stayed away too long comes back by logging in only, whatever
\* tokens, links and administrators do.
THEOREM IdleMustLogIn == Spec => OnlyLoginReturns
<1>1. IInv /\ [Next]_vars =>
        [user.seen # NULL /\ user.seen > Idleness /\ user'.seen <= Idleness =>
            \E w \in Workers : /\ Ends(w)
                               /\ \/ tx[w].op = "login"
                                  \/ tx[w].begun.seen = NULL
                                  \/ tx[w].begun.seen <= Idleness]_vars
    BY StepsAreSafe
<1>. QED
    BY <1>1, LoginInductive, PTL DEF Spec, OnlyLoginReturns

\* Of all requests that write the user's row, only those meant to do so open a
\* closed account or change the password.
THEOREM ColumnsSurvive == Spec => NothingUndone
<1>1. IInv /\ [Next]_vars =>
        [\A w \in Workers : Ends(w) =>
            /\ user'.active # user.active => tx[w].op = "status"
            /\ user'.password # user.password =>
                  tx[w].op \in {"change", "confirm"}]_vars
    BY StepsAreSafe
<1>. QED
    BY <1>1, LoginInductive, PTL DEF Spec, NothingUndone

\* A reset link changes the password once, but for confirmations that overlap.
THEOREM LinksWorkOnce == Spec => ResetOnce
<1>1. IInv /\ [Next]_vars =>
        [\A w \in Workers :
            Ends(w) /\ tx[w].op = "confirm" /\ links' # links =>
                tx[w].begun.uses = 0]_vars
    BY StepsAreSafe
<1>. QED
    BY <1>1, LoginInductive, PTL DEF Spec, ResetOnce
=============================================================================
