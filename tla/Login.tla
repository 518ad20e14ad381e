--------------------------------- MODULE Login --------------------------------
(***************************************************************************)
(* One user's account and browser.  The browser keeps an access and a      *)
(* refresh token as cookies; both are signed, so the server stores neither *)
(* and forgets neither.  What the server does store is last_activity, the  *)
(* password, is_active, and the tokens of the reset links it has mailed:   *)
(*   POST /auth/login, GET /auth/google/callback, POST /auth/refresh       *)
(*   POST /auth/logout, /auth/change-password, /auth/reset-password,       *)
(*        /auth/reset-password/confirm                                     *)
(*   any route that depends on require_active_user, or on                  *)
(*   require_student_bearer, which does the same                           *)
(*   PATCH /accounts/{id}/status, by an administrator                      *)
(* Routes on get_current_user_bearer alone change nothing here.            *)
(*                                                                         *)
(* Time is counted in ticks; ages stop growing once they no longer matter. *)
(***************************************************************************)
EXTENDS Naturals, FiniteSets

CONSTANTS
    Workers,      \* requests served at the same time
    Passwords,
    Links,        \* bound: the reset links ever mailed
    Idleness,     \* SESSION_INACTIVITY_MINUTES
    AccessLife, RefreshLife, LinkLife,   \* lifetimes of the tokens
    Refusals,     \* bound: refused logins
    Free, NULL, Idle

ASSUME LivesAssumption ==
    /\ {Idleness, AccessLife, RefreshLife, LinkLife} \subseteq Nat \ {0}
    /\ Refusals \in Nat

VARIABLES
    user,      \* the account's row
    cookies,   \* the ages of the browser's tokens, NULL without one
    links,     \* password_reset_tokens
    mailed,    \* the links that mails have delivered
    audit,     \* LOGIN_FAILED rows of the audit log
    refused,   \* history: logins answered 401
    tx         \* what each request in flight has read

vars == <<user, cookies, links, mailed, audit, refused, tx>>

Ages(life) == 0..(life + 1)
User == [active : BOOLEAN, password : Passwords \cup {NULL},
         seen : Ages(Idleness) \cup {NULL}]
Link == [age : Ages(LinkLife), used : BOOLEAN,
         uses : Nat]   \* uses (history): the confirmations committed
Ops == {"login", "refresh", "touch", "logout", "change", "ask", "confirm",
        "status", "refuse"}
Columns == {"active", "password", "seen"}
\* cols: the columns it changes; new: the whole row in memory.
\* begun (history): the user's idleness and the link's uses at its start.
Request == [op : Ops, cols : SUBSET Columns, new : User,
            link : Links \cup {NULL}, logged : BOOLEAN,
            begun : [seen : Ages(Idleness) \cup {NULL}, uses : Nat]]

\* The marks are no ages, links or requests.
ASSUME MarksAssumption ==
    NULL \notin Nat \cup Links /\ Free \notin Link /\ Idle \notin Request

\* A refused login raises before it finds a user; it has inserted a log row.
Raises(t) == t.op = "refuse"

Aged(age, life) == IF age = NULL \/ age > life THEN age ELSE age + 1
Valid(age, life) == age # NULL /\ age <= life

\* Mutant: an UPDATE writes the whole row as it was loaded and changed.
StoredWhole(w) == tx[w].new

\* The columns of the user that an UPDATE of the request changes.
Stored(w) ==
    [c \in Columns |-> IF c \in tx[w].cols THEN tx[w].new[c] ELSE user[c]]

Begin(w, op, cols, new, link) ==
    /\ tx[w] = Idle
    /\ tx' = [tx EXCEPT ![w] =
            [op |-> op, cols |-> cols, new |-> new, link |-> link,
             logged |-> op = "refuse",
             begun |-> [seen |-> user.seen,
                        uses |-> IF op = "confirm" THEN links[link].uses
                                                   ELSE 0]]]
    /\ UNCHANGED <<user, cookies, links, mailed, audit, refused>>

Running(w, ops) == tx[w] # Idle /\ tx[w].op \in ops

\* last_activity = now.
Seen(u) == [u EXCEPT !.seen = 0]

\* get_db commits, unless the handler has raised.
Commit(w) ==
    /\ ~Raises(tx[w])
    /\ user' = Stored(w)
    /\ audit' = IF tx[w].logged THEN audit + 1 ELSE audit
    /\ tx' = [tx EXCEPT ![w] = Idle]

\* get_db rolls back; a log row the request has inserted goes with the rest.
Abort(w) ==
    /\ tx[w] # Idle
    /\ refused' = IF Raises(tx[w]) THEN refused + 1 ELSE refused
    /\ tx' = [tx EXCEPT ![w] = Idle]
    /\ UNCHANGED <<user, cookies, links, mailed, audit>>
-----------------------------------------------------------------------------
(* Tokens.                                                                 *)

\* login with the password, or handle_callback for Google's user.
LoginStart(w, p) ==
    /\ user.active
    /\ p = user.password \/ p = NULL
    /\ Begin(w, "login", {"seen"}, Seen(user), NULL)

\* A wrong password or a closed account: log the failure, raise 401 or 403.
LoginRefused(w, p) ==
    /\ p # user.password \/ ~user.active
    /\ refused + Cardinality({v \in Workers : Running(v, {"refuse"})})
            < Refusals
    /\ Begin(w, "refuse", {}, user, NULL)

\* refresh_access_token looks at is_active and not at last_activity.
RefreshStart(w) ==
    /\ Valid(cookies.refresh, RefreshLife)
    /\ user.active
    /\ Begin(w, "refresh", {}, user, NULL)

TokensCommit(w) ==
    /\ Running(w, {"login", "refresh"})
    /\ cookies' = [access |-> 0, refresh |-> 0]
    /\ Commit(w)
    /\ UNCHANGED <<links, mailed, refused>>
-----------------------------------------------------------------------------
(* require_active_user, and the routes behind it.                          *)

\* Mutant: a user who has just refreshed counts as active.
AdmittedByToken ==
    /\ Valid(cookies.access, AccessLife)
    /\ user.active

Admitted ==
    /\ Valid(cookies.access, AccessLife)
    /\ user.active
    /\ user.seen # NULL => user.seen <= Idleness

TouchStart(w) == Admitted /\ Begin(w, "touch", {"seen"}, Seen(user), NULL)

LogoutStart(w) ==
    Admitted /\ Begin(w, "logout", {"seen"}, Seen(user), NULL)

\* change_password, by a user who has one and knows it.
ChangeStart(w, p) ==
    /\ Admitted
    /\ user.password # NULL /\ p # user.password
    /\ Begin(w, "change", {"seen", "password"},
             [Seen(user) EXCEPT !.password = p], NULL)

\* Mutant: logging out clears the access token's cookie only.
TouchCommitKeeping(w) ==
    /\ Running(w, {"touch", "logout", "change"})
    /\ cookies' = IF Running(w, {"logout"})
                  THEN [cookies EXCEPT !.access = NULL] ELSE cookies
    /\ Commit(w)
    /\ UNCHANGED <<links, mailed, refused>>

TouchCommit(w) ==
    /\ Running(w, {"touch", "logout", "change"})
    /\ cookies' = IF Running(w, {"logout"})
                  THEN [access |-> NULL, refresh |-> NULL] ELSE cookies
    /\ Commit(w)
    /\ UNCHANGED <<links, mailed, refused>>
-----------------------------------------------------------------------------
(* Reset links.                                                            *)

\* The mail goes out before the token is stored.
AskStart(w, l) ==
    /\ user.active
    /\ links[l] = Free /\ l \notin mailed
    /\ \A v \in Workers : tx[v] # Idle => tx[v].link # l
    /\ Begin(w, "ask", {}, user, l)

Deliver(w) ==
    /\ Running(w, {"ask"})
    /\ tx[w].link \notin mailed
    /\ mailed' = mailed \cup {tx[w].link}
    /\ UNCHANGED <<user, cookies, links, audit, refused, tx>>

\* Mutant: the token is stored although sending its mail has raised.
AskCommitAnyway(w) ==
    /\ Running(w, {"ask"})
    /\ links' = [links EXCEPT ![tx[w].link] =
                    [age |-> 0, used |-> FALSE, uses |-> 0]]
    /\ Commit(w)
    /\ UNCHANGED <<cookies, mailed, refused>>

\* When sending raises, the request ends without a token; when it returns
\* False, with a 503, an Abort.
AskCommit(w) ==
    /\ Running(w, {"ask"})
    /\ links' = IF tx[w].link \in mailed
                THEN [links EXCEPT ![tx[w].link] =
                        [age |-> 0, used |-> FALSE, uses |-> 0]]
                ELSE links
    /\ Commit(w)
    /\ UNCHANGED <<cookies, mailed, refused>>

ConfirmStart(w, l, p) ==
    /\ links[l] # Free
    /\ ~links[l].used
    /\ Valid(links[l].age, LinkLife)
    /\ user.active
    /\ Begin(w, "confirm", {"password"}, [user EXCEPT !.password = p], l)

\* Mutant: the link is not marked as used.
UsedNot(link) == [link EXCEPT !.uses = @ + 1]

Used(link) == [link EXCEPT !.used = TRUE, !.uses = @ + 1]

ConfirmCommit(w) ==
    /\ Running(w, {"confirm"})
    /\ links' = [links EXCEPT ![tx[w].link] = Used(@)]
    /\ Commit(w)
    /\ UNCHANGED <<cookies, mailed, refused>>
-----------------------------------------------------------------------------
(* An administrator, and the clock.                                        *)

StatusStart(w, active) ==
    /\ active # user.active
    /\ Begin(w, "status", {"active"}, [user EXCEPT !.active = active], NULL)

StatusCommit(w) ==
    /\ Running(w, {"status"})
    /\ Commit(w)
    /\ UNCHANGED <<cookies, links, mailed, refused>>

Later(u) == [u EXCEPT !.seen = Aged(@, Idleness)]

Tick ==
    /\ user' = Later(user)
    /\ cookies' = [access |-> Aged(cookies.access, AccessLife),
                   refresh |-> Aged(cookies.refresh, RefreshLife)]
    /\ links' = [l \in Links |-> IF links[l] = Free THEN Free
                    ELSE [links[l] EXCEPT !.age = Aged(@, LinkLife)]]
    /\ tx' = [w \in Workers |-> IF tx[w] = Idle THEN Idle
                ELSE [tx[w] EXCEPT !.new = Later(@)]]
    /\ UNCHANGED <<mailed, audit, refused>>
-----------------------------------------------------------------------------
\* The type invariant of the account, the browser's cookies, the reset links
\* and the requests in flight.  The two tokens come and go together.
TypeOK ==
    /\ user \in User
    /\ cookies \in [access : Ages(AccessLife) \cup {NULL},
                    refresh : Ages(RefreshLife) \cup {NULL}]
    /\ cookies.access = NULL <=> cookies.refresh = NULL
    /\ links \in [Links -> Link \cup {Free}]
    /\ mailed \subseteq Links
    /\ audit \in Nat /\ refused \in Nat
    /\ tx \in [Workers -> Request \cup {Idle}]

\* An imported account has no password; it has never been used.
Init ==
    /\ user \in [active : {TRUE}, password : Passwords \cup {NULL},
                 seen : {NULL}]
    /\ cookies = [access |-> NULL, refresh |-> NULL]
    /\ links = [l \in Links |-> Free]
    /\ mailed = {} /\ audit = 0 /\ refused = 0
    /\ tx = [w \in Workers |-> Idle]

Next ==
    \/ \E w \in Workers :
        \/ \E p \in Passwords \cup {NULL} : LoginStart(w, p)
        \/ \E p \in Passwords : LoginRefused(w, p) \/ ChangeStart(w, p)
        \/ RefreshStart(w) \/ TouchStart(w) \/ LogoutStart(w)
        \/ \E l \in Links : AskStart(w, l)
        \/ \E l \in Links, p \in Passwords : ConfirmStart(w, l, p)
        \/ \E b \in BOOLEAN : StatusStart(w, b)
        \/ TokensCommit(w) \/ TouchCommit(w) \/ Deliver(w) \/ AskCommit(w)
        \/ ConfirmCommit(w) \/ StatusCommit(w) \/ Abort(w)
    \/ Tick

Spec == Init /\ [][Next]_vars
-----------------------------------------------------------------------------
(* Properties.                                                             *)

Ends(w) == tx[w] # Idle /\ tx'[w] = Idle

\* A user who has stayed away too long comes back by logging in: neither a
\* refreshed token, nor a new password, nor an account closed and opened again
\* makes up for it, only a request that had begun in time.
OnlyLoginReturns ==
    [][user.seen # NULL /\ user.seen > Idleness /\ user'.seen <= Idleness =>
          \E w \in Workers : /\ Ends(w)
                             /\ \/ tx[w].op = "login"
                                \/ tx[w].begun.seen = NULL
                                \/ tx[w].begun.seen <= Idleness]_vars

\* Every request writes the user's row.  None but those meant to do so opens a
\* closed account or brings an old password back.
NothingUndone ==
    [][\A w \in Workers : Ends(w) =>
          /\ user'.active # user.active => tx[w].op = "status"
          /\ user'.password # user.password =>
                tx[w].op \in {"change", "confirm"}]_vars

\* A link that is stored, and could change the password, has been mailed,
\* whether sending it returns, returns False or raises.
StoredWasSent == \A l \in Links : links[l] # Free => l \in mailed

\* A link that has changed the password changes it again only for a
\* confirmation that had begun by then.
ResetOnce ==
    [][\A w \in Workers :
          Ends(w) /\ tx[w].op = "confirm" /\ links' # links =>
              tx[w].begun.uses = 0]_vars

\* "test_failed_login_logged": a login that is refused leaves a row in the
\* audit log.
RefusalIsLogged == [][refused' # refused => audit' = audit + 1]_vars
=============================================================================
