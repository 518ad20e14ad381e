------------------------------- MODULE QrNonce -------------------------------
(***************************************************************************)
(* The QR code of one session: session_nonces holds at most one row, which *)
(* GET /sessions/{id}/qr-code creates, renews once expired and returns,    *)
(* and step 1 of POST /attendance/mark-present checks a scan against.      *)
(*                                                                         *)
(* The teacher's site asks again every Poll ticks and shows the answer;    *)
(* the teacher may have it open in several tabs.  A code is good for TTL   *)
(* ticks.  Times are kept as countdowns: left is what remains until        *)
(* expires_at, and a row is expired when left is 0.                        *)
(* A request is answered within the tick in which it is sent.              *)
(***************************************************************************)
EXTENDS Integers

CONSTANTS
    Tabs,       \* open pages of the teacher's site
    Phones,     \* the students' apps
    Codes,      \* bound: codes that can be in use at once
    TTL,        \* NONCE_TTL_SECONDS, in ticks
    Poll,       \* the period the site is told to use, in ticks
    NULL

ASSUME PeriodAssumption == TTL \in Nat \ {0} /\ Poll \in Nat \ {0}

VARIABLES
    row,        \* the row of session_nonces, or NULL
    tx,         \* what each tab's GET has read, or NULL
    screen,     \* the answer each tab shows, or NULL
    due,        \* ticks until each tab asks again
    phone,      \* the code each phone scanned, and whether it was refused
    dark        \* for how many ticks each tab has shown a code that fails

vars == <<row, tx, screen, due, phone, dark>>

Nonce == [code : Codes, left : 0..TTL]
Read == [row : Nonce \cup {NULL}]
Scan == [code : Codes, refused : BOOLEAN]

\* NULL marks a missing row, answer or scan: it is none of them.
ASSUME NullAssumption == NULL \notin Nonce /\ NULL \notin Read /\ NULL \notin Scan

TypeOK ==
    /\ row \in Nonce \cup {NULL}
    /\ tx \in [Tabs -> Read \cup {NULL}]
    /\ screen \in [Tabs -> Nonce \cup {NULL}]
    /\ due \in [Tabs -> 0..Poll]
    /\ phone \in [Phones -> Scan \cup {NULL}]
    /\ dark \in [Tabs -> Nat]

Init ==
    /\ row = NULL
    /\ tx = [b \in Tabs |-> NULL]
    /\ screen = [b \in Tabs |-> NULL]
    /\ due \in [Tabs -> 0..Poll]
    /\ phone = [p \in Phones |-> NULL]
    /\ dark = [b \in Tabs |-> 0]

\* Assumed of _generate_nonce: 6 of 36 characters, drawn at random, are not a
\* code that is still around.
Unused(c) ==
    /\ row # NULL => row.code # c
    /\ \A b \in Tabs : screen[b] # NULL => screen[b].code # c
    /\ \A b \in Tabs : tx[b] # NULL /\ tx[b].row # NULL => tx[b].row.code # c
    /\ \A p \in Phones : phone[p] # NULL => phone[p].code # c

Expired(n) == n.left = 0

\* Step 1 of mark_present: the code is the stored one and has not expired.
Accepted(c) == row # NULL /\ row.code = c /\ ~Expired(row)

\* Mutant: a new expiry for the old code.
RenewedExtending(c, n) == [code |-> n.code, left |-> TTL]

\* Mutant: expires_at is left as it was.
RenewedExpired(c, n) == [code |-> c, left |-> n.left]

\* Mutant: a period of grace is added to the lifetime.
RenewedWithGrace(c, n) == [code |-> c, left |-> TTL + Poll]

\* The row after a renewal by a request that had read n.
Renewed(c, n) == [code |-> c, left |-> TTL]
-----------------------------------------------------------------------------
(* GET /sessions/{id}/qr-code: read, then store and answer.                *)

GetStart(b) ==
    /\ due[b] = 0
    /\ tx[b] = NULL
    /\ tx' = [tx EXCEPT ![b] = [row |-> row]]
    /\ due' = [due EXCEPT ![b] = Poll]
    /\ UNCHANGED <<row, screen, phone, dark>>

Answer(b, n) ==
    /\ screen' = [screen EXCEPT ![b] = n]
    /\ tx' = [tx EXCEPT ![b] = NULL]
    /\ UNCHANGED <<due, phone, dark>>

\* No row yet: insert one.
Create(b, c) ==
    /\ tx[b].row = NULL
    /\ row = NULL
    /\ Unused(c)
    /\ row' = [code |-> c, left |-> TTL]
    /\ Answer(b, row')

\* Another tab inserted it first: IntegrityError in the savepoint, fetch it.
FetchCreated(b) ==
    /\ tx[b].row = NULL
    /\ row # NULL
    /\ UNCHANGED row
    /\ Answer(b, row)

\* The row it read has expired: overwrite whatever is there by now.
Renew(b, c) ==
    /\ tx[b].row # NULL
    /\ Expired(tx[b].row)
    /\ Unused(c)
    /\ row' = Renewed(c, tx[b].row)
    /\ Answer(b, row')

\* The row it read is still good.
Repeat(b) ==
    /\ tx[b].row # NULL
    /\ ~Expired(tx[b].row)
    /\ UNCHANGED row
    /\ Answer(b, tx[b].row)

GetCommit(b) ==
    /\ tx[b] # NULL
    /\ \/ FetchCreated(b) \/ Repeat(b)
       \/ \E c \in Codes : Create(b, c) \/ Renew(b, c)

(* A student scans what a tab shows, and submits it, perhaps repeatedly.   *)

Photograph(p, b) ==
    /\ screen[b] # NULL
    /\ phone' = [phone EXCEPT ![p] =
                    [code |-> screen[b].code, refused |-> FALSE]]
    /\ UNCHANGED <<row, tx, screen, due, dark>>

SubmitAccepted(p) ==
    /\ phone[p] # NULL
    /\ Accepted(phone[p].code)
    /\ phone' = [phone EXCEPT ![p] = NULL]
    /\ UNCHANGED <<row, tx, screen, due, dark>>

\* 400 for another code, 410 for an expired one.
SubmitRefused(p) ==
    /\ phone[p] # NULL
    /\ ~Accepted(phone[p].code)
    /\ phone' = [phone EXCEPT ![p].refused = TRUE]
    /\ UNCHANGED <<row, tx, screen, due, dark>>

Dark(b) == screen[b] # NULL /\ ~Accepted(screen[b].code)

Less(n) == IF n > 0 THEN n - 1 ELSE 0

Later(n) == IF n = NULL THEN NULL ELSE [n EXCEPT !.left = Less(n.left)]

\* Time passes once every request of the tick has been answered.
Tick ==
    /\ \A b \in Tabs : due[b] > 0 /\ tx[b] = NULL
    /\ row' = Later(row)
    /\ screen' = [b \in Tabs |-> Later(screen[b])]
    /\ due' = [b \in Tabs |-> Less(due[b])]
    /\ dark' = [b \in Tabs |-> IF Dark(b) THEN dark[b] + 1 ELSE 0]
    /\ UNCHANGED <<tx, phone>>

Next ==
    \/ \E b \in Tabs : GetStart(b) \/ GetCommit(b)
    \/ \E p \in Phones : SubmitAccepted(p) \/ SubmitRefused(p)
    \/ \E p \in Phones, b \in Tabs : Photograph(p, b)
    \/ Tick

Spec == Init /\ [][Next]_vars
-----------------------------------------------------------------------------
(* Properties.                                                             *)

\* A code that was refused once, as expired or as not the latest, is refused
\* for good: no renewal, not even one that races another, revives it.
RefusedForGood ==
    \A p \in Phones :
        phone[p] # NULL /\ phone[p].refused => ~Accepted(phone[p].code)

\* However tabs race to renew, no tab shows codes that fail throughout two
\* periods: one it spends on an expired code and one on an overwritten answer,
\* and the answer after that can be scanned.
DarkUnderTwoPeriods == \A b \in Tabs : dark[b] < 2 * Poll

\* Asking again every Poll ticks keeps a code on the screen that can be scanned.
\* The lifetimes the code uses break it (README, section 3).
ScreenStaysGood ==
    \A b \in Tabs : tx[b] = NULL /\ due[b] > 0 => ~Dark(b)
=============================================================================
