--------------------------- MODULE QrNonce_proofs ---------------------------
(* Theorems about QrNonce, for any tabs, phones, codes, lifetime and period. *)
EXTENDS QrNonce, TLAPS

\* The strengthening of RefusedForGood: the types of row and phone let a tick
\* that ages the row, or a renewal, be compared with the scan that was refused.
IInv == TypeOK /\ RefusedForGood
-----------------------------------------------------------------------------
(* Countdowns.                                                             *)

\* One tick less keeps a countdown within its range.
LEMMA LessTyped ==
    ASSUME NEW k \in Nat, NEW n \in 0..k
    PROVE  Less(n) \in 0..k /\ (Less(n) > 0 => n > 0)
BY DEF Less

\* A tick keeps the code of a row or answer and does not revive it.
LEMMA LaterTyped ==
    ASSUME NEW n \in Nonce \cup {NULL}
    PROVE  /\ Later(n) \in Nonce \cup {NULL}
           /\ Later(n) # NULL => n # NULL
           /\ Later(n) # NULL => Later(n).code = n.code
           /\ Later(n) # NULL /\ ~Expired(Later(n)) => ~Expired(n)
<1>1. CASE n = NULL
    BY <1>1 DEF Later
<1>2. CASE n # NULL
    <2>1. n \in Nonce /\ n.left \in 0..TTL
        BY <1>2 DEF Nonce
    <2>2. Less(n.left) \in 0..TTL /\ (Less(n.left) > 0 => n.left > 0)
        BY <2>1, LessTyped, PeriodAssumption
    <2>3. Later(n) = [n EXCEPT !.left = Less(n.left)]
        BY <1>2 DEF Later
    <2>4. Later(n) \in Nonce /\ Later(n).code = n.code /\ Later(n).left = Less(n.left)
        BY <2>1, <2>2, <2>3 DEF Nonce
    <2>. QED
        BY <1>2, <2>1, <2>2, <2>4 DEF Expired
<1>. QED
    BY <1>1, <1>2

\* A new row is typed, whether created or renewed.
LEMMA FreshTyped ==
    ASSUME NEW c \in Codes
    PROVE  [code |-> c, left |-> TTL] \in Nonce
BY PeriodAssumption DEF Nonce
-----------------------------------------------------------------------------
(* The commit of a GET: what it leaves in the row and answers.             *)

\* The row is kept, or replaced by one whose code no phone holds; the answer is
\* the row, or what the request had read.
LEMMA CommitSteps ==
    ASSUME TypeOK, NEW b \in Tabs, GetCommit(b)
    PROVE  /\ row' \in Nonce \cup {NULL}
           /\ \/ row' = row
              \/ \A p \in Phones : phone[p] # NULL => phone[p].code # row'.code
           /\ \E n \in Nonce : Answer(b, n)
<1>1. tx[b] \in Read /\ tx[b].row \in Nonce \cup {NULL}
    BY NullAssumption DEF TypeOK, GetCommit, Read
<1>2. CASE FetchCreated(b)
    BY <1>2 DEF FetchCreated, TypeOK
<1>3. CASE Repeat(b)
    BY <1>1, <1>3 DEF Repeat, TypeOK
<1>4. ASSUME NEW c \in Codes, Create(b, c) \/ Renew(b, c)
      PROVE  row' \in Nonce /\ row'.code = c /\ Unused(c) /\ Answer(b, row')
    <2>1. row' = [code |-> c, left |-> TTL] /\ Unused(c) /\ Answer(b, row')
        BY <1>4 DEF Create, Renew, Renewed
    <2>. QED
        BY <2>1, FreshTyped
<1>5. ASSUME NEW c \in Codes, Create(b, c) \/ Renew(b, c)
      PROVE  \A p \in Phones : phone[p] # NULL => phone[p].code # row'.code
    BY <1>4, <1>5 DEF Unused
<1>. QED
    BY <1>2, <1>3, <1>4, <1>5 DEF GetCommit
-----------------------------------------------------------------------------
(* Type correctness.                                                       *)

\* A system without row, answer or scan is typed.
LEMMA InitTyped == ASSUME Init PROVE TypeOK
BY PeriodAssumption DEF Init, TypeOK

\* Each action keeps the types.
LEMMA NextTyped == ASSUME TypeOK, [Next]_vars PROVE TypeOK'
<1>. USE DEF TypeOK
<1>1. ASSUME NEW b \in Tabs, GetStart(b) PROVE TypeOK'
    <2>1. [row |-> row] \in Read
        BY DEF Read
    <2>2. Poll \in 0..Poll
        BY PeriodAssumption
    <2>. QED
        BY <1>1, <2>1, <2>2 DEF GetStart
<1>2. ASSUME NEW b \in Tabs, GetCommit(b) PROVE TypeOK'
    <2>1. PICK n \in Nonce : Answer(b, n)
        BY <1>2, CommitSteps
    <2>. QED
        BY <1>2, <2>1, CommitSteps DEF Answer
<1>3. ASSUME NEW p \in Phones, NEW b \in Tabs, Photograph(p, b) PROVE TypeOK'
    <2>1. [code |-> screen[b].code, refused |-> FALSE] \in Scan
        BY <1>3 DEF Photograph, Nonce, Scan
    <2>. QED
        BY <1>3, <2>1 DEF Photograph
<1>4. ASSUME NEW p \in Phones, SubmitAccepted(p) PROVE TypeOK'
    BY <1>4 DEF SubmitAccepted
<1>5. ASSUME NEW p \in Phones, SubmitRefused(p) PROVE TypeOK'
    <2>1. [phone[p] EXCEPT !.refused = TRUE] \in Scan
        BY <1>5 DEF SubmitRefused, Scan
    <2>. QED
        BY <1>5, <2>1 DEF SubmitRefused
<1>6. CASE Tick
    <2>1. row' \in Nonce \cup {NULL}
        BY <1>6, LaterTyped DEF Tick
    <2>2. screen' \in [Tabs -> Nonce \cup {NULL}]
        BY <1>6, LaterTyped DEF Tick
    <2>3. due' \in [Tabs -> 0..Poll]
        BY <1>6, LessTyped, PeriodAssumption DEF Tick
    <2>4. dark' \in [Tabs -> Nat]
        BY <1>6 DEF Tick
    <2>. QED
        BY <1>6, <2>1, <2>2, <2>3, <2>4 DEF Tick
<1>7. CASE UNCHANGED vars
    BY <1>7 DEF vars
<1>. QED
    BY <1>1, <1>2, <1>3, <1>4, <1>5, <1>6, <1>7 DEF Next
-----------------------------------------------------------------------------
(* A refused code stays refused.                                           *)

\* Only a scan can be refused, and nothing a tab or the clock does makes its
\* code good again.
LEMMA NextRefused == ASSUME IInv, [Next]_vars PROVE RefusedForGood'
<1>. USE DEF IInv
<1>1. ASSUME NEW b \in Tabs, GetStart(b) PROVE RefusedForGood'
    BY <1>1 DEF GetStart, RefusedForGood, Accepted
<1>2. ASSUME NEW b \in Tabs, GetCommit(b) PROVE RefusedForGood'
    <2>1. UNCHANGED phone
        BY <1>2, CommitSteps DEF Answer
    <2>2. CASE row' = row
        BY <2>1, <2>2 DEF RefusedForGood, Accepted
    <2>3. CASE \A p \in Phones : phone[p] # NULL => phone[p].code # row'.code
        BY <2>1, <2>3 DEF RefusedForGood, Accepted
    <2>. QED
        BY <1>2, <2>2, <2>3, CommitSteps
<1>3. ASSUME NEW p \in Phones, NEW b \in Tabs, Photograph(p, b)
      PROVE  RefusedForGood'
    <2>1. phone'[p].refused = FALSE
        BY <1>3 DEF Photograph, TypeOK
    <2>. QED
        BY <1>3, <2>1 DEF Photograph, TypeOK, RefusedForGood, Accepted
<1>4. ASSUME NEW p \in Phones, SubmitAccepted(p) PROVE RefusedForGood'
    BY <1>4 DEF SubmitAccepted, TypeOK, RefusedForGood, Accepted
<1>5. ASSUME NEW p \in Phones, SubmitRefused(p) PROVE RefusedForGood'
    <2>1. phone[p] \in Scan /\ phone'[p].code = phone[p].code
        BY <1>5 DEF SubmitRefused, TypeOK, Scan
    <2>. QED
        BY <1>5, <2>1 DEF SubmitRefused, TypeOK, RefusedForGood, Accepted
<1>6. CASE Tick
    <2>1. row' = Later(row) /\ UNCHANGED phone
        BY <1>6 DEF Tick
    <2>. QED
        BY <2>1, LaterTyped DEF TypeOK, RefusedForGood, Accepted, Expired
<1>7. CASE UNCHANGED vars
    BY <1>7 DEF vars, RefusedForGood, Accepted
<1>. QED
    BY <1>1, <1>2, <1>3, <1>4, <1>5, <1>6, <1>7 DEF Next

\* IInv holds initially and every step keeps it.
THEOREM QrInductive == Spec => []IInv
<1>1. ASSUME Init PROVE IInv
    BY <1>1, InitTyped DEF IInv, Init, RefusedForGood
<1>2. ASSUME IInv, [Next]_vars PROVE IInv'
    BY <1>2, NextTyped, NextRefused DEF IInv
<1>. QED
    BY <1>1, <1>2, PTL DEF Spec

\* The row, the answers and the scans keep their types whatever tabs do.
THEOREM QrTypeCorrect == Spec => []TypeOK
BY QrInductive, PTL DEF IInv

\* A code that mark_present refused, as expired or as not the latest, is never
\* accepted afterwards, for any lifetime and polling period.
THEOREM RefusedStaysRefused == Spec => []RefusedForGood
BY QrInductive, PTL DEF IInv
-----------------------------------------------------------------------------
(* How long a screen may stay dark.                                        *)

\* The row was stored in this tick, so others may be about to replace it.
Fresh == row # NULL /\ row.left = TTL

\* The row was stored in an earlier tick and is good: no request replaces it.
Settled == row # NULL /\ row.left > 0 /\ row.left < TTL

\* A request that has read another row, or none, finds a fresh one.
ReadsInv == \A b \in Tabs : tx[b] # NULL => tx[b].row = row \/ Fresh

\* What a tab that waits for the next period has before it: a period in which
\* it has been dark for some time since the code was good; no answer so far;
\* an answer that was overwritten, by a row that is good when it asks again; or
\* an answer that is good now, so that the next tick ends the darkness.
WaitingOK(b) ==
    \/ dark[b] + due[b] < Poll
    \/ screen[b] = NULL /\ dark[b] = 0
    \/ /\ row # NULL /\ row.left = TTL - Poll + due[b]
       /\ dark[b] + due[b] < 2 * Poll
    \/ due[b] = Poll /\ Settled /\ ~Dark(b) /\ dark[b] < 2 * Poll

\* A tab that was dark for longer than a period asks while the row is settled.
AskingOK(b) ==
    due[b] = Poll /\ (dark[b] < Poll \/ (Settled /\ dark[b] < 2 * Poll))

TabsInv ==
    \A b \in Tabs : IF tx[b] = NULL THEN WaitingOK(b) ELSE AskingOK(b)

DarkInv == TypeOK /\ ReadsInv /\ TabsInv

\* A commit stores a fresh row, or answers with the row there is.
LEMMA CommitRow ==
    ASSUME DarkInv, NEW b \in Tabs, GetCommit(b)
    PROVE  /\ Fresh' \/ (row' = row /\ Settled /\ Answer(b, row))
           /\ row' = row \/ ~Settled
           /\ \E n \in Nonce : Answer(b, n)
<1>1. tx[b] # NULL /\ (tx[b].row = row \/ Fresh)
    BY DEF GetCommit, DarkInv, ReadsInv
<1>2. TTL \in Nat /\ row \in Nonce \cup {NULL}
    BY PeriodAssumption DEF DarkInv, TypeOK
<1>3. row # NULL => row.left \in 0..TTL
    BY <1>2 DEF Nonce
<1>4. \E n \in Nonce : Answer(b, n)
    BY CommitSteps DEF DarkInv
<1>5. CASE FetchCreated(b)
    <2>1. row' = row /\ Fresh
        BY <1>1, <1>5 DEF FetchCreated
    <2>. QED
        BY <1>4, <2>1 DEF Fresh
<1>6. CASE Repeat(b)
    <2>1. CASE Fresh
        BY <1>4, <1>6, <2>1 DEF Repeat, Fresh
    <2>2. CASE ~Fresh
        <3>1. tx[b].row = row /\ row # NULL /\ row.left # 0 /\ row' = row
            BY <1>1, <1>6, <2>2 DEF Repeat, Expired
        <3>2. Settled
            BY <1>2, <1>3, <2>2, <3>1 DEF Settled, Fresh
        <3>. QED
            BY <1>4, <1>6, <3>1, <3>2 DEF Repeat
    <2>. QED
        BY <2>1, <2>2
<1>7. ASSUME NEW c \in Codes, Create(b, c) \/ Renew(b, c)
      PROVE  Fresh' /\ ~Settled
    <2>1. row' = [code |-> c, left |-> TTL]
        BY <1>7 DEF Create, Renew, Renewed
    <2>2. row' # NULL /\ row'.left = TTL
        BY <2>1, FreshTyped, NullAssumption
    <2>3. ~Settled
        BY <1>1, <1>2, <1>3, <1>7
           DEF Create, Renew, Expired, Settled, Fresh
    <2>. QED
        BY <2>2, <2>3 DEF Fresh
<1>. QED
    BY <1>4, <1>5, <1>6, <1>7 DEF GetCommit

\* The countdowns of a tab are numbers.
LEMMA TabNumbers ==
    ASSUME TypeOK, NEW b \in Tabs
    PROVE  /\ dark[b] \in Nat /\ due[b] \in 0..Poll
           /\ TTL \in Nat \ {0} /\ Poll \in Nat \ {0}
           /\ row # NULL => row.left \in 0..TTL
BY PeriodAssumption DEF TypeOK, Nonce

\* A request that begins finds the row good if its tab has been dark for long.
LEMMA StartDark ==
    ASSUME DarkInv, Poll < TTL, NEW b \in Tabs, GetStart(b)
    PROVE  ReadsInv' /\ TabsInv'
<1>1. /\ UNCHANGED <<row, screen, phone, dark>> /\ due[b] = 0 /\ tx[b] = NULL
      /\ \A x \in Tabs : tx'[x] = IF x = b THEN [row |-> row] ELSE tx[x]
      /\ \A x \in Tabs : due'[x] = IF x = b THEN Poll ELSE due[x]
    BY DEF GetStart, DarkInv, TypeOK
<1>2. ReadsInv'
    BY <1>1 DEF DarkInv, ReadsInv, Fresh
<1>3. AskingOK(b)'
    <2>1. WaitingOK(b)
        BY <1>1 DEF DarkInv, TabsInv
    <2>2. dark[b] < Poll \/ (Settled /\ dark[b] < 2 * Poll)
        BY <1>1, <2>1, TabNumbers DEF WaitingOK, Settled, DarkInv
    <2>. QED
        BY <1>1, <2>2 DEF AskingOK, Settled
<1>4. tx'[b] # NULL
    BY <1>1, NullAssumption DEF DarkInv, TypeOK, Read
<1>5. ASSUME NEW x \in Tabs, x # b
      PROVE  IF tx'[x] = NULL THEN WaitingOK(x)' ELSE AskingOK(x)'
    BY <1>1, <1>5
       DEF DarkInv, TabsInv, WaitingOK, AskingOK, Dark, Accepted, Settled
<1>. QED
    BY <1>2, <1>3, <1>4, <1>5 DEF TabsInv

\* An answer is good for a tick at least, or overwritten by a fresh row.
LEMMA CommitDark ==
    ASSUME DarkInv, Poll < TTL, NEW b \in Tabs, GetCommit(b)
    PROVE  ReadsInv' /\ TabsInv'
<1>1. PICK n \in Nonce : Answer(b, n)
    BY CommitRow
<1>2. /\ UNCHANGED <<due, phone, dark>> /\ tx[b] # NULL
      /\ \A x \in Tabs : tx'[x] = IF x = b THEN NULL ELSE tx[x]
      /\ \A x \in Tabs : x # b => screen'[x] = screen[x]
    BY <1>1 DEF GetCommit, Answer, DarkInv, TypeOK
<1>3. /\ Fresh' \/ (row' = row /\ Settled /\ Answer(b, row))
      /\ row' = row \/ ~Settled
    BY CommitRow
<1>4. ReadsInv'
    BY <1>2, <1>3 DEF DarkInv, ReadsInv, Fresh
<1>5. AskingOK(b)
    BY <1>2 DEF DarkInv, TabsInv
<1>6. WaitingOK(b)'
    <2>1. CASE dark[b] < Poll /\ Fresh'
        BY <1>2, <1>5, <2>1, TabNumbers
           DEF WaitingOK, AskingOK, Fresh, DarkInv
    <2>2. CASE row' = row /\ Settled /\ Answer(b, row)
        <3>1. screen'[b] = row
            BY <2>2 DEF Answer, DarkInv, TypeOK
        <3>2. Settled' /\ ~Dark(b)'
            BY <2>2, <3>1, TabNumbers
               DEF Settled, Dark, Accepted, Expired, DarkInv
        <3>3. dark'[b] < 2 * Poll /\ due'[b] = Poll
            BY <1>2, <1>5, TabNumbers DEF AskingOK, DarkInv
        <3>. QED
            BY <3>2, <3>3 DEF WaitingOK
    <2>3. ~(Fresh' /\ row' = row /\ Settled)
        BY TabNumbers DEF Fresh, Settled, DarkInv
    <2>. QED
        BY <1>3, <1>5, <2>1, <2>2, <2>3 DEF AskingOK
<1>7. ASSUME NEW x \in Tabs, x # b
      PROVE  IF tx'[x] = NULL THEN WaitingOK(x)' ELSE AskingOK(x)'
    <2>1. CASE row' = row
        BY <1>2, <1>7, <2>1
           DEF DarkInv, TabsInv, WaitingOK, AskingOK, Dark, Accepted, Settled
    <2>2. CASE Fresh' /\ ~Settled
        <3>1. ASSUME row # NULL, row.left = TTL - Poll + due[x]
              PROVE  due[x] = Poll
            BY <2>2, <3>1, TabNumbers DEF Settled, DarkInv
        <3>2. TTL - Poll + Poll = TTL
            BY PeriodAssumption
        <3>. QED
            BY <1>2, <1>7, <2>2, <3>1, <3>2
               DEF DarkInv, TabsInv, WaitingOK, AskingOK, Fresh
    <2>. QED
        BY <1>3, <2>1, <2>2
<1>. QED
    BY <1>2, <1>4, <1>6, <1>7 DEF TabsInv

\* A tick adds to the darkness what it takes from the wait, or ends it.
LEMMA TickDark ==
    ASSUME DarkInv, Poll < TTL, Tick
    PROVE  ReadsInv' /\ TabsInv'
<1>1. \A b \in Tabs : due[b] > 0 /\ tx[b] = NULL /\ tx'[b] = NULL
    BY DEF Tick
<1>2. ReadsInv'
    BY <1>1 DEF ReadsInv
<1>3. ASSUME NEW b \in Tabs PROVE WaitingOK(b)'
    <2>1. WaitingOK(b)
        BY <1>1 DEF DarkInv, TabsInv
    <2>2. /\ due'[b] = due[b] - 1
          /\ dark'[b] = IF Dark(b) THEN dark[b] + 1 ELSE 0
          /\ screen'[b] = Later(screen[b])
        BY <1>1, TabNumbers DEF Tick, Less, DarkInv
    <2>3. row # NULL /\ row.left > 0 =>
              row' # NULL /\ row'.left = row.left - 1
        <3>. SUFFICES ASSUME row # NULL, row.left > 0
                      PROVE  row' # NULL /\ row'.left = row.left - 1
            OBVIOUS
        <3>1. row \in Nonce
            BY DEF DarkInv, TypeOK
        <3>2. row' = [row EXCEPT !.left = row.left - 1]
            BY <3>1 DEF Tick, Later, Less
        <3>3. row' \in Nonce \cup {NULL} /\ row'.left = row.left - 1
            BY <3>1, <3>2, LaterTyped DEF Tick, Nonce
        <3>4. row' \in Nonce
            BY <3>1, <3>2, PeriodAssumption, TabNumbers DEF Nonce, DarkInv
        <3>. QED
            BY <3>3, <3>4, NullAssumption
    <2>4. CASE dark[b] + due[b] < Poll
        BY <1>1, <2>2, <2>4, TabNumbers DEF WaitingOK, DarkInv
    <2>5. CASE screen[b] = NULL /\ dark[b] = 0
        BY <2>2, <2>5 DEF WaitingOK, Dark, Later
    <2>6. CASE /\ row # NULL /\ row.left = TTL - Poll + due[b]
               /\ dark[b] + due[b] < 2 * Poll
        BY <1>1, <2>2, <2>3, <2>6, TabNumbers DEF WaitingOK, DarkInv
    <2>7. CASE due[b] = Poll /\ ~Dark(b)
        BY <2>2, <2>7, PeriodAssumption DEF WaitingOK
    <2>. QED
        BY <2>1, <2>4, <2>5, <2>6, <2>7 DEF WaitingOK
<1>. QED
    BY <1>1, <1>2, <1>3 DEF TabsInv

\* DarkInv holds initially and every step keeps it, if codes outlive a period.
LEMMA DarkInductive == ASSUME Poll < TTL PROVE Spec => []DarkInv
<1>1. ASSUME Init PROVE DarkInv
    BY <1>1, InitTyped DEF Init, DarkInv, ReadsInv, TabsInv, WaitingOK
<1>2. ASSUME DarkInv, [Next]_vars PROVE DarkInv'
    <2>1. TypeOK'
        BY <1>2, NextTyped DEF DarkInv
    <2>2. ASSUME UNCHANGED <<row, tx, screen, due, dark>>
          PROVE  ReadsInv' /\ TabsInv'
        BY <1>2, <2>2
           DEF DarkInv, ReadsInv, TabsInv, WaitingOK, AskingOK, Fresh,
               Settled, Dark, Accepted
    <2>3. ReadsInv' /\ TabsInv'
        BY <1>2, <2>2, StartDark, CommitDark, TickDark
           DEF Next, Photograph, SubmitAccepted, SubmitRefused, vars
    <2>. QED
        BY <2>1, <2>3 DEF DarkInv
<1>. QED
    BY <1>1, <1>2, PTL DEF Spec

\* No tab shows codes that fail throughout two periods, for any number of tabs
\* that race to renew, as long as a code outlives the period of the polling.
THEOREM ScreensRecover ==
    ASSUME Poll < TTL
    PROVE  Spec => []DarkUnderTwoPeriods
<1>1. Spec => []DarkInv
    BY DarkInductive
<1>2. DarkInv => DarkUnderTwoPeriods
    <2>. SUFFICES ASSUME DarkInv, NEW b \in Tabs PROVE dark[b] < 2 * Poll
        BY DEF DarkUnderTwoPeriods
    <2>1. WaitingOK(b) \/ AskingOK(b)
        BY DEF DarkInv, TabsInv
    <2>. QED
        BY <2>1, TabNumbers DEF WaitingOK, AskingOK, DarkInv
<1>. QED
    BY <1>1, <1>2, PTL
=============================================================================
