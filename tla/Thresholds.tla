------------------------------ MODULE Thresholds ------------------------------
(***************************************************************************)
(* The absences of one student in one module, the notifications that       *)
(* POST /absences (a tap) sends about them, and the thresholds in the      *)
(* singleton row of administration_settings:                               *)
(*   POST /absences                     upsert_absence                     *)
(*   PUT  /sessions/{id}/attendance     submit_session_attendance (silent) *)
(*   GET  /settings/administration      get_administration_settings        *)
(*   PUT  /settings/administration      update_administration_settings     *)
(*                                                                         *)
(* Attendance has a tap's flush and commit in one step.  Here they are     *)
(* apart: a tap that marks a student absent goes on reading after its      *)
(* flush, sees its own row and what others have committed, and holds the   *)
(* lock of its row until it commits.                                       *)
(***************************************************************************)
EXTENDS FiniteSets, Naturals

CONSTANTS
    Workers,    \* requests served at the same time
    Sessions,   \* the sessions of the module
    Notes,      \* bound: notifications ever inserted
    Default,    \* the thresholds of a row created on first read (3 and 5)
    Offered,    \* bound: the thresholds administrators send
    Editors,    \* bound: administrators who save settings at the same time
    Marks,      \* bound: the marks teachers send, of "absent" and "present"
    Ops,        \* the handlers an instance exercises
    Free, Gone, NULL, Idle

Rules == [warning : Nat, max : Nat]

ASSUME RulesAssumption ==
    /\ Default \in Rules /\ Default.warning < Default.max
    /\ Offered \subseteq Rules

VARIABLES
    marks,      \* the absence table, by session; NULL where there is no row
    settings,   \* the row of administration_settings, or NULL
    inbox,      \* notifications by id; saved once committed
    tx          \* what each worker's request has read and written so far

vars == <<marks, settings, inbox, tx>>

Values == {"absent", "present"}
Note == [type : {"recorded", "warning", "exclusion"}, session : Sessions,
         saved : BOOLEAN]
MarkTx == [op : {"tap", "sheet"}, session : Sessions, new : Values,
           loaded : Values \cup {NULL}, value : Values \cup {NULL},
           phase : {"read", "written", "announced", "counted", "creating",
                    "ruled", "done"},
           count : 0..Cardinality(Sessions), rules : Rules \cup {NULL},
           notes : SUBSET Notes, created : BOOLEAN]
GetTx == [op : {"get"}, rules : Rules \cup {NULL},
          phase : {"creating", "done"}, notes : {{}}, created : BOOLEAN]
PutTx == [op : {"put"}, new : Rules, rules : Rules \cup {NULL},
          phase : {"creating", "done"}, notes : {{}}, created : BOOLEAN]

\* The module has finitely many sessions; the marks are no values of the types.
ASSUME MarksAssumption ==
    /\ IsFiniteSet(Sessions) /\ Marks \subseteq Values
    /\ NULL \notin Values \cup Rules
    /\ Free \notin Note /\ Gone \notin Note
    /\ Idle \notin MarkTx \cup GetTx \cup PutTx

TypeOK ==
    /\ marks \in [Sessions -> Values \cup {NULL}]
    /\ settings \in Rules \cup {NULL}
    /\ inbox \in [Notes -> Note \cup {Free, Gone}]
    /\ tx \in [Workers -> MarkTx \cup GetTx \cup PutTx \cup {Idle}]

Init ==
    /\ marks = [s \in Sessions |-> NULL]
    /\ settings = NULL
    /\ inbox = [n \in Notes |-> Free]
    /\ tx = [w \in Workers |-> Idle]

Running(w, ops) == tx[w] # Idle /\ tx[w].op \in ops
At(w, ops, phase) == Running(w, ops) /\ tx[w].phase = phase

\* The value of a column after an ORM UPDATE that loaded it and assigned new.
Merged(current, loaded, new) == IF new = loaded THEN current ELSE new

Begin(w, t) ==
    /\ tx[w] = Idle
    /\ tx' = [tx EXCEPT ![w] = t]

\* get_db: commit, and every notification of the request becomes visible.
Saved(w) ==
    [n \in Notes |-> IF n \in tx[w].notes
                     THEN [inbox[n] EXCEPT !.saved = TRUE] ELSE inbox[n]]

\* get_db: roll back.
Abort(w) ==
    /\ tx[w] # Idle
    /\ inbox' = [n \in Notes |-> IF n \in tx[w].notes THEN Gone ELSE inbox[n]]
    /\ tx' = [tx EXCEPT ![w] = Idle]
    /\ UNCHANGED <<marks, settings>>
-----------------------------------------------------------------------------
(* get_settings: fetch the row, or create the default one.                  *)

HoldsRow(w) == tx[w] # Idle /\ tx[w].created

\* Mutant: no unique constraint on the settings row.
RowExistsUnseen == FALSE

\* PRIMARY KEY (id) and UNIQUE (singleton_guard).
RowExists == settings # NULL

\* The INSERT waits for one that is not committed yet, and fails if it commits.
CreateDefault(w) ==
    /\ At(w, {"tap", "get", "put"}, "creating")
    /\ \A x \in Workers : ~HoldsRow(x)
    /\ ~RowExists
    /\ tx' = [tx EXCEPT ![w].created = TRUE, ![w].rules = Default,
                        ![w].phase = IF Running(w, {"tap"}) THEN "ruled"
                                                            ELSE "done"]
    /\ UNCHANGED <<marks, settings, inbox>>

CreateFail(w) ==
    /\ At(w, {"tap", "get", "put"}, "creating")
    /\ RowExists
    /\ Abort(w)

\* The settings as this request's flushes will leave them.
Base(w) == IF tx[w].created THEN Default ELSE settings
-----------------------------------------------------------------------------
(* A tap, and the sheet's write of one row.                                 *)

\* Bound: a tap starts while there are ids for what it may send.
NoteIdsLeft ==
    LET taps == {w \in Workers : Running(w, {"tap"})}
        used == UNION {tx[w].notes : w \in taps}
    IN  Cardinality({n \in Notes : inbox[n] = Free}) + Cardinality(used)
            >= 2 * (Cardinality(taps) + 1)

MarkStart(w, op, s, v) ==
    /\ op \in Ops
    /\ op = "tap" => NoteIdsLeft
    /\ Begin(w, [op |-> op, session |-> s, new |-> v, loaded |-> marks[s],
                 value |-> NULL, phase |-> "read", count |-> 0,
                 rules |-> NULL, notes |-> {}, created |-> FALSE])
    /\ UNCHANGED <<marks, settings, inbox>>

Locks(w, s) ==
    Running(w, {"tap", "sheet"}) /\ tx[w].session = s /\ tx[w].phase # "read"

\* UNIQUE (session, student): an INSERT meets a row committed since the read.
Clash(w) == tx[w].loaded = NULL /\ marks[tx[w].session] # NULL

\* Mutant: the tap notifies of the mark it was sent.
StoredAsSent(w) == tx[w].new

\* The mark after the flush, as db.refresh reads it back.
Stored(w) == Merged(marks[tx[w].session], tx[w].loaded, tx[w].new)

\* The flush.  A tap that leaves the student absent goes on to notify.
MarkWrite(w) ==
    /\ At(w, {"tap", "sheet"}, "read")
    /\ \A x \in Workers : ~Locks(x, tx[w].session)
    /\ ~Clash(w)
    /\ LET absent == tx[w].op = "tap" /\ Stored(w) = "absent" IN
       tx' = [tx EXCEPT
                ![w].value =
                    Merged(marks[tx[w].session], tx[w].loaded, tx[w].new),
                ![w].phase = IF absent THEN "written" ELSE "done"]
    /\ UNCHANGED <<marks, settings, inbox>>

MarkFail(w) ==
    /\ At(w, {"tap", "sheet"}, "read")
    /\ Clash(w)
    /\ Abort(w)

\* create_and_push: insert a notification.
Send(w, n, type, next) ==
    /\ inbox[n] = Free
    /\ inbox' = [inbox EXCEPT ![n] = [type |-> type, session |-> tx[w].session,
                                      saved |-> FALSE]]
    /\ tx' = [tx EXCEPT ![w].notes = @ \cup {n}, ![w].phase = next]

\* _notify_absent_student, for a student who has an active account.
Announce(w, n) ==
    /\ At(w, {"tap"}, "written")
    /\ Send(w, n, "recorded", "announced")
    /\ UNCHANGED <<marks, settings>>

Absences == {s \in Sessions : marks[s] = "absent"}

\* Mutant: the row just marked is counted on top of the stored ones.
CountedTwice(w) == Cardinality(Absences) + 1

\* The rows that the tap's query finds absent: committed ones and its own.
Counted(w) == Cardinality(Absences \cup {tx[w].session})

\* _maybe_send_threshold_notification counts.
Count(w) ==
    /\ At(w, {"tap"}, "announced")
    /\ tx' = [tx EXCEPT ![w].count = Counted(w), ![w].phase = "counted"]
    /\ UNCHANGED <<marks, settings, inbox>>

ReadRules(w) ==
    /\ At(w, {"tap"}, "counted")
    /\ tx' = [tx EXCEPT ![w].rules = settings,
                        ![w].phase = IF settings = NULL THEN "creating"
                                                        ELSE "ruled"]
    /\ UNCHANGED <<marks, settings, inbox>>

Warn(w, n) ==
    /\ At(w, {"tap"}, "ruled")
    /\ tx[w].count = tx[w].rules.warning
    /\ Send(w, n, "warning", "done")
    /\ UNCHANGED <<marks, settings>>

Exclude(w, n) ==
    /\ At(w, {"tap"}, "ruled")
    /\ tx[w].count = tx[w].rules.max /\ tx[w].count # tx[w].rules.warning
    /\ Send(w, n, "exclusion", "done")
    /\ UNCHANGED <<marks, settings>>

BelowThreshold(w) ==
    /\ At(w, {"tap"}, "ruled")
    /\ tx[w].count \notin {tx[w].rules.warning, tx[w].rules.max}
    /\ tx' = [tx EXCEPT ![w].phase = "done"]
    /\ UNCHANGED <<marks, settings, inbox>>

MarkCommit(w) ==
    /\ At(w, {"tap", "sheet"}, "done")
    /\ marks' = [marks EXCEPT ![tx[w].session] = tx[w].value]
    /\ settings' = Base(w)
    /\ inbox' = Saved(w)
    /\ tx' = [tx EXCEPT ![w] = Idle]
-----------------------------------------------------------------------------
(* Reading and saving the settings.                                         *)

\* A GET that finds the row changes nothing and is no step.
GetStart(w) ==
    /\ "get" \in Ops
    /\ settings = NULL
    /\ Begin(w, [op |-> "get", rules |-> NULL, notes |-> {},
                 phase |-> "creating", created |-> FALSE])
    /\ UNCHANGED <<marks, settings, inbox>>

GetCommit(w) ==
    /\ At(w, {"get"}, "done")
    /\ settings' = Base(w)
    /\ tx' = [tx EXCEPT ![w] = Idle]
    /\ UNCHANGED <<marks, inbox>>

\* warning_must_be_less_than_max.
Valid(r) == 1 <= r.warning /\ r.warning < r.max

PutStart(w, r) ==
    /\ "put" \in Ops
    /\ Valid(r)
    /\ Cardinality({x \in Workers : Running(x, {"put"})}) < Editors
    /\ Begin(w, [op |-> "put", new |-> r, rules |-> settings, notes |-> {},
                 phase |-> IF settings = NULL THEN "creating" ELSE "done",
                 created |-> FALSE])
    /\ UNCHANGED <<marks, settings, inbox>>

\* Only the columns that differ from what was loaded are written.
PutCommit(w) ==
    /\ At(w, {"put"}, "done")
    /\ LET old == tx[w].rules
           new == tx[w].new
       IN  settings' =
             [warning |-> Merged(Base(w).warning, old.warning, new.warning),
              max |-> Merged(Base(w).max, old.max, new.max)]
    /\ tx' = [tx EXCEPT ![w] = Idle]
    /\ UNCHANGED <<marks, inbox>>

Next ==
    \/ \E w \in Workers :
        \/ Abort(w)
        \/ CreateDefault(w) \/ CreateFail(w)
        \/ MarkWrite(w) \/ MarkFail(w) \/ Count(w) \/ ReadRules(w)
        \/ BelowThreshold(w) \/ MarkCommit(w)
        \/ GetStart(w) \/ GetCommit(w) \/ PutCommit(w)
    \/ \E w \in Workers, op \in {"tap", "sheet"}, s \in Sessions, v \in Marks :
        MarkStart(w, op, s, v)
    \/ \E w \in Workers, n \in Notes :
        Announce(w, n) \/ Warn(w, n) \/ Exclude(w, n)
    \/ \E w \in Workers, r \in Offered : PutStart(w, r)

Spec == Init /\ [][Next]_vars
-----------------------------------------------------------------------------
(* Properties.                                                             *)

IsSaved(n) == inbox[n] \notin {Free, Gone} /\ inbox[n].saved

\* What an administrator saves is never undone by another request that found no
\* row and creates the default one late: only a save changes existing settings.
DefaultNeverOverwrites ==
    [][settings # NULL /\ settings' # settings =>
          \E w \in Workers : Running(w, {"put"}) /\ tx'[w] = Idle]_vars

\* A student told "absence recorded" is absent once the tap has committed, even
\* if the tap's UPDATE left out a mark that another request changed.
RecordedIsAbsent ==
    [][\A n \in Notes :
          IsSaved(n)' /\ ~IsSaved(n) /\ inbox'[n].type = "recorded" =>
              marks'[inbox'[n].session] = "absent"]_vars

\* "Notifications are only sent once per threshold crossing": a warning comes
\* with the absence that reaches the threshold.  A repeated tap breaks it
\* (README, section 3).
WarnedByNewAbsence ==
    [][\A n \in Notes :
          IsSaved(n)' /\ ~IsSaved(n) /\ inbox'[n].type = "warning" =>
              Cardinality(Absences') > Cardinality(Absences)]_vars
=============================================================================
