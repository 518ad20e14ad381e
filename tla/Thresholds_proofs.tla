--------------------------- MODULE Thresholds_proofs ---------------------------
(* Theorems about Thresholds, for any sessions, notifications and thresholds. *)
EXTENDS Thresholds, FiniteSetTheorems, TLAPS

\* A request that has inserted the settings row found none, and none can be
\* committed until it ends: the unique constraint lets in one INSERT only.
OneCreator ==
    \A w \in Workers : HoldsRow(w) =>
        settings = NULL /\ \A x \in Workers : HoldsRow(x) => x = w

\* A save that can commit has loaded a row, and there is one to update.
SavesHaveRow ==
    \A w \in Workers : At(w, {"put"}, "done") =>
        tx[w].rules \in Rules /\ (tx[w].created \/ settings # NULL)

\* What has been sent but not committed is a tap's own.
NotesAreOwn ==
    \A w, x \in Workers :
        tx[w] # Idle /\ tx[x] # Idle /\ w # x => tx[w].notes \cap tx[x].notes = {}

\* A tap that sends anything has found its row absent and locked it.
NotesInv ==
    \A w \in Workers : tx[w] # Idle =>
        /\ tx[w].notes # {} => tx[w].op = "tap"
        /\ Running(w, {"tap"}) =>
            /\ tx[w].phase = "read" => tx[w].notes = {}
            /\ tx[w].phase \notin {"read", "done"} \/ tx[w].notes # {} =>
                  tx[w].value = "absent"
        /\ \A n \in tx[w].notes : /\ inbox[n] \in Note /\ ~inbox[n].saved
                                  /\ inbox[n].session = tx[w].session

IInv == TypeOK /\ OneCreator /\ SavesHaveRow /\ NotesAreOwn /\ NotesInv
-----------------------------------------------------------------------------
(* Typing.                                                                 *)

\* A tap counts at most every session of the module.
LEMMA CountTyped ==
    ASSUME NEW w \in Workers, tx[w].session \in Sessions
    PROVE  Counted(w) \in 0..Cardinality(Sessions)
<1>1. Absences \cup {tx[w].session} \in SUBSET Sessions
    BY DEF Absences
<1>. QED
    BY <1>1, FS_Subset, FS_CardinalityType, MarksAssumption DEF Counted

\* The kinds of request are told apart by their handler.
LEMMA Kinds ==
    ASSUME TypeOK, NEW w \in Workers, tx[w] # Idle
    PROVE  /\ Running(w, {"tap", "sheet"}) => tx[w] \in MarkTx
           /\ Running(w, {"get"}) => tx[w] \in GetTx
           /\ Running(w, {"put"}) => tx[w] \in PutTx
           /\ tx[w].op \in {"tap", "sheet", "get", "put"}
           /\ tx[w].notes \in SUBSET Notes
BY DEF TypeOK, Running, MarkTx, GetTx, PutTx

\* What a flush leaves in the row is a mark.
LEMMA MergedTyped ==
    ASSUME NEW S, NEW current \in S, NEW loaded, NEW new \in S
    PROVE  Merged(current, loaded, new) \in S
BY DEF Merged
-----------------------------------------------------------------------------
(* The invariant is inductive.                                             *)

\* The invariant holds at first.
LEMMA InitInv == Init => IInv
BY RulesAssumption, MarksAssumption
   DEF Init, IInv, TypeOK, OneCreator, SavesHaveRow, NotesAreOwn, NotesInv,
       HoldsRow, At, Running

\* A request begins with what it loads, and has sent nothing.
LEMMA BeginKeeps ==
    ASSUME IInv, NEW w \in Workers, NEW t \in MarkTx \cup GetTx \cup PutTx,
           Begin(w, t), UNCHANGED <<marks, settings, inbox>>,
           t.notes = {}, ~t.created,
           t.op \in {"tap", "sheet"} => t.phase = "read",
           t.op = "put" /\ t.phase = "done" => t.rules \in Rules /\ settings # NULL
    PROVE  IInv'
<1>1. TypeOK'
    BY DEF Begin, IInv, TypeOK
<1>2. tx' = [tx EXCEPT ![w] = t] /\ t # Idle
    BY MarksAssumption DEF Begin
<1>3. \A x \in Workers : tx'[x] = IF x = w THEN t ELSE tx[x]
    BY <1>2 DEF IInv, TypeOK
<1>4. OneCreator'
    BY <1>3 DEF IInv, OneCreator, HoldsRow
<1>5. SavesHaveRow'
    BY <1>3 DEF IInv, SavesHaveRow, At, Running
<1>6. NotesAreOwn'
    BY <1>3 DEF IInv, NotesAreOwn
<1>7. NotesInv'
    BY <1>3 DEF IInv, NotesInv, Running
<1>. QED
    BY <1>1, <1>4, <1>5, <1>6, <1>7 DEF IInv

\* Every request that starts keeps the invariant.
LEMMA StartsKeep ==
    ASSUME IInv, NEW w \in Workers,
           \/ \E op \in {"tap", "sheet"}, s \in Sessions, v \in Marks :
                MarkStart(w, op, s, v)
           \/ GetStart(w)
           \/ \E r \in Offered : PutStart(w, r)
    PROVE  IInv'
<1>1. CASE \E op \in {"tap", "sheet"}, s \in Sessions, v \in Marks :
                MarkStart(w, op, s, v)
    <2>1. PICK op \in {"tap", "sheet"}, s \in Sessions, v \in Marks :
                MarkStart(w, op, s, v)
        BY <1>1
    <2>. DEFINE t == [op |-> op, session |-> s, new |-> v, loaded |-> marks[s],
                      value |-> NULL, phase |-> "read", count |-> 0,
                      rules |-> NULL, notes |-> {}, created |-> FALSE]
    <2>2. 0 \in 0..Cardinality(Sessions)
        BY FS_CardinalityType, MarksAssumption
    <2>3. t \in MarkTx
        BY <2>2, MarksAssumption DEF IInv, TypeOK, MarkTx
    <2>. QED
        BY <2>1, <2>3, BeginKeeps DEF MarkStart
<1>2. CASE GetStart(w)
    <2>. DEFINE t == [op |-> "get", rules |-> NULL, notes |-> {},
                      phase |-> "creating", created |-> FALSE]
    <2>1. t \in GetTx
        BY DEF GetTx
    <2>. QED
        BY <1>2, <2>1, BeginKeeps DEF GetStart
<1>3. CASE \E r \in Offered : PutStart(w, r)
    <2>1. PICK r \in Offered : PutStart(w, r)
        BY <1>3
    <2>. DEFINE t == [op |-> "put", new |-> r, rules |-> settings, notes |-> {},
                      phase |-> IF settings = NULL THEN "creating" ELSE "done",
                      created |-> FALSE]
    <2>2. t \in PutTx
        BY RulesAssumption DEF IInv, TypeOK, PutTx
    <2>. QED
        BY <2>1, <2>2, BeginKeeps DEF PutStart, IInv, TypeOK
<1>. QED
    BY <1>1, <1>2, <1>3

\* A request that rolls back takes what it has sent with it.
LEMMA AbortKeeps == ASSUME IInv, NEW w \in Workers, Abort(w) PROVE IInv'
<1>1. TypeOK'
    BY DEF Abort, IInv, TypeOK
<1>3. \A x \in Workers : tx'[x] = IF x = w THEN Idle ELSE tx[x]
    BY DEF Abort, IInv, TypeOK
<1>4. OneCreator'
    BY <1>3 DEF Abort, IInv, OneCreator, HoldsRow
<1>5. SavesHaveRow'
    BY <1>3 DEF Abort, IInv, SavesHaveRow, At, Running
<1>6. NotesAreOwn'
    BY <1>3 DEF IInv, NotesAreOwn
<1>7. NotesInv'
    <2>1. ASSUME NEW x \in Workers, tx'[x] # Idle, NEW n \in tx'[x].notes
          PROVE  inbox'[n] = inbox[n]
        <3>1. x # w /\ tx[x] = tx'[x] /\ tx[w] # Idle /\ n \in Notes
            BY <1>3, <2>1, Kinds DEF Abort, IInv
        <3>. QED
            BY <2>1, <3>1 DEF Abort, IInv, NotesAreOwn
    <2>. QED
        BY <1>3, <2>1 DEF IInv, NotesInv, Running
<1>. QED
    BY <1>1, <1>4, <1>5, <1>6, <1>7 DEF IInv

\* The default row is inserted by a request that finds no other at it.
LEMMA CreateKeeps == ASSUME IInv, NEW w \in Workers, CreateDefault(w) PROVE IInv'
<1>. DEFINE t == [tx[w] EXCEPT !.created = TRUE, !.rules = Default,
                    !.phase = IF Running(w, {"tap"}) THEN "ruled" ELSE "done"]
<1>1. /\ tx[w] # Idle /\ tx[w].phase = "creating"
      /\ tx[w].op \in {"tap", "get", "put"} /\ settings = NULL
      /\ \A x \in Workers : ~HoldsRow(x)
      /\ UNCHANGED <<marks, settings, inbox>>
    BY DEF CreateDefault, At, Running, RowExists
<1>2. tx' = [tx EXCEPT ![w] = t]
    BY DEF CreateDefault, IInv, TypeOK
<1>3. t \in MarkTx \cup GetTx \cup PutTx
    <2>1. CASE tx[w].op = "tap"
        <3>1. tx[w] \in MarkTx
            BY <1>1, <2>1, Kinds DEF IInv, Running
        <3>. QED
            BY <3>1, RulesAssumption DEF MarkTx
    <2>2. CASE tx[w].op = "get"
        <3>1. tx[w] \in GetTx
            BY <1>1, <2>2, Kinds DEF IInv, Running
        <3>. QED
            BY <2>2, <3>1, RulesAssumption DEF GetTx, Running
    <2>3. CASE tx[w].op = "put"
        <3>1. tx[w] \in PutTx
            BY <1>1, <2>3, Kinds DEF IInv, Running
        <3>. QED
            BY <2>3, <3>1, RulesAssumption DEF PutTx, Running
    <2>. QED
        BY <1>1, <2>1, <2>2, <2>3
<1>4. /\ t.op = tx[w].op /\ t.notes = tx[w].notes /\ t.created
      /\ t.rules = Default
      /\ t.op = "tap" => /\ t.phase = "ruled" /\ t.value = tx[w].value
                         /\ t.session = tx[w].session
      /\ t.notes # {} => t.session = tx[w].session
    BY <1>1, Kinds DEF IInv, Running, MarkTx, GetTx, PutTx, NotesInv
<1>5. \A x \in Workers : tx'[x] = IF x = w THEN t ELSE tx[x]
    BY <1>2 DEF IInv, TypeOK
<1>6. TypeOK'
    BY <1>1, <1>2, <1>3 DEF IInv, TypeOK
<1>7. OneCreator'
    BY <1>1, <1>4, <1>5 DEF IInv, OneCreator, HoldsRow
<1>8. SavesHaveRow'
    BY <1>1, <1>4, <1>5, RulesAssumption DEF IInv, SavesHaveRow, At, Running
<1>9. NotesAreOwn'
    BY <1>1, <1>4, <1>5 DEF IInv, NotesAreOwn
<1>10. NotesInv'
    <2>. HIDE DEF t
    <2>1. tx[w].op = "tap" => tx[w].value = "absent"
        BY <1>1 DEF IInv, NotesInv, Running
    <2>. QED
        BY <1>1, <1>4, <1>5, <2>1 DEF IInv, NotesInv, Running
<1>. QED
    BY <1>6, <1>7, <1>8, <1>9, <1>10 DEF IInv

\* A step of a tap or a sheet that sends nothing.
LEMMA MarkStepKeeps ==
    ASSUME IInv, NEW w \in Workers, UNCHANGED <<marks, settings, inbox>>,
           tx[w] # Idle, tx[w].op \in {"tap", "sheet"},
           NEW t \in MarkTx, tx' = [tx EXCEPT ![w] = t],
           t.op = tx[w].op, t.session = tx[w].session,
           t.notes = tx[w].notes, t.created = tx[w].created,
           t.op = "tap" /\ (t.phase \notin {"read", "done"} \/ t.notes # {}) =>
              t.value = "absent",
           t.phase # "read"
    PROVE  IInv'
<1>1. \A x \in Workers : tx'[x] = IF x = w THEN t ELSE tx[x]
    BY DEF IInv, TypeOK
<1>2. TypeOK'
    BY DEF IInv, TypeOK
<1>3. OneCreator'
    BY <1>1 DEF IInv, OneCreator, HoldsRow
<1>4. SavesHaveRow'
    BY <1>1 DEF IInv, SavesHaveRow, At, Running
<1>5. NotesAreOwn'
    BY <1>1 DEF IInv, NotesAreOwn
<1>6. NotesInv'
    BY <1>1 DEF IInv, NotesInv, Running
<1>. QED
    BY <1>2, <1>3, <1>4, <1>5, <1>6 DEF IInv

\* The steps of a tap or sheet before its commit keep the invariant.
LEMMA MarkStepsKeep ==
    ASSUME IInv, NEW w \in Workers,
           MarkWrite(w) \/ Count(w) \/ ReadRules(w) \/ BelowThreshold(w)
    PROVE  IInv'
<1>1. /\ tx[w] # Idle /\ tx[w].op \in {"tap", "sheet"} /\ tx[w] \in MarkTx
      /\ UNCHANGED <<marks, settings, inbox>>
    BY Kinds DEF MarkWrite, Count, ReadRules, BelowThreshold, At, Running, IInv
<1>2. CASE MarkWrite(w)
    <2>. DEFINE t == [tx[w] EXCEPT !.value = Stored(w),
                        !.phase = IF tx[w].op = "tap" /\ Stored(w) = "absent"
                                  THEN "written" ELSE "done"]
    <2>1. Stored(w) \in Values \cup {NULL}
        BY <1>1, MergedTyped DEF IInv, TypeOK, MarkTx, Stored
    <2>2. t \in MarkTx
        BY <1>1, <2>1 DEF MarkTx
    <2>3. tx' = [tx EXCEPT ![w] = t]
        BY <1>2, <1>1 DEF MarkWrite, Stored, IInv, TypeOK
    <2>4. tx[w].phase = "read"
        BY <1>2 DEF MarkWrite, At
    <2>. QED
        BY <1>1, <2>2, <2>3, <2>4, MarkStepKeeps
           DEF IInv, NotesInv, Running, MarkTx
<1>3. CASE Count(w)
    <2>. DEFINE t == [tx[w] EXCEPT !.count = Counted(w), !.phase = "counted"]
    <2>1. t \in MarkTx
        BY <1>1, CountTyped DEF MarkTx
    <2>2. tx' = [tx EXCEPT ![w] = t]
        BY <1>3 DEF Count, IInv, TypeOK
    <2>. QED
        BY <1>1, <1>3, <2>1, <2>2, MarkStepKeeps
           DEF Count, At, IInv, NotesInv, Running, MarkTx
<1>4. CASE ReadRules(w)
    <2>. DEFINE t == [tx[w] EXCEPT !.rules = settings,
                        !.phase = IF settings = NULL THEN "creating"
                                                     ELSE "ruled"]
    <2>1. t \in MarkTx
        BY <1>1 DEF MarkTx, IInv, TypeOK
    <2>2. tx' = [tx EXCEPT ![w] = t]
        BY <1>4 DEF ReadRules, IInv, TypeOK
    <2>. QED
        BY <1>1, <1>4, <2>1, <2>2, MarkStepKeeps
           DEF ReadRules, At, IInv, NotesInv, Running, MarkTx
<1>5. CASE BelowThreshold(w)
    <2>. DEFINE t == [tx[w] EXCEPT !.phase = "done"]
    <2>1. t \in MarkTx
        BY <1>1 DEF MarkTx
    <2>2. tx' = [tx EXCEPT ![w] = t]
        BY <1>5 DEF BelowThreshold, IInv, TypeOK
    <2>. QED
        BY <1>1, <1>5, <2>1, <2>2, MarkStepKeeps
           DEF BelowThreshold, At, IInv, NotesInv, Running, MarkTx
<1>. QED
    BY <1>2, <1>3, <1>4, <1>5

\* A tap sends a notification about its own session, under an unused id.
LEMMA SendKeeps ==
    ASSUME IInv, NEW w \in Workers, NEW n \in Notes,
           NEW type \in {"recorded", "warning", "exclusion"},
           NEW next \in {"announced", "done"},
           Running(w, {"tap"}), tx[w].phase \in {"written", "ruled"},
           Send(w, n, type, next), UNCHANGED <<marks, settings>>
    PROVE  IInv'
<1>. DEFINE t == [tx[w] EXCEPT !.notes = @ \cup {n}, !.phase = next]
<1>. DEFINE note == [type |-> type, session |-> tx[w].session, saved |-> FALSE]
<1>1. tx[w] # Idle /\ tx[w].op = "tap" /\ tx[w] \in MarkTx
    BY Kinds DEF IInv, Running
<1>2. t \in MarkTx /\ note \in Note
    BY <1>1 DEF MarkTx, Note
<1>3. /\ t.op = "tap" /\ t.session = tx[w].session /\ t.value = tx[w].value
      /\ t.notes = tx[w].notes \cup {n} /\ t.created = tx[w].created
      /\ t.phase = next
    BY <1>1 DEF MarkTx
<1>4. /\ \A x \in Workers : tx'[x] = IF x = w THEN t ELSE tx[x]
      /\ \A m \in Notes : inbox'[m] = IF m = n THEN note ELSE inbox[m]
    BY DEF Send, IInv, TypeOK
<1>5. \A x \in Workers : tx[x] # Idle => n \notin tx[x].notes
    BY MarksAssumption DEF Send, IInv, NotesInv
<1>6. TypeOK'
    BY <1>2 DEF Send, IInv, TypeOK
<1>7. OneCreator'
    BY <1>1, <1>3, <1>4 DEF IInv, OneCreator, HoldsRow
<1>8. SavesHaveRow'
    BY <1>1, <1>3, <1>4 DEF IInv, SavesHaveRow, At, Running
<1>9. NotesAreOwn'
    <2>. HIDE DEF t
    <2>. QED
        BY <1>1, <1>3, <1>4, <1>5 DEF IInv, NotesAreOwn
<1>10. NotesInv'
    <2>. HIDE DEF t
    <2>1. \A x \in Workers : tx[x] # Idle => tx[x].notes \subseteq Notes
        BY Kinds DEF IInv
    <2>2. tx[w].value = "absent"
        BY <1>1 DEF IInv, NotesInv, Running
    <2>3. /\ note \in Note /\ ~note.saved /\ note.session = tx[w].session
        BY <1>2
    <2>4. ASSUME NEW x \in Workers, tx[x] # Idle, NEW m \in tx[x].notes
          PROVE  m \in Notes /\ inbox'[m] = inbox[m]
        BY <1>4, <1>5, <2>1, <2>4
    <2>. HIDE DEF note
    <2>. QED
        BY <1>1, <1>3, <1>4, <2>2, <2>3, <2>4 DEF IInv, NotesInv, Running
<1>. QED
    BY <1>6, <1>7, <1>8, <1>9, <1>10 DEF IInv

\* A commit leaves a settings row only where there is one or it brings one, and
\* saves what its request has sent.
LEMMA CommitKeeps ==
    ASSUME IInv, NEW w \in Workers, tx[w] # Idle,
           tx' = [tx EXCEPT ![w] = Idle], inbox' = Saved(w),
           marks' \in [Sessions -> Values \cup {NULL}],
           settings' \in Rules \cup {NULL},
           settings # NULL => settings' # NULL,
           settings = NULL /\ ~HoldsRow(w) => settings' = NULL
    PROVE  IInv'
<1>1. \A x \in Workers : tx'[x] = IF x = w THEN Idle ELSE tx[x]
    BY DEF IInv, TypeOK
<1>2. tx[w].notes \subseteq Notes
    BY Kinds DEF IInv
<1>3. TypeOK'
    <2>1. ASSUME NEW n \in Notes
          PROVE  Saved(w)[n] \in Note \cup {Free, Gone}
        <3>1. CASE n \in tx[w].notes
            <4>1. inbox[n] \in Note
                BY <3>1 DEF IInv, NotesInv
            <4>. QED
                BY <3>1, <4>1 DEF Saved, Note
        <3>2. CASE n \notin tx[w].notes
            BY <3>2 DEF Saved, IInv, TypeOK
        <3>. QED
            BY <3>1, <3>2
    <2>2. inbox' \in [Notes -> Note \cup {Free, Gone}]
        BY <2>1 DEF Saved
    <2>. QED
        BY <2>2 DEF IInv, TypeOK
<1>4. OneCreator'
    BY <1>1 DEF IInv, OneCreator, HoldsRow
<1>5. SavesHaveRow'
    BY <1>1 DEF IInv, SavesHaveRow, At, Running
<1>6. NotesAreOwn'
    BY <1>1 DEF IInv, NotesAreOwn
<1>7. NotesInv'
    <2>1. ASSUME NEW x \in Workers, tx'[x] # Idle, NEW n \in tx'[x].notes
          PROVE  inbox'[n] = inbox[n]
        <3>1. x # w /\ tx[x] = tx'[x] /\ n \in Notes
            BY <1>1, <2>1, Kinds DEF IInv
        <3>. QED
            BY <2>1, <3>1 DEF Saved, IInv, NotesAreOwn
    <2>. QED
        BY <1>1, <2>1 DEF IInv, NotesInv, Running
<1>. QED
    BY <1>3, <1>4, <1>5, <1>6, <1>7 DEF IInv

\* Every commit keeps the invariant, and pushes what was saved.
LEMMA CommitsKeep ==
    ASSUME IInv, NEW w \in Workers,
           MarkCommit(w) \/ GetCommit(w) \/ PutCommit(w)
    PROVE  IInv' /\ inbox' = Saved(w)
<1>1. Base(w) = IF tx[w].created THEN Default ELSE settings
    BY DEF Base
<1>2. tx[w] # Idle /\ tx' = [tx EXCEPT ![w] = Idle]
    BY DEF MarkCommit, GetCommit, PutCommit, At, Running
<1>3. CASE MarkCommit(w)
    <2>1. tx[w] \in MarkTx
        BY <1>2, <1>3, Kinds DEF MarkCommit, At, IInv
    <2>2. marks' \in [Sessions -> Values \cup {NULL}]
        BY <1>3, <2>1 DEF MarkCommit, IInv, TypeOK, MarkTx
    <2>. QED
        BY <1>1, <1>2, <1>3, <2>2, CommitKeeps, RulesAssumption, MarksAssumption
           DEF MarkCommit, HoldsRow, IInv, TypeOK, OneCreator
<1>4. CASE GetCommit(w) \/ PutCommit(w)
    <2>1. tx[w].notes = {} /\ UNCHANGED <<marks, inbox>>
        BY <1>4, Kinds
           DEF GetCommit, PutCommit, At, Running, IInv, GetTx, PutTx
    <2>2. inbox' = Saved(w)
        BY <2>1 DEF Saved, IInv, TypeOK
    <2>3. CASE GetCommit(w)
        BY <1>1, <1>2, <2>1, <2>2, <2>3, CommitKeeps, RulesAssumption,
           MarksAssumption
           DEF GetCommit, HoldsRow, IInv, TypeOK, OneCreator
    <2>4. CASE PutCommit(w)
        <3>1. /\ tx[w] \in PutTx /\ tx[w].rules \in Rules
              /\ tx[w].created \/ settings # NULL
            BY <1>2, <2>4, Kinds DEF PutCommit, At, IInv, SavesHaveRow
        <3>2. Base(w) \in Rules /\ tx[w].new \in Rules
            BY <1>1, <3>1, RulesAssumption DEF IInv, TypeOK, PutTx
        <3>3. settings' \in Rules
            BY <2>4, <3>1, <3>2, MergedTyped DEF PutCommit, Rules
        <3>. QED
            BY <1>2, <2>1, <2>2, <3>1, <3>3, CommitKeeps, MarksAssumption
               DEF HoldsRow, IInv, TypeOK
    <2>. QED
        BY <1>4, <2>2, <2>3, <2>4
<1>. QED
    BY <1>3, <1>4, CommitKeeps

\* So does every step.
LEMMA NextInv == IInv /\ [Next]_vars => IInv'
<1>. SUFFICES ASSUME IInv, [Next]_vars PROVE IInv'
    OBVIOUS
<1>1. CASE \E w \in Workers :
            \/ GetStart(w)
            \/ \E op \in {"tap", "sheet"}, s \in Sessions, v \in Marks :
                  MarkStart(w, op, s, v)
            \/ \E r \in Offered : PutStart(w, r)
    BY <1>1, StartsKeep
<1>2. CASE \E w \in Workers : Abort(w) \/ CreateFail(w) \/ MarkFail(w)
    BY <1>2, AbortKeeps DEF CreateFail, MarkFail
<1>3. CASE \E w \in Workers : CreateDefault(w)
    BY <1>3, CreateKeeps
<1>4. CASE \E w \in Workers :
            MarkWrite(w) \/ Count(w) \/ ReadRules(w) \/ BelowThreshold(w)
    BY <1>4, MarkStepsKeep
<1>5. CASE \E w \in Workers, n \in Notes :
            Announce(w, n) \/ Warn(w, n) \/ Exclude(w, n)
    BY <1>5, SendKeeps DEF Announce, Warn, Exclude, At
<1>6. CASE \E w \in Workers : MarkCommit(w) \/ GetCommit(w) \/ PutCommit(w)
    BY <1>6, CommitsKeep
<1>7. CASE UNCHANGED vars
    BY <1>7 DEF vars, IInv, TypeOK, OneCreator, SavesHaveRow, NotesAreOwn,
       NotesInv, HoldsRow, At, Running
<1>. QED
    BY <1>1, <1>2, <1>3, <1>4, <1>5, <1>6, <1>7 DEF Next
-----------------------------------------------------------------------------
(* Theorems.                                                               *)

\* The types, the one creator of the settings row and the owners of what has
\* been sent hold in every reachable state.
THEOREM ThresholdsInductive == Spec => []IInv
BY InitInv, NextInv, PTL DEF Spec

\* Every table and request keeps its type.
THEOREM ThresholdsTypeCorrect == Spec => []TypeOK
<1>1. IInv => TypeOK
    BY DEF IInv
<1>. QED
    BY <1>1, ThresholdsInductive, PTL

\* The default row, created late, overwrites nothing an administrator saved.
THEOREM SavedRulesSurvive == Spec => DefaultNeverOverwrites
<1>1. ASSUME IInv, [Next]_vars, settings # NULL, settings' # settings
      PROVE  \E w \in Workers : Running(w, {"put"}) /\ tx'[w] = Idle
    <2>1. PICK w \in Workers :
              MarkCommit(w) \/ GetCommit(w) \/ PutCommit(w)
        BY <1>1 DEF Next, vars, Abort, CreateDefault, CreateFail, MarkWrite,
           MarkFail, Count, ReadRules, BelowThreshold, GetStart, MarkStart,
           Announce, Warn, Exclude, PutStart
    <2>2. ~HoldsRow(w)
        BY <1>1 DEF IInv, OneCreator
    <2>3. ~MarkCommit(w) /\ ~GetCommit(w)
        BY <1>1, <2>2 DEF MarkCommit, GetCommit, At, Running, Base, HoldsRow
    <2>. QED
        BY <1>1, <2>1, <2>3 DEF PutCommit, At, Running, IInv, TypeOK
<1>2. IInv /\ [Next]_vars =>
        [settings # NULL /\ settings' # settings =>
            \E w \in Workers : Running(w, {"put"}) /\ tx'[w] = Idle]_vars
    BY <1>1
<1>. QED
    BY <1>2, ThresholdsInductive, PTL DEF Spec, DefaultNeverOverwrites

\* Whoever is told of a recorded absence is absent in the committed table.
THEOREM ToldIsAbsent == Spec => RecordedIsAbsent
<1>1. ASSUME IInv, [Next]_vars, NEW n \in Notes,
             IsSaved(n)', ~IsSaved(n), inbox'[n].type = "recorded"
      PROVE  marks'[inbox'[n].session] = "absent"
    <2>1. inbox'[n] # inbox[n]
        BY <1>1 DEF IsSaved
    <2>2. ~ \E w \in Workers : Abort(w)
        BY <1>1, <2>1 DEF Abort, IsSaved
    <2>3. ~ \E w \in Workers, m \in Notes :
              Announce(w, m) \/ Warn(w, m) \/ Exclude(w, m)
        <3>1. ASSUME NEW w \in Workers, NEW m \in Notes,
                     NEW type, NEW next, Send(w, m, type, next)
              PROVE  FALSE
            <4>1. inbox' = [inbox EXCEPT
                      ![m] = [type |-> type, session |-> tx[w].session,
                              saved |-> FALSE]]
                BY <3>1 DEF Send
            <4>2. n = m /\ inbox'[n].saved = FALSE
                BY <2>1, <4>1 DEF IInv, TypeOK
            <4>. QED
                BY <1>1, <4>2 DEF IsSaved
        <3>. QED
            BY <3>1 DEF Announce, Warn, Exclude
    <2>4. PICK w \in Workers :
              MarkCommit(w) \/ GetCommit(w) \/ PutCommit(w)
        BY <1>1, <2>1, <2>2, <2>3 DEF Next, vars, CreateDefault, CreateFail,
           MarkWrite, MarkFail, Count, ReadRules, BelowThreshold, GetStart,
           MarkStart, PutStart
    <2>5. n \in tx[w].notes /\ tx[w] # Idle
        BY <1>1, <2>1, <2>4, CommitsKeep
           DEF Saved, MarkCommit, GetCommit, PutCommit, At, Running
    <2>6. tx[w].op = "tap" /\ tx[w] \in MarkTx /\ tx[w].value = "absent"
        BY <1>1, <2>5, Kinds DEF IInv, NotesInv, Running
    <2>7. MarkCommit(w)
        BY <2>4, <2>6 DEF GetCommit, PutCommit, At, Running
    <2>8. inbox'[n].session = tx[w].session
        BY <1>1, <2>5, <2>7 DEF MarkCommit, Saved, IInv, NotesInv, Note
    <2>. QED
        BY <1>1, <2>6, <2>7, <2>8 DEF MarkCommit, MarkTx, IInv, TypeOK
<1>2. IInv /\ [Next]_vars =>
        [\A n \in Notes :
            IsSaved(n)' /\ ~IsSaved(n) /\ inbox'[n].type = "recorded" =>
                marks'[inbox'[n].session] = "absent"]_vars
    BY <1>1
<1>. QED
    BY <1>2, ThresholdsInductive, PTL DEF Spec, RecordedIsAbsent
=============================================================================
