------------------------- MODULE Justifications_proofs -------------------------
(* Theorems about Justifications, for any requests, sessions and documents.   *)
EXTENDS Justifications, TLAPS

\* The document that an edit or a cancellation has found in its row.
Old(w) ==
    {f \in Files :
        tx[w] # Idle /\ tx[w].op \in {"edit", "delete"} /\ f = tx[w].old}

\* No two rows share a document.
RowsInv ==
    \A j \in Items : Live(j) =>
        /\ files[items[j].file] # "unused"
        /\ \A i \in Items : Live(i) /\ items[i].file = items[j].file => i = j

\* What waits for a row is stored, and nobody else can name it.
WaitingInv ==
    \A w \in Workers : \A f \in Waiting(w) :
        /\ files[f] = "stored"
        /\ \A j \in Items : Live(j) => items[j].file # f
        /\ \A v \in Workers : f \notin Old(v) /\ (f \in Waiting(v) => v = w)

\* What a request is to destroy belongs to the row it is about, or to none.
OldInv ==
    \A w \in Workers : \A f \in Old(w) :
        /\ files[f] # "unused"
        /\ \A j \in Items : Live(j) /\ items[j].file = f => j = tx[w].id

\* An edit that has uploaded knows the document.
UploadedInv ==
    \A w \in Workers :
        tx[w] # Idle /\ tx[w].op = "edit" /\ tx[w].phase = "uploaded" =>
            tx[w].new \in Files

IInv ==
    /\ TablesOK /\ OnePerTarget /\ DocumentsAreStored
    /\ RowsInv /\ WaitingInv /\ OldInv /\ UploadedInv
-----------------------------------------------------------------------------
(* Requests.                                                               *)

\* The kinds of request are told apart by their handler.
LEMMA Kinds ==
    ASSUME TablesOK, NEW w \in Workers, tx[w] # Idle
    PROVE  /\ tx[w].op = "submit" => tx[w] \in SubmitTx
           /\ tx[w].op = "edit" => tx[w] \in EditTx
           /\ tx[w].op = "delete" => tx[w] \in DeleteTx
           /\ tx[w].op \in {"decide", "decide-all"} => tx[w] \in DecideTx
           /\ tx[w].op \in {"submit", "edit", "delete", "decide", "decide-all"}
BY DEF TablesOK, Tx, SubmitTx, EditTx, DeleteTx, DecideTx

\* A step of one request changes what that request alone is at.
LEMMA OthersSame ==
    ASSUME TablesOK, NEW w \in Workers, NEW t, tx' = [tx EXCEPT ![w] = t]
    PROVE  /\ tx'[w] = t
           /\ \A v \in Workers \ {w} :
                /\ tx'[v] = tx[v] /\ Waiting(v)' = Waiting(v)
                /\ Old(v)' = Old(v) /\ Destroying(v)' = Destroying(v)
           /\ t = Idle => /\ Waiting(w)' = {} /\ Old(w)' = {}
                          /\ Destroying(w)' = {}
BY DEF TablesOK, Waiting, Old, Destroying

\* What is in the table is a justification.
LEMMA RowTyped ==
    ASSUME TablesOK, NEW j \in Items, Live(j)
    PROVE  /\ items[j] \in Item /\ items[j].file \in Files
           /\ items[j].scope \in Scopes
BY DEF TablesOK, Live, Item

\* A request destroys the document it has found in its row, nothing else.
LEMMA DestroyingOld ==
    ASSUME TablesOK, NEW w \in Workers
    PROVE  Destroying(w) \subseteq Old(w)
BY Kinds DEF Destroying, Old, EditTx, DeleteTx

\* The invariant holds of empty tables.
LEMMA InitInv == Init => IInv
BY MarksAssumption DEF Init, IInv, TablesOK, OnePerTarget, DocumentsAreStored, RowsInv,
   WaitingInv, OldInv, UploadedInv, Live, Waiting, Old
-----------------------------------------------------------------------------
(* The invariant is inductive: the student's requests.                     *)

\* A submission uploads a document that nobody has named.
LEMMA SubmitStartKeeps ==
    ASSUME IInv, NEW w \in Workers, NEW m \in Students, NEW scope \in Scopes,
           NEW target \in Targets, NEW f \in Unused,
           SubmitStart(w, m, scope, target, f)
    PROVE  IInv'
<1>. DEFINE row == [student |-> m, scope |-> scope, target |-> target,
                    file |-> f, status |-> "PENDING"]
            t == [op |-> "submit", item |-> row]
<1>1. /\ tx[w] = Idle /\ tx' = [tx EXCEPT ![w] = t]
      /\ files' = [files EXCEPT ![f] = "stored"] /\ files[f] = "unused"
      /\ UNCHANGED <<items, marks, lost>> /\ f \in Files
    BY DEF SubmitStart, Begin, Unused
<1>2. t \in Tx
    BY <1>1 DEF Tx, SubmitTx, Item
<1>3. t # Idle /\ t.op = "submit" /\ t.item.file = f
    BY <1>2, MarksAssumption
<1>. HIDE DEF t
<1>4. TablesOK'
    BY <1>1, <1>2 DEF IInv, TablesOK
<1>5. /\ Waiting(w)' = {f} /\ Old(w)' = {} /\ Destroying(w)' = {}
      /\ Waiting(w) = {} /\ Old(w) = {} /\ Destroying(w) = {}
    <2>1. tx'[w] = t
        BY <1>1, OthersSame DEF IInv
    <2>2. Waiting(w)' = {f}
        BY <1>1, <1>3, <2>1 DEF Waiting
    <2>3. Old(w)' = {} /\ Destroying(w)' = {}
        BY <1>3, <2>1 DEF Old, Destroying
    <2>. QED
        BY <1>1, <2>2, <2>3 DEF Waiting, Old, Destroying
<1>6. \A v \in Workers \ {w} :
          /\ tx'[v] = tx[v] /\ Waiting(v)' = Waiting(v)
          /\ Old(v)' = Old(v) /\ Destroying(v)' = Destroying(v)
    BY <1>1, OthersSame DEF IInv
<1>7. \A j \in Items : /\ Live(j)' <=> Live(j)
                       /\ Live(j) => items[j].file \in Files
                       /\ Live(j) => items[j].file # f
    <2>1. \A j \in Items : Live(j)' <=> Live(j)
        BY <1>1 DEF Live
    <2>2. \A j \in Items : Live(j) => items[j].file \in Files
        BY RowTyped DEF IInv
    <2>3. \A j \in Items : Live(j) => items[j].file # f
        BY <1>1 DEF IInv, RowsInv
    <2>. QED
        BY <2>1, <2>2, <2>3
<1>8. OnePerTarget'
    BY <1>1, <1>7 DEF IInv, OnePerTarget
<1>9. DocumentsAreStored'
    BY <1>1, <1>5, <1>6, <1>7 DEF IInv, DocumentsAreStored, TablesOK
<1>10. RowsInv'
    BY <1>1, <1>7 DEF IInv, RowsInv, TablesOK
<1>11. \A v \in Workers : \A g \in Waiting(v) \cup Old(v) :
          g \in Files /\ g # f
    BY <1>1 DEF IInv, WaitingInv, OldInv, Waiting, Old
<1>12. WaitingInv'
    BY <1>1, <1>5, <1>6, <1>7, <1>11 DEF IInv, WaitingInv, TablesOK
<1>13. OldInv'
    BY <1>1, <1>5, <1>6, <1>7, <1>11 DEF IInv, OldInv, TablesOK
<1>14. UploadedInv'
    BY <1>1, <1>3, <1>6, OthersSame DEF IInv, UploadedInv
<1>. QED
    BY <1>4, <1>8, <1>9, <1>10, <1>12, <1>13, <1>14 DEF IInv

\* A submission that commits puts what has waited into a row.
LEMMA SubmitStoreKeeps ==
    ASSUME IInv, NEW w \in Workers, NEW j \in Items, tx[w] # Idle,
           tx[w].op = "submit", SubmitStore(w, j)
    PROVE  IInv'
<1>. DEFINE row == tx[w].item
            f == row.file
<1>1. /\ tx' = [tx EXCEPT ![w] = Idle] /\ items[j] = Free /\ ~Duplicate(row)
      /\ items' = [items EXCEPT ![j] = row] /\ UNCHANGED <<files, marks, lost>>
    BY DEF SubmitStore, Finish
<1>2. row \in Item /\ f \in Files
    BY Kinds DEF IInv, SubmitTx, Item
<1>3. f \in Waiting(w) /\ Waiting(w) = {f} /\ Old(w) = {}
    BY <1>2 DEF Waiting, Old
<1>4. TablesOK'
    BY <1>1, <1>2 DEF IInv, TablesOK
<1>5. /\ Waiting(w)' = {} /\ Old(w)' = {} /\ Destroying(w)' = {}
      /\ Destroying(w) = {}
      /\ \A v \in Workers \ {w} :
          /\ tx'[v] = tx[v] /\ Waiting(v)' = Waiting(v)
          /\ Old(v)' = Old(v) /\ Destroying(v)' = Destroying(v)
    BY <1>1, <1>3, OthersSame, DestroyingOld DEF IInv
<1>6. /\ ~Live(j) /\ Live(j)' /\ items'[j] = row
      /\ \A i \in Items \ {j} : items'[i] = items[i] /\ (Live(i)' <=> Live(i))
    BY <1>1, <1>2, MarksAssumption DEF IInv, TablesOK, Live
<1>7. /\ files[f] = "stored"
      /\ \A i \in Items : Live(i) => items[i].file # f
      /\ \A v \in Workers : f \notin Old(v) /\ (f \in Waiting(v) => v = w)
    BY <1>3 DEF IInv, WaitingInv
<1>. HIDE DEF row, f
<1>8. OnePerTarget'
    <2>1. ASSUME NEW i \in Items, Live(i), items[i].student = row.student,
                 items[i].scope = row.scope, row.scope # "range",
                 items[i].target = row.target
          PROVE  FALSE
        BY <1>1, <2>1 DEF Duplicate
    <2>. QED
        BY <1>6, <2>1 DEF IInv, OnePerTarget
<1>9. row.file = f
    BY DEF f
<1>10. DocumentsAreStored'
    <2>1. ASSUME NEW i \in Items, Live(i)'
          PROVE  \/ files'[items'[i].file] = "stored"
                 \/ items'[i].file \in lost'
                 \/ \E v \in Workers : items'[i].file \in Destroying(v)'
        <3>1. CASE i = j
            BY <1>1, <1>6, <1>7, <1>9, <3>1
        <3>2. CASE i # j
            BY <1>1, <1>5, <1>6, <2>1, <3>2 DEF IInv, DocumentsAreStored
        <3>. QED
            BY <3>1, <3>2
    <2>. QED
        BY <2>1 DEF DocumentsAreStored
<1>11. RowsInv'
    BY <1>1, <1>6, <1>7, <1>9 DEF IInv, RowsInv
<1>12. WaitingInv'
    BY <1>1, <1>5, <1>6, <1>7, <1>9 DEF IInv, WaitingInv
<1>13. OldInv'
    BY <1>1, <1>5, <1>6, <1>7, <1>9 DEF IInv, OldInv
<1>14. UploadedInv'
    BY <1>1, <1>5, OthersSame DEF IInv, UploadedInv
<1>. QED
    BY <1>4, <1>8, <1>10, <1>11, <1>12, <1>13, <1>14 DEF IInv

\* A request that ends without a row leaves its document to nobody.
LEMMA EndKeeps ==
    ASSUME IInv, NEW w \in Workers, tx[w] # Idle,
           tx' = [tx EXCEPT ![w] = Idle], UNCHANGED <<items, marks, lost>>,
           Destroying(w) = {},
           \/ UNCHANGED files
           \/ \E f \in Waiting(w) : files' = Destroyed(f)
    PROVE  IInv'
<1>1. /\ Waiting(w)' = {} /\ Old(w)' = {} /\ Destroying(w)' = {}
      /\ \A v \in Workers \ {w} :
          /\ tx'[v] = tx[v] /\ Waiting(v)' = Waiting(v)
          /\ Old(v)' = Old(v) /\ Destroying(v)' = Destroying(v)
    BY OthersSame DEF IInv
<1>2. /\ files' \in [Files -> {"unused", "stored", "destroyed"}]
      /\ \A f \in Files \ Waiting(w) : files'[f] = files[f]
      /\ \A f \in Files : files[f] # "unused" => files'[f] # "unused"
    BY DEF IInv, TablesOK, Destroyed
<1>3. TablesOK'
    BY <1>2 DEF IInv, TablesOK
<1>4. \A j \in Items : Live(j)' <=> Live(j)
    BY DEF Live
<1>5. OnePerTarget'
    BY <1>4 DEF IInv, OnePerTarget
<1>6. ASSUME NEW j \in Items, Live(j)
      PROVE  files'[items[j].file] = files[items[j].file]
    BY <1>2, <1>6, RowTyped DEF IInv, WaitingInv
<1>7. DocumentsAreStored' /\ RowsInv'
    BY <1>1, <1>4, <1>6 DEF IInv, DocumentsAreStored, RowsInv
<1>8. ASSUME NEW v \in Workers \ {w}, NEW f \in Waiting(v) \cup Old(v)
      PROVE  files'[f] = files[f]
    <2>1. f \in Files /\ f \notin Waiting(w)
        BY DEF IInv, WaitingInv, Waiting, Old
    <2>. QED
        BY <1>2, <2>1
<1>9. WaitingInv' /\ OldInv'
    BY <1>1, <1>4, <1>8 DEF IInv, WaitingInv, OldInv
<1>10. UploadedInv'
    BY <1>1, OthersSame DEF IInv, UploadedInv
<1>. QED
    BY <1>3, <1>5, <1>7, <1>9, <1>10 DEF IInv

\* An edit, a cancellation or a decision begins, and changes nothing yet.
LEMMA BeginKeeps ==
    ASSUME IInv, NEW w \in Workers, NEW t \in Tx, Begin(w, t),
           UNCHANGED <<items, files, marks, lost>>,
           \/ t.op \in {"decide", "decide-all"}
           \/ /\ t.op \in {"edit", "delete"} /\ t.phase = "read"
              /\ t.id \in Items /\ Live(t.id) /\ t.old = items[t.id].file
    PROVE  IInv'
<1>1. tx[w] = Idle /\ tx' = [tx EXCEPT ![w] = t] /\ t # Idle
    BY MarksAssumption DEF Begin
<1>2. \A v \in Workers \ {w} :
          /\ tx'[v] = tx[v] /\ Waiting(v)' = Waiting(v)
          /\ Old(v)' = Old(v) /\ Destroying(v)' = Destroying(v)
    BY <1>1, OthersSame DEF IInv
<1>3. /\ tx'[w] = t /\ Waiting(w)' = {} /\ Destroying(w) = {}
      /\ Waiting(w) = {}
      /\ \A f \in Old(w)' : t.op \in {"edit", "delete"} /\ f = t.old
    BY <1>1, OthersSame DEF IInv, Waiting, Old, Destroying
<1>4. \A j \in Items : Live(j)' <=> Live(j)
    BY DEF Live
<1>5. TablesOK' /\ OnePerTarget' /\ RowsInv'
    BY <1>1, <1>4 DEF IInv, TablesOK, OnePerTarget, RowsInv
<1>6. DocumentsAreStored'
    BY <1>2, <1>3, <1>4 DEF IInv, DocumentsAreStored
<1>7. WaitingInv'
    BY <1>2, <1>3, <1>4 DEF IInv, WaitingInv
<1>8. OldInv'
    BY <1>2, <1>3, <1>4 DEF IInv, OldInv, RowsInv
<1>9. UploadedInv'
    BY <1>2, <1>3 DEF IInv, UploadedInv
<1>. QED
    BY <1>5, <1>6, <1>7, <1>8, <1>9 DEF IInv

\* An edit uploads a document that nobody has named and destroys the one it has
\* found, if the store does so.
LEMMA EditUploadKeeps ==
    ASSUME IInv, NEW w \in Workers, NEW f \in Unused, EditUpload(w, f)
    PROVE  IInv'
<1>. DEFINE old == tx[w].old
            t == [tx[w] EXCEPT !.phase = "uploaded", !.new = f]
<1>1. /\ tx[w] # Idle /\ tx[w].op = "edit" /\ tx[w].phase = "read"
      /\ tx[w] \in EditTx /\ f \in Files /\ files[f] = "unused"
      /\ UNCHANGED <<items, marks, lost>>
    BY Kinds DEF EditUpload, Unused, IInv
<1>2. tx' = [tx EXCEPT ![w] = t]
    BY DEF EditUpload, IInv, TablesOK
<1>3. /\ t \in EditTx /\ t.op = "edit" /\ t.phase = "uploaded" /\ t.new = f
      /\ t.old = old /\ t.id = tx[w].id /\ old \in Files
    BY <1>1 DEF EditTx
<1>4. t \in Tx /\ t # Idle
    BY <1>3, MarksAssumption DEF Tx
<1>5. Old(w) = {old} /\ Waiting(w) = {} /\ Destroying(w) = {}
    BY <1>1, <1>3 DEF Old, Waiting, Destroying
<1>6. /\ files[old] # "unused" /\ old # f
      /\ \A j \in Items : Live(j) /\ items[j].file = old => j = tx[w].id
    BY <1>1, <1>5 DEF IInv, OldInv
<1>7. /\ files' \in [Files -> {"unused", "stored", "destroyed"}]
      /\ files'[f] = "stored"
      /\ files'[old] \in {files[old], "destroyed"}
      /\ \A g \in Files \ {f, old} : files'[g] = files[g]
    BY <1>1, <1>3, <1>6 DEF EditUpload, Replaced, IInv, TablesOK
<1>. HIDE DEF t, old
<1>8. /\ tx'[w] = t
      /\ \A v \in Workers \ {w} :
          /\ tx'[v] = tx[v] /\ Waiting(v)' = Waiting(v)
          /\ Old(v)' = Old(v) /\ Destroying(v)' = Destroying(v)
    BY <1>2, OthersSame DEF IInv
<1>9. Waiting(w)' = {f} /\ Old(w)' = {old} /\ Destroying(w)' = {old}
    <2>1. Waiting(w)' = {f}
        BY <1>1, <1>3, <1>4, <1>8 DEF Waiting
    <2>2. Old(w)' = {old}
        BY <1>3, <1>4, <1>8 DEF Old
    <2>3. Destroying(w)' = {old}
        BY <1>3, <1>4, <1>8 DEF Destroying
    <2>. QED
        BY <2>1, <2>2, <2>3
<1>10. \A j \in Items : Live(j)' <=> Live(j)
    BY <1>1 DEF Live
<1>11. \A j \in Items : Live(j) => items[j].file \in Files /\ items[j].file # f
    BY <1>1, RowTyped DEF IInv, RowsInv
<1>12. \A v \in Workers : \A g \in Waiting(v) \cup Old(v) : g \in Files /\ g # f
    BY <1>1 DEF IInv, WaitingInv, OldInv, Waiting, Old
<1>13. TablesOK'
    BY <1>1, <1>2, <1>4, <1>7 DEF IInv, TablesOK
<1>14. OnePerTarget'
    BY <1>1, <1>10 DEF IInv, OnePerTarget
<1>15. DocumentsAreStored'
    <2>1. ASSUME NEW j \in Items, Live(j)
          PROVE  \/ files'[items[j].file] = "stored"
                 \/ items[j].file \in lost
                 \/ \E v \in Workers : items[j].file \in Destroying(v)'
        <3>1. CASE items[j].file = old
            BY <1>9, <3>1
        <3>2. CASE items[j].file # old
            BY <1>5, <1>7, <1>8, <1>11, <2>1, <3>2
               DEF IInv, DocumentsAreStored
        <3>. QED
            BY <3>1, <3>2
    <2>. QED
        BY <1>1, <1>10, <2>1 DEF DocumentsAreStored
<1>16. RowsInv'
    BY <1>1, <1>6, <1>7, <1>10, <1>11 DEF IInv, RowsInv
<1>17. WaitingInv'
    <2>1. \A v \in Workers \ {w} : old \notin Waiting(v)
        BY <1>5 DEF IInv, WaitingInv
    <2>. QED
        BY <1>1, <1>7, <1>8, <1>9, <1>10, <1>11, <1>12, <1>5, <2>1, <1>6
           DEF IInv, WaitingInv
<1>18. OldInv'
    BY <1>1, <1>3, <1>5, <1>6, <1>7, <1>8, <1>9, <1>10, <1>12 DEF IInv, OldInv
<1>19. UploadedInv'
    BY <1>1, <1>3, <1>8 DEF IInv, UploadedInv
<1>. QED
    BY <1>13, <1>14, <1>15, <1>16, <1>17, <1>18, <1>19 DEF IInv

\* An edit that commits writes the document, and no other column.
LEMMA EditCommitRows ==
    ASSUME TablesOK, NEW w \in Workers, EditCommit(w), tx[w].new \in Files,
           NEW j \in Items
    PROVE  /\ Live(j)' <=> Live(j)
           /\ Live(j) => /\ items'[j] \in Item
                         /\ items'[j].student = items[j].student
                         /\ items'[j].scope = items[j].scope
                         /\ items'[j].target = items[j].target
                         /\ items'[j].status = items[j].status
                         /\ items'[j].file = IF j = tx[w].id THEN tx[w].new
                                                            ELSE items[j].file
<1>. DEFINE id == tx[w].id
            f == tx[w].new
<1>1. items' = IF Live(id) THEN [items EXCEPT ![id].file = f] ELSE items
    BY DEF EditCommit, Rewritten
<1>2. CASE j = id /\ Live(j)
    <2>1. items[j] \in Item
        BY <1>2, RowTyped
    <2>2. items'[j] = [items[j] EXCEPT !.file = f]
        BY <1>1, <1>2 DEF TablesOK
    <2>3. items'[j] \in Item
        BY <2>1, <2>2 DEF Item
    <2>. QED
        BY <1>2, <2>1, <2>2, <2>3, MarksAssumption DEF Item, Live
<1>3. CASE ~(j = id /\ Live(j))
    <2>1. items'[j] = items[j]
        BY <1>1, <1>3 DEF TablesOK
    <2>. QED
        BY <1>3, <2>1, RowTyped DEF Live
<1>. QED
    BY <1>2, <1>3

\* An edit that commits puts its upload where what it destroyed was, if the row
\* is there still.
LEMMA EditCommitKeeps ==
    ASSUME IInv, NEW w \in Workers, EditCommit(w)
    PROVE  IInv'
<1>. DEFINE id == tx[w].id
            f == tx[w].new
<1>1. /\ tx[w] # Idle /\ tx[w].op = "edit" /\ tx[w].phase = "uploaded"
      /\ tx' = [tx EXCEPT ![w] = Idle] /\ UNCHANGED <<files, marks, lost>>
      /\ items' = IF Live(id) THEN [items EXCEPT ![id].file = f] ELSE items
    BY DEF EditCommit, Finish, Rewritten
<1>2. f \in Files /\ id \in Items /\ tx[w].old \in Files
    BY <1>1, Kinds DEF IInv, UploadedInv, EditTx
<1>3. Waiting(w) = {f} /\ Old(w) = {tx[w].old} /\ Destroying(w) = Old(w)
    BY <1>1, <1>2 DEF Waiting, Old, Destroying
<1>4. /\ files[f] = "stored"
      /\ \A i \in Items : Live(i) => items[i].file # f
      /\ \A v \in Workers : f \notin Old(v) /\ (f \in Waiting(v) => v = w)
    BY <1>3 DEF IInv, WaitingInv
<1>5. \A j \in Items : Live(j) /\ items[j].file \in Old(w) => j = id
    BY DEF IInv, OldInv
<1>6. /\ Waiting(w)' = {} /\ Old(w)' = {} /\ Destroying(w)' = {}
      /\ \A v \in Workers \ {w} :
          /\ tx'[v] = tx[v] /\ Waiting(v)' = Waiting(v)
          /\ Old(v)' = Old(v) /\ Destroying(v)' = Destroying(v)
    BY <1>1, OthersSame DEF IInv
<1>7. \A j \in Items :
          /\ Live(j)' <=> Live(j)
          /\ Live(j) => /\ items'[j] \in Item
                        /\ items'[j].student = items[j].student
                        /\ items'[j].scope = items[j].scope
                        /\ items'[j].target = items[j].target
                        /\ items'[j].file = IF j = id THEN f
                                                      ELSE items[j].file
    BY <1>2, EditCommitRows DEF IInv
<1>. HIDE DEF id, f
<1>8. TablesOK'
    <2>1. \A j \in Items : items'[j] \in Item \cup {Free, Gone}
        BY <1>7 DEF Live
    <2>2. items' = [j \in Items |-> items'[j]]
        BY <1>1 DEF IInv, TablesOK
    <2>. QED
        BY <1>1, <2>1, <2>2 DEF IInv, TablesOK
<1>9. OnePerTarget'
    BY <1>7 DEF IInv, OnePerTarget
<1>10. DocumentsAreStored'
    <2>1. ASSUME NEW j \in Items, Live(j)
          PROVE  \/ files[items'[j].file] = "stored"
                 \/ items'[j].file \in lost
                 \/ \E v \in Workers : items'[j].file \in Destroying(v)'
        <3>1. CASE j = id
            BY <1>4, <1>7, <2>1, <3>1
        <3>2. CASE j # id
            BY <1>3, <1>5, <1>6, <1>7, <2>1, <3>2 DEF IInv, DocumentsAreStored
        <3>. QED
            BY <3>1, <3>2
    <2>. QED
        BY <1>1, <1>7, <2>1 DEF DocumentsAreStored
<1>11. RowsInv'
    BY <1>1, <1>4, <1>7 DEF IInv, RowsInv
<1>12. WaitingInv'
    BY <1>1, <1>4, <1>6, <1>7 DEF IInv, WaitingInv
<1>13. OldInv'
    BY <1>1, <1>4, <1>6, <1>7 DEF IInv, OldInv
<1>14. UploadedInv'
    BY <1>1, <1>6, OthersSame DEF IInv, UploadedInv
<1>. QED
    BY <1>8, <1>9, <1>10, <1>11, <1>12, <1>13, <1>14 DEF IInv

\* A cancellation destroys the document it has found in its row, if the store
\* does so.
LEMMA DeleteDestroyKeeps ==
    ASSUME IInv, NEW w \in Workers, DeleteDestroy(w)
    PROVE  IInv'
<1>. DEFINE old == tx[w].old
            t == [tx[w] EXCEPT !.phase = "destroyed"]
<1>1. /\ tx[w] # Idle /\ tx[w].op = "delete" /\ tx[w].phase = "read"
      /\ tx[w] \in DeleteTx /\ UNCHANGED <<items, marks, lost>>
    BY Kinds DEF DeleteDestroy, IInv
<1>2. tx' = [tx EXCEPT ![w] = t]
    BY DEF DeleteDestroy, IInv, TablesOK
<1>3. /\ t \in DeleteTx /\ t.op = "delete" /\ t.phase = "destroyed"
      /\ t.old = old /\ t.id = tx[w].id /\ old \in Files
    BY <1>1 DEF DeleteTx
<1>4. t \in Tx /\ t # Idle
    BY <1>3, MarksAssumption DEF Tx
<1>5. Old(w) = {old} /\ Waiting(w) = {} /\ Destroying(w) = {}
    BY <1>1, <1>3 DEF Old, Waiting, Destroying
<1>6. files[old] # "unused"
    BY <1>5 DEF IInv, OldInv
<1>7. /\ files' \in [Files -> {"unused", "stored", "destroyed"}]
      /\ files'[old] # "unused"
      /\ \A g \in Files \ {old} : files'[g] = files[g]
    BY <1>1, <1>3, <1>6 DEF DeleteDestroy, Destroy, Destroyed, IInv, TablesOK
<1>. HIDE DEF t, old
<1>8. /\ tx'[w] = t
      /\ \A v \in Workers \ {w} :
          /\ tx'[v] = tx[v] /\ Waiting(v)' = Waiting(v)
          /\ Old(v)' = Old(v) /\ Destroying(v)' = Destroying(v)
    BY <1>2, OthersSame DEF IInv
<1>9. Waiting(w)' = {} /\ Old(w)' = {old} /\ Destroying(w)' = {old}
    <2>1. Waiting(w)' = {}
        BY <1>3, <1>8 DEF Waiting
    <2>2. Old(w)' = {old}
        BY <1>3, <1>4, <1>8 DEF Old
    <2>3. Destroying(w)' = {old}
        BY <1>3, <1>4, <1>8 DEF Destroying
    <2>. QED
        BY <2>1, <2>2, <2>3
<1>10. \A j \in Items : Live(j)' <=> Live(j)
    BY <1>1 DEF Live
<1>11. \A j \in Items : Live(j) => items[j].file \in Files
    BY RowTyped DEF IInv
<1>12. \A v \in Workers : \A g \in Waiting(v) : g \in Files /\ g # old
    BY <1>5 DEF IInv, WaitingInv, Waiting
<1>13. TablesOK' /\ OnePerTarget'
    BY <1>1, <1>2, <1>4, <1>7, <1>10 DEF IInv, TablesOK, OnePerTarget
<1>14. DocumentsAreStored'
    <2>1. ASSUME NEW j \in Items, Live(j)
          PROVE  \/ files'[items[j].file] = "stored"
                 \/ items[j].file \in lost
                 \/ \E v \in Workers : items[j].file \in Destroying(v)'
        <3>1. CASE items[j].file = old
            BY <1>9, <3>1
        <3>2. CASE items[j].file # old
            BY <1>5, <1>7, <1>8, <1>11, <2>1, <3>2
               DEF IInv, DocumentsAreStored
        <3>. QED
            BY <3>1, <3>2
    <2>. QED
        BY <1>1, <1>10, <2>1 DEF DocumentsAreStored
<1>15. RowsInv'
    BY <1>1, <1>7, <1>10, <1>11 DEF IInv, RowsInv
<1>16. WaitingInv'
    BY <1>1, <1>5, <1>7, <1>8, <1>9, <1>10, <1>12 DEF IInv, WaitingInv
<1>17. OldInv'
    <2>1. \A v \in Workers : \A g \in Old(v) :
              g \in Files /\ files'[g] # "unused"
        BY <1>7 DEF IInv, OldInv, Old
    <2>. QED
        BY <1>1, <1>3, <1>5, <1>8, <1>9, <1>10, <2>1 DEF IInv, OldInv
<1>18. UploadedInv'
    BY <1>3, <1>8 DEF IInv, UploadedInv
<1>. QED
    BY <1>13, <1>14, <1>15, <1>16, <1>17, <1>18 DEF IInv
-----------------------------------------------------------------------------
(* The invariant is inductive: decisions, other tables, and a crash.       *)

\* What has no part in documents may change under a request.
SameDocuments(w) ==
    \/ tx'[w] = tx[w]
    \/ /\ tx[w] # Idle /\ tx[w].op = "submit"
       /\ tx'[w] # Idle /\ tx'[w].op = "submit"
       /\ tx'[w].item.file = tx[w].item.file
       /\ tx'[w].item.student = tx[w].item.student
       /\ tx'[w].item.scope = tx[w].item.scope
       /\ tx[w].item.scope = "range" =>
            tx'[w].item.target = tx[w].item.target
    \/ /\ tx[w] # Idle /\ tx[w].op \in {"decide", "decide-all"}
       /\ tx'[w] # Idle /\ tx'[w].op = tx[w].op

\* An absence that is struck out leaves a request its document.
LEMMA OvertakenTyped ==
    ASSUME TablesOK, NEW k \in Keys, StrikeOut(k)
    PROVE  /\ tx' \in [Workers -> Tx \cup {Idle}]
           /\ \A w \in Workers : SameDocuments(w)
<1>1. ASSUME NEW row \in Item
      PROVE  /\ Unreferenced(row, k) \in Item
             /\ Unreferenced(row, k).file = row.file
             /\ Unreferenced(row, k).student = row.student
             /\ Unreferenced(row, k).scope = row.scope
             /\ row.scope = "range" => Unreferenced(row, k).target = row.target
    BY DEF Unreferenced, Item, Targets
<1>2. ASSUME NEW w \in Workers
      PROVE  tx'[w] \in Tx \cup {Idle} /\ SameDocuments(w)
    <2>1. tx'[w] = Overtaken(tx[w], k)
        BY DEF StrikeOut
    <2>2. CASE tx[w] = Idle
        BY <2>1, <2>2 DEF Overtaken, SameDocuments
    <2>3. CASE tx[w] # Idle /\ tx[w].op = "submit"
        <3>. DEFINE row == Unreferenced(tx[w].item, k)
        <3>1. tx[w] \in SubmitTx /\ tx[w].item \in Item
            BY <2>3, Kinds DEF SubmitTx
        <3>2. tx'[w] = [tx[w] EXCEPT !.item = row]
            BY <2>1, <2>3 DEF Overtaken
        <3>3. /\ row \in Item /\ row.file = tx[w].item.file
              /\ row.student = tx[w].item.student
              /\ row.scope = tx[w].item.scope
              /\ tx[w].item.scope = "range" => row.target = tx[w].item.target
            BY <1>1, <3>1
        <3>. HIDE DEF row
        <3>4. tx'[w] \in SubmitTx /\ tx'[w].item = row /\ tx'[w].op = "submit"
            BY <3>1, <3>2, <3>3 DEF SubmitTx
        <3>. QED
            BY <2>3, <3>3, <3>4, MarksAssumption DEF Tx, SameDocuments
    <2>4. CASE tx[w] # Idle /\ tx[w].op \in {"decide", "decide-all"}
        <3>. DEFINE rows == [j \in DOMAIN tx[w].rows |->
                                Unreferenced(tx[w].rows[j], k)]
        <3>1. tx[w] \in DecideTx
            BY <2>4, Kinds
        <3>2. PICK I \in (SUBSET Items) \ {{}} : tx[w].rows \in [I -> Item]
            BY <3>1 DEF DecideTx
        <3>3. tx'[w] = [tx[w] EXCEPT !.rows = rows]
            BY <2>1, <2>4 DEF Overtaken
        <3>4. rows \in [I -> Item]
            BY <1>1, <3>2
        <3>. HIDE DEF rows
        <3>5. rows \in UNION {[J -> Item] : J \in (SUBSET Items) \ {{}}}
            <4>1. [I -> Item] \in {[J -> Item] : J \in (SUBSET Items) \ {{}}}
                OBVIOUS
            <4>. QED
                BY <3>4, <4>1
        <3>6. tx'[w] \in DecideTx /\ tx'[w].op = tx[w].op
            BY <3>1, <3>3, <3>5 DEF DecideTx
        <3>. QED
            BY <2>4, <3>6, MarksAssumption DEF Tx, SameDocuments
    <2>5. CASE tx[w] # Idle /\ tx[w].op \in {"edit", "delete"}
        BY <2>1, <2>5 DEF TablesOK, Overtaken, SameDocuments
    <2>. QED
        BY <2>2, <2>3, <2>4, <2>5, Kinds
<1>3. tx' = [w \in Workers |-> tx'[w]]
    BY DEF StrikeOut
<1>. QED
    BY <1>2, <1>3

\* A step that leaves the documents alone, and of the rows removes some or
\* changes their status; a request that ends has no row left whose document
\* it has destroyed.
LEMMA RowsKeep ==
    ASSUME IInv, UNCHANGED <<files, lost>>,
           marks' \in [Keys -> Mark \cup {NULL}],
           items' \in [Items -> Item \cup {Free, Gone}],
           \A j \in Items : Live(j)' =>
               /\ Live(j) /\ items'[j].file = items[j].file
               /\ items'[j].student = items[j].student
               /\ items'[j].scope = items[j].scope
               /\ items'[j].target = items[j].target,
           \/ /\ tx' \in [Workers -> Tx \cup {Idle}]
              /\ \A w \in Workers : SameDocuments(w)
           \/ \E w \in Workers :
                /\ tx' = [tx EXCEPT ![w] = Idle]
                /\ \A j \in Items : Live(j)' =>
                        items[j].file \notin Destroying(w)
    PROVE  IInv'
<1>1. ASSUME NEW v \in Workers
      PROVE  /\ SameDocuments(v) \/ tx'[v] = Idle
             /\ Waiting(v)' \subseteq Waiting(v) /\ Old(v)' \subseteq Old(v)
             /\ \A j \in Items : Live(j)' /\ items[j].file \in Destroying(v) =>
                    items[j].file \in Destroying(v)'
    <2>1. CASE \A w \in Workers : SameDocuments(w)
        BY <2>1 DEF SameDocuments, Waiting, Old, Destroying
    <2>2. CASE \E w \in Workers :
                /\ tx' = [tx EXCEPT ![w] = Idle]
                /\ \A j \in Items : Live(j)' =>
                        items[j].file \notin Destroying(w)
        <3>1. PICK w \in Workers :
                /\ tx' = [tx EXCEPT ![w] = Idle]
                /\ \A j \in Items : Live(j)' =>
                        items[j].file \notin Destroying(w)
            BY <2>2
        <3>2. CASE v = w
            BY <3>1, <3>2, OthersSame DEF IInv
        <3>3. CASE v # w
            BY <3>1, <3>3, OthersSame DEF IInv, SameDocuments
        <3>. QED
            BY <3>2, <3>3
    <2>. QED
        BY <2>1, <2>2
<1>2. tx' \in [Workers -> Tx \cup {Idle}]
    BY DEF IInv, TablesOK
<1>3. TablesOK'
    BY <1>2 DEF IInv, TablesOK
<1>4. OnePerTarget'
    BY DEF IInv, OnePerTarget
<1>5. DocumentsAreStored'
    BY <1>1 DEF IInv, DocumentsAreStored
<1>6. RowsInv'
    BY DEF IInv, RowsInv
<1>7. WaitingInv'
    BY <1>1 DEF IInv, WaitingInv
<1>8. OldInv'
    <2>1. \A v \in Workers : Old(v)' # {} => tx'[v] = tx[v]
        BY <1>1 DEF Old, SameDocuments
    <2>. QED
        BY <1>1, <2>1 DEF IInv, OldInv
<1>9. UploadedInv'
    BY <1>1 DEF IInv, UploadedInv, SameDocuments
<1>. QED
    BY <1>3, <1>4, <1>5, <1>6, <1>7, <1>8, <1>9 DEF IInv

\* The row of a cancellation goes with its document.
LEMMA DeleteCommitKeeps ==
    ASSUME IInv, NEW w \in Workers, DeleteCommit(w)
    PROVE  IInv'
<1>1. /\ tx[w] # Idle /\ tx[w].op = "delete"
      /\ tx' = [tx EXCEPT ![w] = Idle] /\ UNCHANGED <<files, marks, lost>>
      /\ items' = [items EXCEPT ![tx[w].id] = Gone]
    BY DEF DeleteCommit, Finish
<1>2. tx[w].id \in Items
    BY <1>1, Kinds DEF IInv, DeleteTx
<1>3. \A j \in Items : Live(j)' =>
          j # tx[w].id /\ Live(j) /\ items'[j] = items[j]
    BY <1>1, <1>2 DEF IInv, TablesOK, Live
<1>4. \A j \in Items : Live(j)' => items[j].file \notin Destroying(w)
    BY <1>3, DestroyingOld DEF IInv, OldInv
<1>5. items' \in [Items -> Item \cup {Free, Gone}]
    BY <1>1 DEF IInv, TablesOK
<1>. QED
    BY <1>1, <1>3, <1>4, <1>5, RowsKeep DEF IInv, TablesOK

\* What a decision leaves of the absence table.
LEMMA JustifiedTyped ==
    ASSUME TablesOK, NEW rows, NEW status
    PROVE  Justified(rows, status) \in [Keys -> Mark \cup {NULL}]
<1>1. ASSUME NEW k \in Keys
      PROVE  Justified(rows, status)[k] \in Mark \cup {NULL}
    <2>1. CASE marks[k] = NULL
        BY <2>1 DEF Justified
    <2>2. CASE marks[k] # NULL
        <3>1. marks[k] \in Mark
            BY <2>2 DEF TablesOK
        <3>2. [marks[k] EXCEPT !.justified = TRUE] \in Mark
            BY <3>1 DEF Mark
        <3>. QED
            BY <3>1, <3>2 DEF Justified
    <2>. QED
        BY <2>1, <2>2
<1>. QED
    BY <1>1 DEF Justified

\* A decision writes the status of rows, and no other column.
LEMMA DecideCommitRows ==
    ASSUME TablesOK, NEW w \in Workers, DecideCommit(w), NEW j \in Items
    PROVE  /\ items'[j] \in Item \cup {Free, Gone}
           /\ Live(j)' <=> Live(j)
           /\ Live(j) => /\ items'[j].file = items[j].file
                         /\ items'[j].student = items[j].student
                         /\ items'[j].scope = items[j].scope
                         /\ items'[j].target = items[j].target
                         /\ items'[j].status \in {items[j].status, tx[w].status}
<1>1. tx[w].status \in Decisions
    BY Kinds DEF DecideCommit, DecideTx
<1>2. CASE Live(j) /\ items'[j] = [items[j] EXCEPT !.status = tx[w].status]
    <2>1. items[j] \in Item
        BY <1>2, RowTyped
    <2>2. items'[j] \in Item
        BY <1>1, <1>2, <2>1 DEF Item
    <2>. QED
        BY <1>2, <2>1, <2>2, MarksAssumption DEF Item, Live
<1>3. CASE items'[j] = items[j]
    BY <1>3 DEF TablesOK, Live
<1>. QED
    BY <1>2, <1>3 DEF DecideCommit

\* A decision changes the status of rows, and marks.
LEMMA DecideCommitKeeps ==
    ASSUME IInv, NEW w \in Workers, DecideCommit(w)
    PROVE  IInv'
<1>. DEFINE t == tx[w]
<1>1. /\ tx[w] # Idle /\ t.op \in {"decide", "decide-all"}
      /\ tx' = [tx EXCEPT ![w] = Idle] /\ UNCHANGED <<files, lost>>
    BY DEF DecideCommit, Finish
<1>2. \A j \in Items :
          /\ items'[j] \in Item \cup {Free, Gone}
          /\ Live(j)' <=> Live(j)
          /\ Live(j) => /\ items'[j].file = items[j].file
                        /\ items'[j].student = items[j].student
                        /\ items'[j].scope = items[j].scope
                        /\ items'[j].target = items[j].target
    BY DecideCommitRows DEF IInv
<1>3. items' \in [Items -> Item \cup {Free, Gone}]
    <2>1. items' = [j \in Items |-> items'[j]]
        BY DEF DecideCommit, IInv, TablesOK
    <2>. QED
        BY <1>2, <2>1
<1>4. marks' \in [Keys -> Mark \cup {NULL}]
    BY JustifiedTyped DEF DecideCommit, IInv, TablesOK
<1>5. Destroying(w) = {}
    BY <1>1 DEF Destroying
<1>. HIDE DEF t
<1>. QED
    BY <1>1, <1>2, <1>3, <1>4, <1>5, RowsKeep

\* What other handlers do to absences.
LEMMA AbsencesKeep ==
    ASSUME IInv, NEW k \in Keys,
           (\E v \in BOOLEAN : Record(k, v)) \/ StrikeOut(k)
    PROVE  IInv'
<1>1. CASE \E v \in BOOLEAN : Record(k, v)
    <2>1. PICK v \in BOOLEAN : Record(k, v)
        BY <1>1
    <2>2. marks[k] # NULL => marks[k].justified \in BOOLEAN
        BY DEF IInv, TablesOK, Mark
    <2>3. marks' \in [Keys -> Mark \cup {NULL}]
        BY <2>1, <2>2 DEF Record, IInv, TablesOK, Mark
    <2>. QED
        BY <2>1, <2>3, RowsKeep DEF Record, IInv, TablesOK, Live, SameDocuments
<1>2. CASE StrikeOut(k)
    <2>1. marks' \in [Keys -> Mark \cup {NULL}]
        BY <1>2 DEF StrikeOut, IInv, TablesOK
    <2>2. items' \in [Items -> Item \cup {Free, Gone}]
        BY <1>2 DEF StrikeOut, IInv, TablesOK
    <2>3. \A j \in Items : Live(j)' => Live(j) /\ items'[j] = items[j]
        BY <1>2 DEF StrikeOut, Live
    <2>4. /\ tx' \in [Workers -> Tx \cup {Idle}]
          /\ \A w \in Workers : SameDocuments(w)
        BY <1>2, OvertakenTyped DEF IInv
    <2>. QED
        BY <1>2, <2>1, <2>2, <2>3, <2>4, RowsKeep DEF StrikeOut
<1>. QED
    BY <1>1, <1>2

\* A crash ends every request; what those were destroying is lost.
LEMMA CrashKeeps == ASSUME IInv, Crash PROVE IInv'
<1>1. /\ \A w \in Workers : tx'[w] = Idle
      /\ UNCHANGED <<items, files, marks>>
      /\ lost' = lost \cup UNION {Destroying(w) : w \in Workers}
      /\ tx' \in [Workers -> Tx \cup {Idle}]
    BY DEF Crash
<1>2. \A w \in Workers : Waiting(w)' = {} /\ Old(w)' = {}
    BY <1>1 DEF Waiting, Old
<1>3. \A j \in Items : Live(j)' <=> Live(j)
    BY <1>1 DEF Live
<1>4. \A w \in Workers : Destroying(w) \subseteq Files
    BY DestroyingOld DEF IInv, Old
<1>5. TablesOK'
    BY <1>1, <1>4 DEF IInv, TablesOK
<1>6. OnePerTarget' /\ DocumentsAreStored' /\ RowsInv'
    BY <1>1, <1>3 DEF IInv, OnePerTarget, DocumentsAreStored, RowsInv
<1>7. WaitingInv' /\ OldInv' /\ UploadedInv'
    BY <1>1, <1>2 DEF WaitingInv, OldInv, UploadedInv
<1>. QED
    BY <1>5, <1>6, <1>7 DEF IInv
-----------------------------------------------------------------------------
(* Every step, and the theorems.                                           *)

\* A submission that fails, and an edit without a document, leave no row.
LEMMA OtherEndsKeep ==
    ASSUME IInv, NEW w \in Workers, tx[w] # Idle,
           \/ tx[w].op = "submit" /\ SubmitFail(w)
           \/ EditOtherwise(w)
    PROVE  IInv'
<1>1. CASE tx[w].op = "submit" /\ SubmitFail(w)
    <2>1. tx[w].item.file \in Waiting(w) /\ Destroying(w) = {}
        BY <1>1, Kinds DEF IInv, SubmitTx, Item, Waiting, Destroying
    <2>. QED
        BY <1>1, <2>1, EndKeeps DEF SubmitFail, Finish, Destroy
<1>2. CASE EditOtherwise(w)
    <2>1. Destroying(w) = {}
        BY <1>2 DEF EditOtherwise, Destroying
    <2>. QED
        BY <1>2, <2>1, EndKeeps DEF EditOtherwise, Finish
<1>. QED
    BY <1>1, <1>2

\* A request that begins on a pending row knows its document.
LEMMA RowBeginsKeep ==
    ASSUME IInv, NEW w \in Workers, NEW j \in Items,
           EditStart(w, j) \/ DeleteStart(w, j)
    PROVE  IInv'
<1>. DEFINE edit == [op |-> "edit", phase |-> "read", id |-> j,
                     old |-> items[j].file, new |-> NULL]
            delete == [op |-> "delete", phase |-> "read", id |-> j,
                       old |-> items[j].file]
<1>1. Live(j) /\ items[j].file \in Files
    BY RowTyped DEF EditStart, DeleteStart, Cancellable, Pending, IInv
<1>2. edit \in EditTx /\ delete \in DeleteTx
    BY <1>1 DEF EditTx, DeleteTx
<1>3. edit \in Tx /\ delete \in Tx
    BY <1>2 DEF Tx
<1>4. CASE EditStart(w, j)
    BY <1>1, <1>3, <1>4, BeginKeeps DEF EditStart
<1>5. CASE DeleteStart(w, j)
    BY <1>1, <1>3, <1>5, BeginKeeps DEF DeleteStart
<1>. QED
    BY <1>4, <1>5

\* A decision that begins has read rows of the table.
LEMMA DecideStartKeeps ==
    ASSUME IInv, NEW w \in Workers, NEW op \in {"decide", "decide-all"},
           NEW I \in SUBSET Items, NEW status \in Decisions,
           DecideStart(w, op, I, status)
    PROVE  IInv'
<1>. DEFINE rows == [j \in I |-> items[j]]
            t == [op |-> op, status |-> status, rows |-> rows]
<1>1. rows \in [I -> Item]
    BY RowTyped DEF DecideStart, Pending, IInv
<1>. HIDE DEF rows
<1>2. rows \in UNION {[J -> Item] : J \in (SUBSET Items) \ {{}}}
    <2>1. I \in (SUBSET Items) \ {{}}
        BY DEF DecideStart
    <2>2. [I -> Item] \in {[J -> Item] : J \in (SUBSET Items) \ {{}}}
        BY <2>1
    <2>. QED
        BY <1>1, <2>2
<1>3. t \in DecideTx
    BY <1>2 DEF DecideTx
<1>4. t \in Tx
    BY <1>3 DEF Tx
<1>5. Begin(w, t) /\ UNCHANGED <<items, files, marks, lost>>
    BY DEF DecideStart, rows
<1>6. t.op \in {"decide", "decide-all"}
    OBVIOUS
<1>. HIDE DEF t
<1>. QED
    BY <1>4, <1>5, <1>6, BeginKeeps

\* Every step keeps the invariant.
LEMMA NextInv == ASSUME IInv, [Next]_vars PROVE IInv'
<1>1. ASSUME NEW w \in Workers, Student(w) PROVE IInv'
    <2>1. ASSUME NEW m \in Students, NEW scope \in Scopes,
                 NEW target \in Targets, NEW f \in Unused,
                 SubmitStart(w, m, scope, target, f)
          PROVE  IInv'
        BY <2>1, SubmitStartKeeps
    <2>2. ASSUME NEW j \in Items, EditStart(w, j) \/ DeleteStart(w, j)
          PROVE  IInv'
        BY <2>2, RowBeginsKeep
    <2>3. ASSUME NEW f \in Unused, EditUpload(w, f) PROVE IInv'
        BY <2>3, EditUploadKeeps
    <2>4. CASE SubmitCommit(w)
        BY <2>4, SubmitStoreKeeps, OtherEndsKeep DEF SubmitCommit
    <2>5. CASE EditOtherwise(w)
        BY <2>5, OtherEndsKeep DEF EditOtherwise
    <2>6. CASE EditCommit(w)
        BY <2>6, EditCommitKeeps
    <2>7. CASE DeleteDestroy(w)
        BY <2>7, DeleteDestroyKeeps
    <2>8. CASE DeleteCommit(w)
        BY <2>8, DeleteCommitKeeps
    <2>. QED
        BY <1>1, <2>1, <2>2, <2>3, <2>4, <2>5, <2>6, <2>7, <2>8 DEF Student
<1>2. ASSUME NEW w \in Workers, Admin(w) PROVE IInv'
    BY <1>2, DecideStartKeeps, DecideCommitKeeps DEF Admin
<1>3. ASSUME NEW k \in Keys,
             (\E v \in BOOLEAN : Record(k, v)) \/ StrikeOut(k)
      PROVE  IInv'
    BY <1>3, AbsencesKeep
<1>4. CASE UNCHANGED vars
    <2>1. \A j \in Items : Live(j)' => Live(j) /\ items'[j] = items[j]
        BY <1>4 DEF vars, Live
    <2>. QED
        BY <1>4, <2>1, RowsKeep DEF vars, IInv, TablesOK, SameDocuments
<1>. QED
    BY <1>1, <1>2, <1>3, <1>4, CrashKeeps DEF Next

\* The strengthened invariant holds of every state: whatever the requests, the
\* crashes and the failures of the document store.
THEOREM JustificationsInductive == Spec => []IInv
<1>. QED
    BY InitInv, NextInv, PTL DEF Spec

\* At most one request is alone, and it is in progress.
LEMMA AloneTyped == ASSUME IInv, TypeOK, [Next]_vars PROVE TypeOK'
<1>1. TablesOK'
    BY NextInv DEF IInv
<1>2. CASE alone' = StillAlone \/ alone' = {}
    BY <1>1, <1>2 DEF TypeOK, StillAlone
<1>3. CASE UNCHANGED <<tx, alone>>
    BY <1>1, <1>3 DEF TypeOK
<1>. QED
    BY <1>2, <1>3 DEF Next, Record, vars

\* The tables, the store and the requests keep their form.
THEOREM JustificationsTypeCorrect == Spec => []TypeOK
<1>1. Init => TypeOK
    BY InitInv DEF Init, TypeOK, IInv
<1>2. IInv /\ TypeOK /\ [Next]_vars => TypeOK'
    BY AloneTyped
<1>. QED
    BY <1>1, <1>2, JustificationsInductive, PTL DEF Spec

\* A live justification has its document in the store, save one that a request
\* has destroyed and not yet committed, or lost by a crash there.
THEOREM RowsHaveDocuments == Spec => []DocumentsAreStored
<1>1. IInv => DocumentsAreStored
    BY DEF IInv
<1>. QED
    BY JustificationsInductive, <1>1, PTL

\* No race of submissions gives a student two justifications of one absence or
\* of one session.
THEOREM OneForEachTarget == Spec => []OnePerTarget
<1>1. IInv => OnePerTarget
    BY DEF IInv
<1>. QED
    BY JustificationsInductive, <1>1, PTL

\* Only a decision writes a status, and no decision writes "pending".
LEMMA StatusKept ==
    ASSUME IInv, [Next]_vars, NEW j \in Items, Live(j), Live(j)', ~Pending(j)
    PROVE  ~Pending(j)'
<1>1. items[j] \in Item /\ items[j].status # "PENDING"
    BY RowTyped DEF Pending, IInv
<1>2. ASSUME items'[j] = items[j] PROVE ~Pending(j)'
    BY <1>1, <1>2 DEF Pending
<1>3. ASSUME NEW w \in Workers, Student(w) PROVE ~Pending(j)'
    <2>1. CASE EditCommit(w)
        <3>1. tx[w].new \in Files
            BY <2>1 DEF EditCommit, IInv, UploadedInv
        <3>. QED
            BY <1>1, <2>1, <3>1, EditCommitRows DEF Pending, IInv
    <2>2. CASE DeleteCommit(w)
        <3>1. tx[w].id \in Items
            BY <2>2, Kinds DEF DeleteCommit, DeleteTx, IInv
        <3>. QED
            BY <1>2, <2>2, <3>1 DEF DeleteCommit, IInv, TablesOK, Live
    <2>3. CASE \E i \in Items : SubmitStore(w, i)
        BY <1>2, <2>3 DEF SubmitStore, IInv, TablesOK, Live
    <2>4. CASE UNCHANGED items
        BY <1>2, <2>4
    <2>. QED
        BY <1>3, <2>1, <2>2, <2>3, <2>4
           DEF Student, SubmitStart, EditStart, DeleteStart, EditUpload,
               SubmitCommit, SubmitFail, EditOtherwise, DeleteDestroy
<1>4. ASSUME NEW w \in Workers, Admin(w) PROVE ~Pending(j)'
    <2>1. CASE DecideCommit(w)
        <3>1. tx[w].status \in Decisions
            BY <2>1, Kinds DEF DecideCommit, DecideTx, IInv
        <3>. QED
            BY <1>1, <2>1, <3>1, DecideCommitRows DEF Decisions, Pending, IInv
    <2>2. CASE UNCHANGED items
        BY <1>2, <2>2
    <2>. QED
        BY <1>4, <2>1, <2>2 DEF Admin, DecideStart
<1>5. ASSUME NEW k \in Keys,
             (\E v \in BOOLEAN : Record(k, v)) \/ StrikeOut(k)
      PROVE  ~Pending(j)'
    BY <1>2, <1>5 DEF Record, StrikeOut, Live
<1>6. CASE UNCHANGED vars \/ Crash
    BY <1>2, <1>6 DEF vars, Crash
<1>. QED
    BY <1>3, <1>4, <1>5, <1>6 DEF Next

\* A decided justification never becomes pending again.
THEOREM DecisionsLast == Spec => NeverReopened
<1>1. IInv /\ [Next]_vars =>
          [\A j \in Items :
              Live(j) /\ Live(j)' /\ ~Pending(j) => ~Pending(j)']_vars
    BY StatusKept
<1>. QED
    BY JustificationsInductive, <1>1, PTL DEF Spec, NeverReopened
-----------------------------------------------------------------------------
(* What a request that runs alone has read.                                *)

\* A range that waits for its row meets no range of its student.
Clear(w) ==
    tx[w].op = "submit" /\ tx[w].item.scope = "range" =>
        Overlapping(tx[w].item.student, tx[w].item.target) = {}

\* What a request has read is what the table still holds.
Current(w) ==
    /\ tx[w].op \in {"edit", "delete"} =>
            Pending(tx[w].id) /\ items[tx[w].id].file = tx[w].old
    /\ tx[w].op \in {"decide", "decide-all"} =>
            \A j \in DOMAIN tx[w].rows :
                Pending(j) /\ items[j] = tx[w].rows[j]

\* The target of a range is one.
ShapesInv ==
    /\ \A j \in Items :
        Live(j) /\ items[j].scope = "range" => items[j].target \in Ranges
    /\ \A w \in Workers :
        tx[w] # Idle /\ tx[w].op = "submit" /\ tx[w].item.scope = "range" =>
            tx[w].item.target \in Ranges

\* What a request was to destroy is destroyed, by a store that obeys.
GoneInv ==
    Reliable => \A w \in Workers : \A f \in Destroying(w) :
                    files[f] = "destroyed"

\* The strengthening of IInv that speaks of requests running alone.
AloneInv ==
    /\ TypeOK /\ ShapesInv /\ GoneInv
    /\ \A w \in alone : Clear(w) /\ Current(w)

\* Of a step: it strikes nothing out, and a request it ends has run alone.
Undisturbed ==
    /\ \A k \in Keys : ~StrikeOut(k)
    /\ \A w \in Workers : tx[w] # Idle /\ tx'[w] = Idle => w \in alone

\* A request that is alone after a step began in it, or was alone before.
LEMMA AloneBefore ==
    ASSUME TypeOK, [Next]_vars, NEW w \in alone'
    PROVE  /\ w \in Workers /\ tx'[w] # Idle /\ (tx[w] # Idle => w \in alone)
           /\ \A v \in Workers : v # w => tx[v] = Idle /\ tx'[v] = Idle
           /\ \/ \E v \in Workers : Student(v) \/ Admin(v)
              \/ \E k \in Keys, v \in BOOLEAN : Record(k, v)
              \/ UNCHANGED vars
<1>1. CASE (\E v \in Workers : Student(v) \/ Admin(v)) /\ alone' = StillAlone
    BY <1>1 DEF StillAlone, TypeOK
<1>2. CASE UNCHANGED <<tx, alone>>
              /\ ((\E k \in Keys, v \in BOOLEAN : Record(k, v)) \/ UNCHANGED vars)
    BY <1>2 DEF TypeOK
<1>. QED
    BY <1>1, <1>2 DEF Next, Record, vars

\* A submission in progress is the one there was, though its absence may have
\* been struck out.
SameSubmission(w) ==
    tx'[w] # Idle /\ tx'[w].op = "submit" =>
        /\ tx[w] # Idle /\ tx[w].op = "submit"
        /\ tx'[w].item.student = tx[w].item.student
        /\ tx'[w].item.scope = tx[w].item.scope
        /\ tx[w].item.scope = "range" =>
            tx'[w].item.target = tx[w].item.target

\* Rows come from a submission that commits, submissions from their checks.
LEMMA RowsCome ==
    ASSUME IInv, [Next]_vars
    PROVE  \/ \E w \in Workers, m \in Students, scope \in Scopes,
                 target \in Targets, f \in Unused :
                    SubmitStart(w, m, scope, target, f)
           \/ \E w \in Workers, j \in Items :
                    tx[w] # Idle /\ tx[w].op = "submit" /\ SubmitStore(w, j)
           \/ /\ \A j \in Items : Live(j)' =>
                    /\ Live(j)
                    /\ items'[j].student = items[j].student
                    /\ items'[j].scope = items[j].scope
                    /\ items'[j].target = items[j].target
              /\ \A w \in Workers : SameSubmission(w)
<1>. DEFINE Kept == \A j \in Items : Live(j)' =>
                    /\ Live(j)
                    /\ items'[j].student = items[j].student
                    /\ items'[j].scope = items[j].scope
                    /\ items'[j].target = items[j].target
            NoneComes == \A w \in Workers : SameSubmission(w)
<1>1. UNCHANGED items => Kept
    BY DEF Live
<1>2. ASSUME NEW w \in Workers, NEW t, tx' = [tx EXCEPT ![w] = t],
             t = Idle \/ t.op # "submit"
      PROVE  NoneComes
    BY <1>2 DEF IInv, TablesOK, SameSubmission
<1>3. ASSUME NEW w \in Workers,
             \/ \E j \in Items : EditStart(w, j) \/ DeleteStart(w, j)
             \/ \E op \in {"decide", "decide-all"}, I \in SUBSET Items,
                   status \in Decisions : DecideStart(w, op, I, status)
      PROVE  Kept /\ NoneComes
    <2>1. UNCHANGED items
        BY <1>3 DEF EditStart, DeleteStart, DecideStart
    <2>2. ASSUME NEW t, Begin(w, t), t.op # "submit"
          PROVE  NoneComes
        BY <1>2, <2>2 DEF Begin
    <2>3. ASSUME NEW j \in Items, EditStart(w, j) PROVE NoneComes
        <3>. DEFINE t == [op |-> "edit", phase |-> "read", id |-> j,
                          old |-> items[j].file, new |-> NULL]
        <3>1. Begin(w, t) /\ t.op # "submit"
            BY <2>3 DEF EditStart
        <3>. HIDE DEF t
        <3>. QED
            BY <2>2, <3>1
    <2>4. ASSUME NEW j \in Items, DeleteStart(w, j) PROVE NoneComes
        <3>. DEFINE t == [op |-> "delete", phase |-> "read", id |-> j,
                          old |-> items[j].file]
        <3>1. Begin(w, t) /\ t.op # "submit"
            BY <2>4 DEF DeleteStart
        <3>. HIDE DEF t
        <3>. QED
            BY <2>2, <3>1
    <2>5. ASSUME NEW op \in {"decide", "decide-all"}, NEW I \in SUBSET Items,
                 NEW status \in Decisions, DecideStart(w, op, I, status)
          PROVE  NoneComes
        <3>. DEFINE t == [op |-> op, status |-> status,
                          rows |-> [j \in I |-> items[j]]]
        <3>1. Begin(w, t) /\ t.op # "submit"
            BY <2>5 DEF DecideStart
        <3>. HIDE DEF t
        <3>. QED
            BY <2>2, <3>1
    <2>. QED
        BY <1>1, <1>3, <2>1, <2>3, <2>4, <2>5
<1>4. ASSUME NEW w \in Workers, NEW f \in Unused, EditUpload(w, f)
      PROVE  Kept /\ NoneComes
    <2>1. UNCHANGED items /\ tx[w] \in EditTx
        BY <1>4, Kinds DEF EditUpload, IInv
    <2>2. tx' = [tx EXCEPT ![w] = [tx[w] EXCEPT !.phase = "uploaded",
                                                !.new = f]]
        BY <1>4 DEF EditUpload, IInv, TablesOK
    <2>3. [tx[w] EXCEPT !.phase = "uploaded", !.new = f].op = "edit"
        BY <2>1 DEF EditTx
    <2>. QED
        BY <1>1, <1>2, <2>1, <2>2, <2>3
<1>5. ASSUME NEW w \in Workers, DeleteDestroy(w)
      PROVE  Kept /\ NoneComes
    <2>1. UNCHANGED items /\ tx[w] \in DeleteTx
        BY <1>5, Kinds DEF DeleteDestroy, IInv
    <2>2. tx' = [tx EXCEPT ![w] = [tx[w] EXCEPT !.phase = "destroyed"]]
        BY <1>5 DEF DeleteDestroy, IInv, TablesOK
    <2>3. [tx[w] EXCEPT !.phase = "destroyed"].op = "delete"
        BY <2>1 DEF DeleteTx
    <2>. QED
        BY <1>1, <1>2, <2>1, <2>2, <2>3
<1>6. ASSUME NEW w \in Workers, SubmitFail(w) \/ EditOtherwise(w)
      PROVE  Kept /\ NoneComes
    BY <1>1, <1>2, <1>6 DEF SubmitFail, EditOtherwise, Finish
<1>7. ASSUME NEW w \in Workers, EditCommit(w)
      PROVE  Kept /\ NoneComes
    <2>1. tx[w].new \in Files
        BY <1>7 DEF EditCommit, IInv, UploadedInv
    <2>2. Kept
        BY <1>7, <2>1, EditCommitRows DEF IInv
    <2>. QED
        BY <1>2, <1>7, <2>2 DEF EditCommit, Finish
<1>8. ASSUME NEW w \in Workers, DeleteCommit(w)
      PROVE  Kept /\ NoneComes
    <2>1. tx[w].id \in Items
        BY <1>8, Kinds DEF DeleteCommit, DeleteTx, IInv
    <2>2. Kept
        BY <1>8, <2>1 DEF DeleteCommit, IInv, TablesOK, Live
    <2>. QED
        BY <1>2, <1>8, <2>2 DEF DeleteCommit, Finish
<1>9. ASSUME NEW w \in Workers, DecideCommit(w)
      PROVE  Kept /\ NoneComes
    <2>1. Kept
        BY <1>9, DecideCommitRows DEF IInv
    <2>. QED
        BY <1>2, <1>9, <2>1 DEF DecideCommit, Finish
<1>10. ASSUME NEW k \in Keys,
              (\E v \in BOOLEAN : Record(k, v)) \/ StrikeOut(k)
       PROVE  Kept /\ NoneComes
    <2>1. Kept
        BY <1>10 DEF Record, StrikeOut, Live
    <2>2. CASE \E v \in BOOLEAN : Record(k, v)
        BY <2>1, <2>2 DEF Record, SameSubmission
    <2>3. CASE StrikeOut(k)
        BY <2>1, <2>3, OvertakenTyped DEF IInv, SameDocuments, SameSubmission
    <2>. QED
        BY <1>10, <2>2, <2>3
<1>11. ASSUME Crash PROVE Kept /\ NoneComes
    BY <1>1, <1>11 DEF Crash, SameSubmission
<1>12. ASSUME UNCHANGED vars PROVE Kept /\ NoneComes
    BY <1>1, <1>12 DEF vars, SameSubmission
<1>. DEFINE Starts(w) ==
                \E m \in Students, scope \in Scopes, target \in Targets,
                   f \in Unused : SubmitStart(w, m, scope, target, f)
            Stores(w) ==
                \E j \in Items :
                    tx[w] # Idle /\ tx[w].op = "submit" /\ SubmitStore(w, j)
<1>. HIDE DEF Kept, NoneComes
<1>13. ASSUME NEW w \in Workers, Student(w)
       PROVE  Starts(w) \/ Stores(w) \/ (Kept /\ NoneComes)
    BY <1>13, <1>3, <1>4, <1>5, <1>6, <1>7, <1>8 DEF Student, SubmitCommit
<1>14. ASSUME NEW w \in Workers, Admin(w) PROVE Kept /\ NoneComes
    BY <1>14, <1>3, <1>9 DEF Admin
<1>. HIDE DEF Starts, Stores
<1>15. \/ \E w \in Workers : Starts(w)
       \/ \E w \in Workers : Stores(w)
       \/ Kept /\ NoneComes
    <2>1. ASSUME NEW w \in Workers, Student(w) \/ Admin(w)
          PROVE  \/ \E v \in Workers : Starts(v)
                 \/ \E v \in Workers : Stores(v)
                 \/ Kept /\ NoneComes
        BY <2>1, <1>13, <1>14
    <2>2. CASE Next
        BY <2>1, <2>2, <1>10, <1>11 DEF Next
    <2>. QED
        BY <2>2, <1>12
<1>16. (\E w \in Workers : Starts(w)) =>
            \E w \in Workers, m \in Students, scope \in Scopes,
               target \in Targets, f \in Unused :
                    SubmitStart(w, m, scope, target, f)
    BY DEF Starts
<1>17. (\E w \in Workers : Stores(w)) =>
            \E w \in Workers, j \in Items :
                tx[w] # Idle /\ tx[w].op = "submit" /\ SubmitStore(w, j)
    BY DEF Stores
<1>. QED
    BY <1>15, <1>16, <1>17 DEF Kept, NoneComes

\* Ranges stay ranges.
LEMMA ShapesKeep == ASSUME IInv, ShapesInv, [Next]_vars PROVE ShapesInv'
<1>1. ASSUME NEW w \in Workers, NEW m \in Students, NEW scope \in Scopes,
             NEW target \in Targets, NEW f \in Unused,
             SubmitStart(w, m, scope, target, f)
      PROVE  ShapesInv'
    <2>. DEFINE t == [op |-> "submit",
                      item |-> [student |-> m, scope |-> scope,
                                target |-> target, file |-> f,
                                status |-> "PENDING"]]
    <2>1. /\ UNCHANGED items /\ tx' = [tx EXCEPT ![w] = t]
          /\ scope = "range" => target \in Ranges
        BY <1>1 DEF SubmitStart, Begin, Admissible
    <2>2. t.item.scope = scope /\ t.item.target = target
        OBVIOUS
    <2>. HIDE DEF t
    <2>3. \A v \in Workers : tx'[v] = IF v = w THEN t ELSE tx[v]
        BY <2>1 DEF IInv, TablesOK
    <2>. QED
        BY <2>1, <2>2, <2>3 DEF ShapesInv, Live
<1>2. ASSUME NEW w \in Workers, NEW j \in Items, tx[w] # Idle,
             tx[w].op = "submit", SubmitStore(w, j)
      PROVE  ShapesInv'
    <2>1. /\ items' = [items EXCEPT ![j] = tx[w].item]
          /\ tx' = [tx EXCEPT ![w] = Idle]
        BY <1>2 DEF SubmitStore, Finish
    <2>2. /\ items'[j] = tx[w].item
          /\ \A i \in Items \ {j} : items'[i] = items[i] /\ (Live(i)' <=> Live(i))
          /\ \A v \in Workers : tx'[v] = IF v = w THEN Idle ELSE tx[v]
        BY <2>1 DEF IInv, TablesOK, Live
    <2>. QED
        BY <1>2, <2>2 DEF ShapesInv
<1>3. ASSUME \A j \in Items : Live(j)' =>
                    /\ Live(j)
                    /\ items'[j].student = items[j].student
                    /\ items'[j].scope = items[j].scope
                    /\ items'[j].target = items[j].target,
             \A w \in Workers : SameSubmission(w)
      PROVE  ShapesInv'
    BY <1>3 DEF ShapesInv, SameSubmission
<1>. QED
    BY <1>1, <1>2, <1>3, RowsCome

\* What the check of a submission has found is still so while nothing else
\* is in progress.
LEMMA ClearKeeps ==
    ASSUME IInv, [Next]_vars, NEW w \in Workers, tx'[w] # Idle,
           \A v \in Workers : v # w => tx[v] = Idle,
           tx[w] # Idle => Clear(w)
    PROVE  Clear(w)'
<1>1. ASSUME NEW u \in Workers, NEW m \in Students, NEW scope \in Scopes,
             NEW target \in Targets, NEW f \in Unused,
             SubmitStart(u, m, scope, target, f)
      PROVE  Clear(w)'
    <2>. DEFINE t == [op |-> "submit",
                      item |-> [student |-> m, scope |-> scope,
                                target |-> target, file |-> f,
                                status |-> "PENDING"]]
    <2>1. /\ UNCHANGED items /\ tx' = [tx EXCEPT ![u] = t]
          /\ scope = "range" => Overlapping(m, target) = {}
        BY <1>1 DEF SubmitStart, Begin, Admissible
    <2>2. /\ t.item.scope = scope /\ t.item.student = m
          /\ t.item.target = target
        OBVIOUS
    <2>. HIDE DEF t
    <2>3. tx'[w] = IF u = w THEN t ELSE tx[w]
        BY <2>1 DEF IInv, TablesOK
    <2>4. \A n, r : Overlapping(n, r)' = Overlapping(n, r)
        BY <2>1 DEF Overlapping, Live
    <2>. QED
        BY <2>1, <2>2, <2>3, <2>4 DEF Clear
<1>2. ASSUME NEW u \in Workers, NEW j \in Items, tx[u] # Idle,
             SubmitStore(u, j)
      PROVE  FALSE
    <2>1. tx'[u] = Idle
        BY <1>2 DEF SubmitStore, Finish, IInv, TablesOK
    <2>. QED
        BY <1>2, <2>1
<1>3. ASSUME \A j \in Items : Live(j)' =>
                    /\ Live(j)
                    /\ items'[j].student = items[j].student
                    /\ items'[j].scope = items[j].scope
                    /\ items'[j].target = items[j].target,
             \A v \in Workers : SameSubmission(v)
      PROVE  Clear(w)'
    <2>1. \A m, r : Overlapping(m, r)' \subseteq Overlapping(m, r)
        BY <1>3 DEF Overlapping
    <2>. QED
        BY <1>3, <2>1 DEF Clear, SameSubmission
<1>. QED
    BY <1>1, <1>2, <1>3, RowsCome

\* Ranges that have a day in common overlap.
LEMMA MeetOverlap ==
    ASSUME NEW r \in Ranges, NEW q \in Ranges, NEW d \in Days,
           d \in r[1]..r[2], d \in q[1]..q[2]
    PROVE  Overlap(r, q) /\ Overlap(q, r)
<1>1. d \in Nat /\ r[1] \in Nat /\ r[2] \in Nat /\ q[1] \in Nat /\ q[2] \in Nat
    BY DatesAssumption DEF Ranges
<1>. QED
    BY <1>1 DEF Overlap

\* A submission that inserts what met nothing makes no two ranges meet.
LEMMA MeetsKeep ==
    ASSUME IInv, ShapesInv, [Next]_vars,
           \A w \in Workers : tx[w] # Idle /\ tx'[w] = Idle => Clear(w)
    PROVE  \A i, j \in Items : Meet(i, j)' => Meet(i, j)
<1>1. ASSUME NEW w \in Workers, NEW m \in Students, NEW scope \in Scopes,
             NEW target \in Targets, NEW f \in Unused,
             SubmitStart(w, m, scope, target, f)
      PROVE  \A i, j \in Items : Meet(i, j)' => Meet(i, j)
    BY <1>1 DEF SubmitStart, Meet, Live
<1>2. ASSUME NEW w \in Workers, NEW h \in Items, tx[w] # Idle,
             tx[w].op = "submit", SubmitStore(w, h)
      PROVE  \A i, j \in Items : Meet(i, j)' => Meet(i, j)
    <2>. DEFINE row == tx[w].item
    <2>1. /\ items' = [items EXCEPT ![h] = row] /\ tx'[w] = Idle
        BY <1>2 DEF SubmitStore, Finish, IInv, TablesOK
    <2>2. row.scope = "range" =>
              row.target \in Ranges /\ Overlapping(row.student, row.target) = {}
        BY <1>2, <2>1 DEF ShapesInv, Clear
    <2>. HIDE DEF row
    <2>3. /\ items'[h] = row
          /\ \A i \in Items \ {h} : items'[i] = items[i] /\ (Live(i)' <=> Live(i))
        BY <2>1 DEF IInv, TablesOK, Live
    <2>4. ASSUME NEW i \in Items \ {h}, Live(i), items[i].scope = "range",
                 row.scope = "range", items[i].student = row.student,
                 NEW d \in Days, d \in items[i].target[1]..items[i].target[2],
                 d \in row.target[1]..row.target[2]
          PROVE  FALSE
        <3>1. ~Overlap(items[i].target, row.target)
            BY <2>2, <2>4 DEF Overlapping
        <3>2. items[i].target \in Ranges /\ row.target \in Ranges
            BY <2>2, <2>4 DEF ShapesInv
        <3>. QED
            BY <2>4, <3>1, <3>2, MeetOverlap
    <2>5. ASSUME NEW i \in Items, NEW j \in Items, Meet(i, j)' PROVE Meet(i, j)
        <3>1. i # h /\ j # h
            BY <2>3, <2>4, <2>5 DEF Meet
        <3>. QED
            BY <2>3, <2>5, <3>1 DEF Meet
    <2>. QED
        BY <2>5
<1>3. ASSUME \A j \in Items : Live(j)' =>
                    /\ Live(j)
                    /\ items'[j].student = items[j].student
                    /\ items'[j].scope = items[j].scope
                    /\ items'[j].target = items[j].target
      PROVE  \A i, j \in Items : Meet(i, j)' => Meet(i, j)
    BY <1>3 DEF Meet
<1>. QED
    BY <1>1, <1>2, <1>3, RowsCome

\* Nothing changes under a request that runs alone.
LEMMA ReadsKeep ==
    ASSUME IInv, TypeOK, [Next]_vars, NEW w \in alone',
           \A v \in alone : Current(v)
    PROVE  Current(w)'
<1>0. /\ w \in Workers /\ tx'[w] # Idle /\ (tx[w] # Idle => w \in alone)
      /\ \A v \in Workers : v # w => tx[v] = Idle /\ tx'[v] = Idle
    BY AloneBefore
<1>1. ASSUME NEW u \in Workers, Finish(u), tx[u] # Idle PROVE FALSE
    <2>1. tx'[u] = Idle
        BY <1>1 DEF Finish, IInv, TablesOK
    <2>. QED
        BY <1>0, <1>1, <2>1
<1>2. ASSUME UNCHANGED items PROVE \A j : Pending(j)' <=> Pending(j)
    BY <1>2 DEF Pending, Live
<1>3. ASSUME UNCHANGED items,
             NEW u \in Workers, NEW t, tx' = [tx EXCEPT ![u] = t],
             t.op \in {"edit", "delete"} =>
                 Pending(t.id) /\ items[t.id].file = t.old,
             t.op \in {"decide", "decide-all"} =>
                 \A j \in DOMAIN t.rows : Pending(j) /\ items[j] = t.rows[j]
      PROVE  Current(w)'
    <2>1. tx'[w] = IF u = w THEN t ELSE tx[w]
        BY <1>0, <1>3 DEF IInv, TablesOK
    <2>2. CASE u = w
        BY <1>2, <1>3, <2>1, <2>2 DEF Current
    <2>3. CASE u # w
        BY <1>0, <1>2, <1>3, <2>1, <2>3 DEF Current
    <2>. QED
        BY <2>2, <2>3
<1>4. ASSUME NEW u \in Workers, Student(u) PROVE Current(w)'
    <2>1. ASSUME NEW m \in Students, NEW scope \in Scopes,
                 NEW target \in Targets, NEW f \in Unused,
                 SubmitStart(u, m, scope, target, f)
          PROVE  Current(w)'
        <3>. DEFINE t == [op |-> "submit",
                          item |-> [student |-> m, scope |-> scope,
                                    target |-> target, file |-> f,
                                    status |-> "PENDING"]]
        <3>1. /\ UNCHANGED items /\ tx' = [tx EXCEPT ![u] = t]
              /\ t.op = "submit"
            BY <2>1 DEF SubmitStart, Begin
        <3>. HIDE DEF t
        <3>. QED
            BY <1>3, <3>1
    <2>2. ASSUME NEW j \in Items, EditStart(u, j) PROVE Current(w)'
        <3>. DEFINE t == [op |-> "edit", phase |-> "read", id |-> j,
                          old |-> items[j].file, new |-> NULL]
        <3>1. /\ UNCHANGED items /\ tx' = [tx EXCEPT ![u] = t] /\ Pending(j)
              /\ t.op = "edit" /\ t.id = j /\ t.old = items[j].file
            BY <2>2 DEF EditStart, Begin
        <3>. HIDE DEF t
        <3>. QED
            BY <1>3, <3>1
    <2>3. ASSUME NEW j \in Items, DeleteStart(u, j) PROVE Current(w)'
        <3>. DEFINE t == [op |-> "delete", phase |-> "read", id |-> j,
                          old |-> items[j].file]
        <3>1. /\ UNCHANGED items /\ tx' = [tx EXCEPT ![u] = t] /\ Pending(j)
              /\ t.op = "delete" /\ t.id = j /\ t.old = items[j].file
            BY <2>3 DEF DeleteStart, Cancellable, Begin
        <3>. HIDE DEF t
        <3>. QED
            BY <1>3, <3>1
    <2>4. ASSUME NEW f \in Unused, EditUpload(u, f) PROVE Current(w)'
        <3>. DEFINE t == [tx[u] EXCEPT !.phase = "uploaded", !.new = f]
        <3>1. tx[u] # Idle /\ tx[u].op = "edit" /\ tx[u] \in EditTx
            BY <2>4, Kinds DEF EditUpload, IInv
        <3>2. UNCHANGED items /\ tx' = [tx EXCEPT ![u] = t]
            BY <2>4 DEF EditUpload, IInv, TablesOK
        <3>3. /\ t.op = "edit" /\ t.id = tx[u].id /\ t.old = tx[u].old
              /\ tx[u].id \in Items
            BY <3>1 DEF EditTx
        <3>. HIDE DEF t
        <3>4. Pending(tx[u].id) /\ items[tx[u].id].file = tx[u].old
            BY <1>0, <3>1 DEF Current
        <3>. QED
            BY <1>3, <3>2, <3>3, <3>4
    <2>5. CASE DeleteDestroy(u)
        <3>. DEFINE t == [tx[u] EXCEPT !.phase = "destroyed"]
        <3>1. tx[u] # Idle /\ tx[u].op = "delete" /\ tx[u] \in DeleteTx
            BY <2>5, Kinds DEF DeleteDestroy, IInv
        <3>2. UNCHANGED items /\ tx' = [tx EXCEPT ![u] = t]
            BY <2>5 DEF DeleteDestroy, IInv, TablesOK
        <3>3. /\ t.op = "delete" /\ t.id = tx[u].id /\ t.old = tx[u].old
              /\ tx[u].id \in Items
            BY <3>1 DEF DeleteTx
        <3>. HIDE DEF t
        <3>4. Pending(tx[u].id) /\ items[tx[u].id].file = tx[u].old
            BY <1>0, <3>1 DEF Current
        <3>. QED
            BY <1>3, <3>2, <3>3, <3>4
    <2>6. CASE SubmitCommit(u) \/ EditOtherwise(u) \/ EditCommit(u)
                \/ DeleteCommit(u)
        BY <1>1, <2>6 DEF SubmitCommit, SubmitFail, SubmitStore, EditOtherwise,
           EditCommit, DeleteCommit
    <2>. QED
        BY <1>4, <2>1, <2>2, <2>3, <2>4, <2>5, <2>6 DEF Student
<1>5. ASSUME NEW u \in Workers, Admin(u) PROVE Current(w)'
    <2>1. ASSUME NEW op \in {"decide", "decide-all"}, NEW I \in SUBSET Items,
                 NEW status \in Decisions, DecideStart(u, op, I, status)
          PROVE  Current(w)'
        <3>. DEFINE t == [op |-> op, status |-> status,
                          rows |-> [j \in I |-> items[j]]]
        <3>1. /\ UNCHANGED items /\ tx' = [tx EXCEPT ![u] = t]
              /\ t.op \in {"decide", "decide-all"}
              /\ \A j \in DOMAIN t.rows :
                     j \in Items /\ Pending(j) /\ items[j] = t.rows[j]
            BY <2>1 DEF DecideStart, Begin
        <3>. HIDE DEF t
        <3>. QED
            BY <1>3, <3>1
    <2>2. CASE DecideCommit(u)
        BY <1>1, <2>2 DEF DecideCommit
    <2>. QED
        BY <1>5, <2>1, <2>2 DEF Admin
<1>6. ASSUME UNCHANGED <<items, tx>> PROVE Current(w)'
    BY <1>0, <1>2, <1>6 DEF Current
<1>. QED
    BY <1>4, <1>5, <1>6, AloneBefore DEF Record, vars

\* A step that leaves the rows alone, and the stored documents of rows.
LEMMA StoreKeeps ==
    ASSUME Reliable, IInv, GoneInv, NEW w \in Workers, NEW t,
           UNCHANGED items, tx' = [tx EXCEPT ![w] = t],
           \A f \in Files : files'[f] = "stored" =>
                \/ f \in Waiting(w)'
                \/ files[f] = "stored" /\ f \notin Waiting(w),
           \A f \in Files : files[f] = "destroyed" => files'[f] = "destroyed",
           \A f \in Destroying(w)' : files'[f] = "destroyed"
    PROVE  GoneInv' /\ \A f \in Files : Orphan(f)' => Orphan(f)
<1>1. \A v \in Workers \ {w} :
          Waiting(v)' = Waiting(v) /\ Destroying(v)' = Destroying(v)
    BY OthersSame DEF IInv
<1>2. \A v \in Workers : Destroying(v) \subseteq Files
    BY DestroyingOld DEF Old, IInv
<1>3. GoneInv'
    BY <1>1, <1>2 DEF GoneInv
<1>4. \A j \in Items : Live(j)' <=> Live(j)
    BY DEF Live
<1>5. ASSUME NEW f \in Files, Orphan(f)' PROVE Orphan(f)
    BY <1>1, <1>4, <1>5 DEF Orphan
<1>. QED
    BY <1>3, <1>5

\* What a request was to destroy stays destroyed, and a request that runs alone
\* with a store that obeys leaves no document behind.
LEMMA OrphansKeep ==
    ASSUME Reliable, IInv, GoneInv, [Next]_vars,
           \A w \in alone : w \in Workers /\ tx[w] # Idle /\ Current(w)
    PROVE  /\ GoneInv'
           /\ Undisturbed => \A f \in Files : Orphan(f)' => Orphan(f)
<1>. DEFINE Good == /\ GoneInv'
                    /\ Undisturbed => \A f \in Files : Orphan(f)' => Orphan(f)
<1>0. ASSUME NEW w \in Workers, tx[w] # Idle, Finish(w), UNCHANGED files,
             w \in alone => \A f \in Files :
                /\ files[f] = "stored"
                /\ \/ \E j \in Items : Live(j) /\ items[j].file = f
                   \/ f \in Waiting(w)
                => \E j \in Items : Live(j)' /\ items'[j].file = f
      PROVE  Good
    <2>1. /\ tx'[w] = Idle /\ Destroying(w)' = {}
          /\ \A v \in Workers \ {w} : /\ Destroying(v)' = Destroying(v)
                                      /\ Waiting(v)' = Waiting(v)
        BY <1>0, OthersSame DEF Finish, IInv
    <2>2. GoneInv'
        BY <1>0, <2>1 DEF GoneInv
    <2>3. ASSUME Undisturbed, NEW f \in Files, Orphan(f)' PROVE Orphan(f)
        <3>1. w \in alone
            BY <1>0, <2>1, <2>3 DEF Undisturbed
        <3>. QED
            BY <1>0, <2>1, <2>3, <3>1 DEF Orphan
    <2>. QED
        BY <2>2, <2>3
<1>1. ASSUME NEW w \in Workers, Student(w) PROVE Good
    <2>2. tx[w] = Idle => Waiting(w) = {} /\ Destroying(w) = {}
        BY DEF Waiting, Destroying
    <2>3. ASSUME NEW m \in Students, NEW scope \in Scopes,
                 NEW target \in Targets, NEW f \in Unused,
                 SubmitStart(w, m, scope, target, f)
          PROVE  Good
        <3>. DEFINE t == [op |-> "submit",
                          item |-> [student |-> m, scope |-> scope,
                                    target |-> target, file |-> f,
                                    status |-> "PENDING"]]
        <3>1. /\ UNCHANGED items /\ tx' = [tx EXCEPT ![w] = t] /\ tx[w] = Idle
              /\ files' = [files EXCEPT ![f] = "stored"] /\ f \in Files
              /\ files[f] = "unused"
            BY <2>3 DEF SubmitStart, Begin, Unused
        <3>2. t.op = "submit" /\ t.item.file = f /\ t \in Tx
            BY <3>1 DEF Tx, SubmitTx, Item
        <3>. HIDE DEF t
        <3>3. tx'[w] = t /\ t # Idle
            BY <3>1, <3>2, MarksAssumption DEF IInv, TablesOK
        <3>4. f \in Waiting(w)' /\ Destroying(w)' = {}
            BY <3>1, <3>2, <3>3 DEF Waiting, Destroying
        <3>. QED
            BY <2>2, <3>1, <3>4, StoreKeeps DEF IInv, TablesOK
    <2>4. ASSUME NEW j \in Items, EditStart(w, j) \/ DeleteStart(w, j)
          PROVE  Good
        <3>1. PICK t : /\ tx' = [tx EXCEPT ![w] = t] /\ tx[w] = Idle
                       /\ t.op \in {"edit", "delete"} /\ t.phase = "read"
                       /\ UNCHANGED <<items, files>>
            <4>1. CASE EditStart(w, j)
                <5>. DEFINE t == [op |-> "edit", phase |-> "read", id |-> j,
                                  old |-> items[j].file, new |-> NULL]
                <5>1. /\ tx' = [tx EXCEPT ![w] = t] /\ tx[w] = Idle
                      /\ t.op = "edit" /\ t.phase = "read"
                      /\ UNCHANGED <<items, files>>
                    BY <4>1 DEF EditStart, Begin
                <5>. HIDE DEF t
                <5>. QED
                    BY <5>1
            <4>2. CASE DeleteStart(w, j)
                <5>. DEFINE t == [op |-> "delete", phase |-> "read", id |-> j,
                                  old |-> items[j].file]
                <5>1. /\ tx' = [tx EXCEPT ![w] = t] /\ tx[w] = Idle
                      /\ t.op = "delete" /\ t.phase = "read"
                      /\ UNCHANGED <<items, files>>
                    BY <4>2 DEF DeleteStart, Begin
                <5>. HIDE DEF t
                <5>. QED
                    BY <5>1
            <4>. QED
                BY <2>4, <4>1, <4>2
        <3>2. tx'[w] = t
            BY <3>1 DEF IInv, TablesOK
        <3>3. Destroying(w)' = {}
            BY <3>1, <3>2 DEF Destroying
        <3>. QED
            BY <2>2, <3>1, <3>3, StoreKeeps
    <2>5. ASSUME NEW f \in Unused, EditUpload(w, f)
          PROVE  Good
        <3>. DEFINE t == [tx[w] EXCEPT !.phase = "uploaded", !.new = f]
        <3>1. /\ tx[w] # Idle /\ tx[w].op = "edit" /\ tx[w].phase = "read"
              /\ tx[w] \in EditTx /\ f \in Files /\ files[f] = "unused"
              /\ UNCHANGED items
            BY <2>5, Kinds DEF EditUpload, IInv, Unused
        <3>2. /\ tx' = [tx EXCEPT ![w] = t]
              /\ files' = [files EXCEPT ![f] = "stored",
                                        ![tx[w].old] = "destroyed"]
            BY <2>5 DEF EditUpload, Replaced, IInv, TablesOK
        <3>3. /\ t.op = "edit" /\ t.phase = "uploaded" /\ t.new = f
              /\ t.old = tx[w].old /\ tx[w].old \in Files /\ t \in EditTx
            BY <3>1 DEF EditTx
        <3>. HIDE DEF t
        <3>4. tx'[w] = t /\ t # Idle
            BY <3>2, <3>3, MarksAssumption DEF Tx, IInv, TablesOK
        <3>5. f \in Waiting(w)' /\ Waiting(w) = {}
            BY <3>1, <3>3, <3>4 DEF Waiting
        <3>6. Destroying(w)' = {tx[w].old}
            BY <3>3, <3>4 DEF Destroying
        <3>. QED
            BY <3>1, <3>2, <3>3, <3>5, <3>6, StoreKeeps DEF IInv, TablesOK
    <2>6. CASE DeleteDestroy(w)
        <3>. DEFINE t == [tx[w] EXCEPT !.phase = "destroyed"]
        <3>1. /\ tx[w] # Idle /\ tx[w].op = "delete" /\ tx[w] \in DeleteTx
              /\ UNCHANGED items
            BY <2>6, Kinds DEF DeleteDestroy, IInv
        <3>2. /\ tx' = [tx EXCEPT ![w] = t]
              /\ files' = [files EXCEPT ![tx[w].old] = "destroyed"]
            BY <2>6 DEF DeleteDestroy, Destroy, Destroyed, IInv, TablesOK
        <3>3. /\ t.op = "delete" /\ t.phase = "destroyed"
              /\ t.old = tx[w].old /\ tx[w].old \in Files
            BY <3>1 DEF DeleteTx
        <3>. HIDE DEF t
        <3>4. tx'[w] = t
            BY <3>2 DEF IInv, TablesOK
        <3>5. Waiting(w) = {} /\ Destroying(w)' \subseteq {tx[w].old}
            BY <3>1, <3>3, <3>4 DEF Waiting, Destroying
        <3>. QED
            BY <3>1, <3>2, <3>3, <3>5, StoreKeeps DEF IInv, TablesOK
    <2>7. CASE EditOtherwise(w)
        <3>1. Waiting(w) = {}
            BY <2>7 DEF EditOtherwise, Waiting
        <3>2. Destroying(w)' = {}
            BY <2>7, OthersSame DEF EditOtherwise, Finish, IInv
        <3>. QED
            BY <2>7, <3>1, <3>2, StoreKeeps DEF EditOtherwise, Finish
    <2>8. CASE tx[w] # Idle /\ tx[w].op = "submit" /\ SubmitFail(w)
        <3>1. Waiting(w) = {tx[w].item.file}
            BY <2>8, Kinds DEF Waiting, IInv, SubmitTx, Item
        <3>2. Destroying(w)' = {}
            BY <2>8, OthersSame DEF SubmitFail, Finish, IInv
        <3>3. files' = [files EXCEPT ![tx[w].item.file] = "destroyed"]
            BY <2>8 DEF SubmitFail, Destroy, Destroyed
        <3>. QED
            BY <2>8, <3>1, <3>2, <3>3, StoreKeeps
               DEF SubmitFail, Finish, IInv, TablesOK
    <2>9. ASSUME NEW j \in Items, tx[w] # Idle, tx[w].op = "submit",
                 SubmitStore(w, j)
          PROVE  Good
        <3>1. tx[w].item \in Item /\ Waiting(w) = {tx[w].item.file}
            BY <2>9, Kinds DEF Waiting, IInv, SubmitTx, Item
        <3>2. Finish(w) /\ UNCHANGED files
            BY <2>9 DEF SubmitStore
        <3>3. /\ items'[j] = tx[w].item /\ Live(j)'
              /\ \A i \in Items : Live(i) => items'[i] = items[i] /\ Live(i)'
            BY <2>9, <3>1, MarksAssumption
               DEF SubmitStore, IInv, TablesOK, Live
        <3>. QED
            BY <1>0, <2>9, <3>1, <3>2, <3>3
    <2>10. CASE EditCommit(w)
        <3>1. tx[w] # Idle /\ tx[w].op = "edit" /\ tx[w].phase = "uploaded"
            BY <2>10 DEF EditCommit
        <3>2. /\ tx[w].new \in Files /\ tx[w].id \in Items
              /\ tx[w].old \in Files
            BY <3>1, Kinds DEF IInv, UploadedInv, EditTx
        <3>3. /\ Waiting(w) = {tx[w].new} /\ Destroying(w) = {tx[w].old}
              /\ files[tx[w].old] # "stored"
            BY <3>1, <3>2 DEF Waiting, Destroying, GoneInv
        <3>4. Finish(w) /\ UNCHANGED files
            BY <2>10 DEF EditCommit
        <3>5. w \in alone =>
                  Live(tx[w].id) /\ items[tx[w].id].file = tx[w].old
            BY <3>1 DEF Current, Pending
        <3>6. \A j \in Items : Live(j) =>
                  /\ Live(j)'
                  /\ items'[j].file = IF j = tx[w].id THEN tx[w].new
                                                      ELSE items[j].file
            BY <2>10, <3>2, EditCommitRows DEF IInv
        <3>. QED
            BY <1>0, <3>1, <3>2, <3>3, <3>4, <3>5, <3>6
    <2>11. CASE DeleteCommit(w)
        <3>1. tx[w] # Idle /\ tx[w].op = "delete" /\ tx[w].phase = "destroyed"
            BY <2>11 DEF DeleteCommit
        <3>2. tx[w].id \in Items
            BY <3>1, Kinds DEF IInv, DeleteTx
        <3>3. /\ Waiting(w) = {} /\ Destroying(w) = {tx[w].old}
              /\ files[tx[w].old] # "stored"
            BY <3>1 DEF Waiting, Destroying, GoneInv
        <3>4. Finish(w) /\ UNCHANGED files
            BY <2>11 DEF DeleteCommit
        <3>5. w \in alone => items[tx[w].id].file = tx[w].old
            BY <3>1 DEF Current
        <3>6. \A j \in Items \ {tx[w].id} :
                  items'[j] = items[j] /\ (Live(j)' <=> Live(j))
            BY <2>11, <3>2 DEF DeleteCommit, IInv, TablesOK, Live
        <3>. QED
            BY <1>0, <3>1, <3>3, <3>4, <3>5, <3>6
    <2>. QED
        BY <1>1, <2>3, <2>4, <2>5, <2>6, <2>7, <2>8, <2>9, <2>10, <2>11
           DEF Student, SubmitCommit
<1>2. ASSUME NEW w \in Workers, Admin(w) PROVE Good
    <2>1. ASSUME NEW op \in {"decide", "decide-all"}, NEW I \in SUBSET Items,
                 NEW status \in Decisions, DecideStart(w, op, I, status)
          PROVE  Good
        <3>. DEFINE t == [op |-> op, status |-> status,
                          rows |-> [j \in I |-> items[j]]]
        <3>1. /\ UNCHANGED <<items, files>> /\ tx' = [tx EXCEPT ![w] = t]
              /\ tx[w] = Idle /\ t.op \in {"decide", "decide-all"}
            BY <2>1 DEF DecideStart, Begin
        <3>. HIDE DEF t
        <3>2. tx'[w] = t
            BY <3>1 DEF IInv, TablesOK
        <3>3. Waiting(w) = {} /\ Destroying(w)' = {}
            BY <3>1, <3>2 DEF Waiting, Destroying
        <3>. QED
            BY <3>1, <3>3, StoreKeeps
    <2>2. CASE DecideCommit(w)
        <3>1. tx[w] # Idle /\ Waiting(w) = {} /\ Finish(w) /\ UNCHANGED files
            BY <2>2 DEF DecideCommit, Waiting
        <3>2. \A j \in Items : Live(j) => Live(j)' /\ items'[j].file = items[j].file
            BY <2>2, DecideCommitRows DEF IInv
        <3>. QED
            BY <1>0, <3>1, <3>2
    <2>. QED
        BY <1>2, <2>1, <2>2 DEF Admin
<1>3. ASSUME UNCHANGED <<items, files, tx>> PROVE Good
    BY <1>3 DEF GoneInv, Orphan, Waiting, Destroying, Live
<1>4. ASSUME NEW k \in Keys, StrikeOut(k) PROVE Good
    <2>1. UNCHANGED files /\ ~Undisturbed
        BY <1>4 DEF StrikeOut, Undisturbed
    <2>2. ASSUME NEW w \in Workers
          PROVE  Destroying(w)' \subseteq Destroying(w)
        <3>1. SameDocuments(w)
            BY <1>4, OvertakenTyped DEF IInv
        <3>. QED
            BY <3>1 DEF SameDocuments, Destroying
    <2>3. GoneInv'
        BY <2>1, <2>2 DEF GoneInv
    <2>. QED
        BY <2>1, <2>3
<1>. QED
    BY <1>1, <1>2, <1>3, <1>4 DEF Next, Record, Crash, vars

\* A step that justifies nothing and leaves approved rows what they are about.
LEMMA ApprovedKeep ==
    ASSUME TablesOK,
           \A k \in Keys : marks'[k] # NULL /\ marks'[k].justified =>
                marks[k] # NULL /\ marks[k].justified,
           \A j \in Items : Live(j) /\ items[j].status = "APPROVED" =>
                /\ Live(j)' /\ items'[j].status = "APPROVED"
                /\ items'[j].student = items[j].student
                /\ items'[j].scope = items[j].scope
                /\ items'[j].target = items[j].target
    PROVE  \A k \in Keys : Unfounded(k)' => Unfounded(k)
<1>1. ASSUME NEW k \in Keys, NEW j \in Items, Live(j),
             items[j].status = "APPROVED", Covers(items[j], k)
      PROVE  Live(j)' /\ items'[j].status = "APPROVED" /\ Covers(items'[j], k)
    <2>1. items[j].scope \in Scopes
        BY <1>1, RowTyped
    <2>. QED
        BY <1>1, <2>1 DEF Covers, Scopes
<1>. QED
    BY <1>1 DEF Unfounded

\* A request that runs alone leaves no absence justified without an approval.
LEMMA JustifiedKeep ==
    ASSUME IInv, [Next]_vars, Undisturbed,
           \A w \in alone : Current(w)
    PROVE  \A k \in Keys : Unfounded(k)' => Unfounded(k)
<1>. DEFINE Founded == \A k \in Keys : Unfounded(k)' => Unfounded(k)
<1>0. ASSUME NEW w \in Workers, tx[w] # Idle, Finish(w) PROVE Current(w)
    <2>1. tx'[w] = Idle
        BY <1>0 DEF Finish, IInv, TablesOK
    <2>. QED
        BY <1>0, <2>1 DEF Undisturbed
<1>1. ASSUME UNCHANGED items,
             \A k \in Keys : marks'[k] # NULL /\ marks'[k].justified =>
                marks[k] # NULL /\ marks[k].justified
      PROVE  Founded
    BY <1>1, ApprovedKeep DEF IInv, Live
<1>2. ASSUME NEW w \in Workers, NEW j \in Items, SubmitStore(w, j)
      PROVE  Founded
    <2>1. \A i \in Items : Live(i) => items'[i] = items[i] /\ Live(i)'
        BY <1>2 DEF SubmitStore, IInv, TablesOK, Live
    <2>. QED
        BY <1>2, <2>1, ApprovedKeep DEF SubmitStore, IInv
<1>3. ASSUME NEW w \in Workers, EditCommit(w) PROVE Founded
    <2>1. tx[w].new \in Files
        BY <1>3 DEF EditCommit, IInv, UploadedInv
    <2>2. \A j \in Items : Live(j) =>
              /\ Live(j)' /\ items'[j].status = items[j].status
              /\ items'[j].student = items[j].student
              /\ items'[j].scope = items[j].scope
              /\ items'[j].target = items[j].target
        BY <1>3, <2>1, EditCommitRows DEF IInv
    <2>. QED
        BY <1>3, <2>2, ApprovedKeep DEF EditCommit, IInv
<1>4. ASSUME NEW w \in Workers, DeleteCommit(w) PROVE Founded
    <2>1. tx[w].id \in Items /\ items[tx[w].id].status = "PENDING"
        BY <1>0, <1>4, Kinds DEF DeleteCommit, DeleteTx, Current, Pending, IInv
    <2>2. \A j \in Items \ {tx[w].id} :
              items'[j] = items[j] /\ (Live(j)' <=> Live(j))
        BY <1>4, <2>1 DEF DeleteCommit, IInv, TablesOK, Live
    <2>. QED
        BY <1>4, <2>1, <2>2, ApprovedKeep DEF DeleteCommit, IInv
<1>5. ASSUME NEW w \in Workers, DecideCommit(w) PROVE Founded
    <2>. DEFINE rows == tx[w].rows
    <2>1. /\ tx[w] # Idle /\ tx[w].op \in {"decide", "decide-all"}
          /\ DOMAIN rows \subseteq Items /\ tx[w].status \in Decisions
        BY <1>5, Kinds DEF DecideCommit, DecideTx, IInv
    <2>2. \A j \in DOMAIN rows : Pending(j) /\ items[j] = rows[j]
        BY <1>0, <1>5, <2>1 DEF DecideCommit, Current
    <2>3. /\ items' = [j \in Items |->
                          IF j \in DOMAIN rows /\ Live(j)
                          THEN [items[j] EXCEPT !.status = tx[w].status]
                          ELSE items[j]]
          /\ marks' = Justified(rows, tx[w].status)
        BY <1>5, <2>2 DEF DecideCommit, Pending
    <2>. HIDE DEF rows
    <2>4. ASSUME NEW j \in Items, Live(j), j \notin DOMAIN rows
          PROVE  Live(j)' /\ items'[j] = items[j]
        BY <2>3, <2>4 DEF Live
    <2>5. ASSUME NEW j \in DOMAIN rows
          PROVE  /\ j \in Items /\ Live(j)' /\ items'[j].status = tx[w].status
                 /\ items'[j].student = rows[j].student
                 /\ items'[j].scope = rows[j].scope
                 /\ items'[j].target = rows[j].target
                 /\ rows[j].scope \in Scopes
                 /\ items[j].status = "PENDING"
        <3>1. /\ j \in Items /\ Live(j) /\ items[j] \in Item
              /\ items[j] = rows[j] /\ items[j].status = "PENDING"
            BY <2>1, <2>2, RowTyped DEF IInv, Pending
        <3>2. items'[j] = [items[j] EXCEPT !.status = tx[w].status]
            BY <2>3, <3>1
        <3>. QED
            BY <1>5, <3>1, <3>2, DecideCommitRows DEF Item, IInv
    <2>6. ASSUME NEW k \in Keys, Unfounded(k)' PROVE Unfounded(k)
        <3>1. ~(/\ tx[w].status = "APPROVED"
                /\ \E j \in DOMAIN rows : Covers(rows[j], k))
            <4>1. ASSUME tx[w].status = "APPROVED",
                         NEW j \in DOMAIN rows, Covers(rows[j], k)
                  PROVE  FALSE
                <5>1. Covers(items'[j], k)
                    BY <2>5, <4>1 DEF Covers, Scopes
                <5>. QED
                    BY <2>5, <2>6, <4>1, <5>1 DEF Unfounded
            <4>. QED
                BY <4>1
        <3>2. marks'[k] = marks[k]
            BY <2>3, <3>1 DEF Justified, Justifying
        <3>3. ASSUME NEW j \in Items, Live(j), items[j].status = "APPROVED",
                     Covers(items[j], k)
              PROVE  FALSE
            <4>1. j \notin DOMAIN rows
                BY <2>5, <3>3
            <4>. QED
                BY <2>4, <2>6, <3>3, <4>1 DEF Unfounded
        <3>. QED
            BY <2>6, <3>2, <3>3 DEF Unfounded
    <2>. QED
        BY <2>6
<1>6. ASSUME NEW k \in Keys, NEW v \in BOOLEAN, Record(k, v)
      PROVE  Founded
    <2>1. \A i \in Keys : marks'[i] # NULL /\ marks'[i].justified =>
              marks[i] # NULL /\ marks[i].justified
        BY <1>6 DEF Record, IInv, TablesOK
    <2>. QED
        BY <1>1, <1>6, <2>1 DEF Record
<1>7. ASSUME NEW w \in Workers, Student(w) PROVE Founded
    <2>1. CASE UNCHANGED <<items, marks>>
        BY <1>1, <2>1
    <2>. QED
        BY <1>2, <1>3, <1>4, <1>7, <2>1
           DEF Student, SubmitStart, EditStart, DeleteStart, EditUpload,
               SubmitCommit, SubmitFail, EditOtherwise, DeleteDestroy
<1>8. ASSUME NEW w \in Workers, Admin(w) PROVE Founded
    BY <1>1, <1>5, <1>8 DEF Admin, DecideStart
<1>9. CASE Crash \/ UNCHANGED vars
    BY <1>1, <1>9 DEF Crash, vars
<1>. QED
    BY <1>6, <1>7, <1>8, <1>9 DEF Next, Undisturbed

-----------------------------------------------------------------------------
(* What follows for requests that run alone.                               *)

\* What a request that runs alone has read stays so until it ends.
LEMMA AloneKeeps ==
    ASSUME IInv, AloneInv, [Next]_vars
    PROVE  AloneInv'
<1>1. TypeOK' /\ ShapesInv'
    BY AloneTyped, ShapesKeep DEF AloneInv
<1>2. \A w \in alone : w \in Workers /\ tx[w] # Idle /\ Current(w)
    BY DEF AloneInv, TypeOK
<1>3. GoneInv'
    <2>1. CASE Reliable
        BY <1>2, <2>1, OrphansKeep DEF AloneInv
    <2>2. CASE ~Reliable
        BY <2>2 DEF GoneInv
    <2>. QED
        BY <2>1, <2>2
<1>4. ASSUME NEW w \in alone' PROVE Clear(w)' /\ Current(w)'
    <2>1. /\ w \in Workers /\ tx'[w] # Idle /\ (tx[w] # Idle => w \in alone)
          /\ \A v \in Workers : v # w => tx[v] = Idle
        BY AloneBefore DEF AloneInv
    <2>2. Clear(w)'
        BY <2>1, ClearKeeps DEF AloneInv
    <2>3. Current(w)'
        BY ReadsKeep DEF AloneInv
    <2>. QED
        BY <2>2, <2>3
<1>. QED
    BY <1>1, <1>3, <1>4 DEF AloneInv

\* Until it ends, nothing changes under a request that runs alone.
THEOREM AloneReadsTheTruth == Spec => []AloneInv
<1>1. Init => AloneInv
    BY InitInv DEF Init, AloneInv, TypeOK, IInv, ShapesInv, GoneInv, Live,
       Destroying
<1>. QED
    BY <1>1, AloneKeeps, JustificationsInductive, PTL DEF Spec

\* A step of a request that runs alone strikes nothing out, ends no other
\* request, and inserts what meets nothing.
LEMMA AloneActsAlone ==
    ASSUME IInv, AloneInv, [Next]_vars, AloneActs
    PROVE  /\ Undisturbed
           /\ \A w \in Workers : tx[w] # Idle /\ tx'[w] = Idle => Clear(w)
<1>1. \A w \in Workers : tx[w] # Idle /\ tx'[w] = Idle => w \in alone
    <2>1. CASE \E w \in alone : tx[w] # tx'[w]
        BY <2>1 DEF AloneInv, TypeOK
    <2>2. ASSUME NEW w \in alone', w \notin alone PROVE \A v \in Workers : tx[v] = Idle
        BY <2>2, AloneBefore DEF AloneInv
    <2>. QED
        BY <2>1, <2>2 DEF AloneActs
<1>2. \A k \in Keys : ~StrikeOut(k)
    BY DEF AloneActs, StrikeOut
<1>. QED
    BY <1>1, <1>2 DEF Undisturbed, AloneInv

\* A submission that nothing has overlapped adds no range that meets another,
\* whatever the requests before it, crashes included, have stored.
THEOREM AloneRangesApart == Spec => AloneMeetsNothing
<1>1. IInv /\ AloneInv /\ [Next]_vars =>
          [AloneActs => \A i, j \in Items : Meet(i, j)' => Meet(i, j)]_vars
    BY AloneActsAlone, MeetsKeep DEF AloneInv
<1>. QED
    BY <1>1, JustificationsInductive, AloneReadsTheTruth, PTL
       DEF Spec, AloneMeetsNothing

\* A request that nothing has overlapped leaves no document without a row, if
\* the store obeys.
THEOREM AloneCleansUp == Spec => AloneLeavesNoOrphan
<1>1. IInv /\ AloneInv /\ [Next]_vars =>
          [AloneActs /\ Reliable =>
              \A f \in Files : Orphan(f)' => Orphan(f)]_vars
    <2>1. AloneInv => \A w \in alone : w \in Workers /\ tx[w] # Idle /\ Current(w)
        BY DEF AloneInv, TypeOK
    <2>. QED
        BY <2>1, AloneActsAlone, OrphansKeep DEF AloneInv
<1>. QED
    BY <1>1, JustificationsInductive, AloneReadsTheTruth, PTL
       DEF Spec, AloneLeavesNoOrphan

\* A request that nothing has overlapped leaves no absence justified without an
\* approval, whatever decisions and cancellations that raced have left.
THEOREM AloneIsJust == Spec => AloneJustifiesByApproval
<1>1. IInv /\ AloneInv /\ [Next]_vars =>
          [AloneActs => \A k \in Keys : Unfounded(k)' => Unfounded(k)]_vars
    BY AloneActsAlone, JustifiedKeep DEF AloneInv
<1>. QED
    BY <1>1, JustificationsInductive, AloneReadsTheTruth, PTL
       DEF Spec, AloneJustifiesByApproval
=============================================================================
