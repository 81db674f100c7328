-------------------------- MODULE Retention_proofs --------------------------
(* Proofs about Retention, for every number of rows, timers and batch sizes.  *)
(* The passes are linked to the rows by three facts: a batch holds rows of    *)
(* the pass's job outside the organisations it found on hold (BatchesFit),    *)
(* what the archive still lacks of it belongs to an organisation still to     *)
(* come (Copies), and what is about to be deleted has no object (Emptied).    *)
EXTENDS Retention, TLAPS

BatchesFit ==
    \A x \in Passes : \A r \in pass[x].batch :
        /\ Owner[r] \notin pass[x].held
        /\ r \in IF job[x] = "audit" THEN AuditRows ELSE DataRows

Copies ==
    \A x \in Passes : job[x] = "audit" =>
        /\ pass[x].step # "idle" => ArchiveMode # "unset"
        /\ pass[x].step # "objects"
        /\ \A r \in pass[x].batch :
              /\ pass[x].step = "archive" => r \in copied \/ Owner[r] \in pass[x].todo
              /\ pass[x].step = "delete" => r \in copied \/ ArchiveMode = "disabled"

Emptied ==
    \A x \in Passes : job[x] = "data" =>
        /\ pass[x].step # "archive"
        /\ pass[x].step = "delete" =>
              \A r \in pass[x].batch \ Keyless : object[r] = "gone"

IInv == TypeOK /\ BatchesFit /\ Copies /\ Emptied /\ NothingUncopied
            /\ CountedOnce /\ OrphansAreCascaded

\* The number of tables a data pass goes through.
LEMMA FourTables == Len(Tables) = 4 /\ \A i \in 1..4 : Tables[i] \subseteq DataRows
  BY DEF Tables, DataRows

\* A pass only ever reads rows of its own job's tables.
LEMMA SweptRows ==
    ASSUME TypeOK, NEW x \in Passes
    PROVE  /\ job[x] = "audit" => Swept(x) = AuditRows
           /\ job[x] = "data" => Swept(x) \subseteq DataRows
           /\ job[x] \in {"audit", "data"} /\ Swept(x) \subseteq Rows
  BY FourTables DEF TypeOK, PassType, Swept, Rows

\* Ending a table leaves a pass of the right type, with an empty batch, that is
\* neither archiving nor deleting, and whose count and held organisations stand.
LEMMA TableDoneTyped ==
    ASSUME TypeOK, NEW x \in Passes
    PROVE  /\ TableDone(x) \in PassType /\ Thrown(x) \in PassType
           /\ TableDone(x).batch = {} /\ Thrown(x).batch = {}
           /\ TableDone(x).step \in {"idle", "select", "receipts"}
           /\ Thrown(x).step \in {"idle", "select"}
           /\ TableDone(x).counted \in {{}, pass[x].counted}
           /\ Thrown(x).counted \in {{}, pass[x].counted}
<1>1. pass[x] \in PassType
  BY DEF TypeOK
<1>2. job[x] \in {"audit", "data"}
  BY DEF TypeOK
<1>3. Idle \in PassType /\ Idle.batch = {} /\ Idle.step = "idle" /\ Idle.counted = {}
  BY DEF Idle, PassType, Steps
<1>4. CASE job[x] = "audit"
  BY <1>1, <1>3, <1>4 DEF TableDone, Thrown, PassType, Steps
<1>5. CASE job[x] = "data" /\ pass[x].table = 4
  BY <1>1, <1>3, <1>5, FourTables DEF TableDone, Thrown
<1>6. CASE job[x] = "data" /\ pass[x].table # 4
  <2>1. pass[x].table + 1 \in 1..4
    BY <1>1, <1>6 DEF PassType
  <2>2. QED
    BY <1>1, <1>6, <2>1, FourTables DEF TableDone, Thrown, PassType, Steps
<1>7. QED BY <1>2, <1>4, <1>5, <1>6

\* So does a DELETE that found its whole batch, which an audit pass adds to its count.
LEMMA DeletedTyped ==
    ASSUME TypeOK, BatchesFit, NEW x \in Passes
    PROVE  /\ Deleted(x) \in PassType
           /\ Deleted(x).batch = {}
           /\ Deleted(x).step \in {"idle", "select", "receipts"}
           /\ Deleted(x).counted \subseteq pass[x].counted \cup pass[x].batch
<1> DEFINE next == IF pass[x].full
                   THEN [pass[x] EXCEPT !.step = "select", !.batch = {}, !.full = FALSE]
                   ELSE TableDone(x)
<1>1. pass[x] \in PassType
  BY DEF TypeOK
<1>2. /\ next \in PassType /\ next.batch = {}
      /\ next.step \in {"idle", "select", "receipts"}
      /\ next.counted \in {{}, pass[x].counted}
  <2>1. CASE pass[x].full
    BY <1>1, <2>1 DEF PassType, Steps
  <2>2. CASE ~pass[x].full
    BY <2>2, TableDoneTyped
  <2>3. QED BY <2>1, <2>2
<1>3. Deleted(x) = [next EXCEPT !.counted = IF job[x] = "audit"
                                              THEN @ \cup pass[x].batch ELSE @]
  BY DEF Deleted
<1> HIDE DEF next
<1>4. QED BY <1>1, <1>2, <1>3 DEF PassType, Steps

\* What a SELECT makes of a pass: a batch of rows its job sweeps and no hold keeps.
LEMMA SelectedTyped ==
    ASSUME TypeOK, NEW x \in Passes, NEW b \in Batches(x)
    PROVE  LET sel == [pass[x] EXCEPT !.step = AfterSelect(x), !.batch = b,
                         !.full = Cardinality(b) = BatchSize,
                         !.todo = IF job[x] = "audit" THEN {Owner[r] : r \in b} ELSE {}]
           IN  /\ sel \in PassType /\ sel.batch = b /\ sel.held = pass[x].held
               /\ sel.step = AfterSelect(x) /\ sel.counted = pass[x].counted
               /\ sel.todo = IF job[x] = "audit" THEN {Owner[r] : r \in b} ELSE {}
               /\ b \subseteq Purgeable(x)
<1> DEFINE owners == IF job[x] = "audit" THEN {Owner[r] : r \in b} ELSE {}
<1>1. pass[x] \in PassType
  BY DEF TypeOK
<1>2. b \subseteq Purgeable(x) /\ b \subseteq Rows
  BY SweptRows DEF Batches, Purgeable, There
<1>3. owners \subseteq Orgs
  BY <1>2, RetentionAssumption
<1>4. AfterSelect(x) \in Steps
  BY DEF AfterSelect, Steps
<1> HIDE DEF owners
<1>5. QED BY <1>1, <1>2, <1>3, <1>4 DEF PassType, owners


\* A pass that takes a new record keeps its type, and the others are untouched.
LEMMA BecomesTyped ==
    ASSUME TypeOK, NEW x \in Passes, NEW p \in PassType, Becomes(x, p)
    PROVE  /\ pass' \in [Passes -> PassType]
           /\ pass'[x] = p
           /\ \A y \in Passes \ {x} : pass'[y] = pass[y]
  BY DEF TypeOK, Becomes

\* Jobs never change, and a row that is gone stays gone, as does an object.
LEMMA Monotone ==
    ASSUME TypeOK, [Next]_vars
    PROVE  /\ job' = job
           /\ \A r \in Rows : row[r] = "gone" => row'[r] = "gone"
           /\ \A r \in Rows : object[r] = "gone" => object'[r] = "gone"
           /\ copied \subseteq copied'

<1>1. ASSUME NEW x \in Rows, GrowsOld(x)
      PROVE  /\ job' = job
             /\ \A r \in Rows : row[r] = "gone" => row'[r] = "gone"
             /\ \A r \in Rows : object[r] = "gone" => object'[r] = "gone"
             /\ copied \subseteq copied'
  BY <1>1 DEF TypeOK, GrowsOld
<1>2. ASSUME NEW o \in Orgs, ToggleHold(o)
      PROVE  /\ job' = job
             /\ \A r \in Rows : row[r] = "gone" => row'[r] = "gone"
             /\ \A r \in Rows : object[r] = "gone" => object'[r] = "gone"
             /\ copied \subseteq copied'
  BY <1>2 DEF TypeOK, ToggleHold
<1>3. ASSUME NEW p \in Photos, UploadPhoto(p)
      PROVE  /\ job' = job
             /\ \A r \in Rows : row[r] = "gone" => row'[r] = "gone"
             /\ \A r \in Rows : object[r] = "gone" => object'[r] = "gone"
             /\ copied \subseteq copied'
  BY <1>3 DEF TypeOK, UploadPhoto
<1>4. ASSUME NEW p \in Photos, NEW s \in Submissions, SubmitPhoto(p, s)
      PROVE  /\ job' = job
             /\ \A r \in Rows : row[r] = "gone" => row'[r] = "gone"
             /\ \A r \in Rows : object[r] = "gone" => object'[r] = "gone"
             /\ copied \subseteq copied'
  BY <1>4 DEF TypeOK, SubmitPhoto, Joins
<1>5. ASSUME NEW x \in Passes, Begin(x)
      PROVE  /\ job' = job
             /\ \A r \in Rows : row[r] = "gone" => row'[r] = "gone"
             /\ \A r \in Rows : object[r] = "gone" => object'[r] = "gone"
             /\ copied \subseteq copied'
  BY <1>5 DEF TypeOK, Begin
<1>6. ASSUME NEW x \in Passes, Select(x)
      PROVE  /\ job' = job
             /\ \A r \in Rows : row[r] = "gone" => row'[r] = "gone"
             /\ \A r \in Rows : object[r] = "gone" => object'[r] = "gone"
             /\ copied \subseteq copied'
  BY <1>6 DEF TypeOK, Select
<1>7. ASSUME NEW x \in Passes, NEW o \in Orgs, Archive(x, o)
      PROVE  /\ job' = job
             /\ \A r \in Rows : row[r] = "gone" => row'[r] = "gone"
             /\ \A r \in Rows : object[r] = "gone" => object'[r] = "gone"
             /\ copied \subseteq copied'
  BY <1>7 DEF TypeOK, Archive
<1>8. ASSUME NEW x \in Passes, ArchiveFails(x)
      PROVE  /\ job' = job
             /\ \A r \in Rows : row[r] = "gone" => row'[r] = "gone"
             /\ \A r \in Rows : object[r] = "gone" => object'[r] = "gone"
             /\ copied \subseteq copied'
  BY <1>8 DEF TypeOK, ArchiveFails
<1>9. ASSUME NEW x \in Passes, DeleteObjects(x)
      PROVE  /\ job' = job
             /\ \A r \in Rows : row[r] = "gone" => row'[r] = "gone"
             /\ \A r \in Rows : object[r] = "gone" => object'[r] = "gone"
             /\ copied \subseteq copied'
  BY <1>9 DEF TypeOK, DeleteObjects
<1>10. ASSUME NEW x \in Passes, DeleteRows(x)
      PROVE  /\ job' = job
             /\ \A r \in Rows : row[r] = "gone" => row'[r] = "gone"
             /\ \A r \in Rows : object[r] = "gone" => object'[r] = "gone"
             /\ copied \subseteq copied'
  BY <1>10 DEF TypeOK, DeleteRows
<1>11. ASSUME NEW x \in Passes, StatementFails(x)
      PROVE  /\ job' = job
             /\ \A r \in Rows : row[r] = "gone" => row'[r] = "gone"
             /\ \A r \in Rows : object[r] = "gone" => object'[r] = "gone"
             /\ copied \subseteq copied'
  BY <1>11 DEF TypeOK, StatementFails
<1>12. ASSUME NEW x \in Passes, WriteReceipts(x)
      PROVE  /\ job' = job
             /\ \A r \in Rows : row[r] = "gone" => row'[r] = "gone"
             /\ \A r \in Rows : object[r] = "gone" => object'[r] = "gone"
             /\ copied \subseteq copied'
  BY <1>12 DEF TypeOK, WriteReceipts
<1>13. ASSUME NEW x \in Passes, ReceiptsFail(x)
      PROVE  /\ job' = job
             /\ \A r \in Rows : row[r] = "gone" => row'[r] = "gone"
             /\ \A r \in Rows : object[r] = "gone" => object'[r] = "gone"
             /\ copied \subseteq copied'
  BY <1>13 DEF TypeOK, ReceiptsFail
<1>14. ASSUME NEW x \in Passes, ServerStops(x)
      PROVE  /\ job' = job
             /\ \A r \in Rows : row[r] = "gone" => row'[r] = "gone"
             /\ \A r \in Rows : object[r] = "gone" => object'[r] = "gone"
             /\ copied \subseteq copied'
  BY <1>14 DEF TypeOK, ServerStops
<1>15. CASE UNCHANGED vars
  BY <1>15 DEF vars
<1>16. QED BY <1>1, <1>2, <1>3, <1>4, <1>5, <1>6, <1>7, <1>8, <1>9, <1>10, <1>11, <1>12, <1>13, <1>14, <1>15 DEF Next

\* An idle pass has nothing in hand.
LEMMA IdleEmpty ==
    /\ Idle \in PassType
    /\ Idle.batch = {} /\ Idle.counted = {} /\ Idle.step = "idle"
  BY DEF Idle, PassType, Steps

\* Type correctness is preserved.
LEMMA TypeStep ==
    ASSUME TypeOK, BatchesFit, Emptied, [Next]_vars
    PROVE  TypeOK'
<1>1. ASSUME NEW r \in Rows, GrowsOld(r)
      PROVE  TypeOK'
  BY <1>1 DEF TypeOK, GrowsOld
<1>2. ASSUME NEW o \in Orgs, ToggleHold(o)
      PROVE  TypeOK'
  BY <1>2 DEF TypeOK, ToggleHold
<1>3. ASSUME NEW p \in Photos, UploadPhoto(p)
      PROVE  TypeOK'
  BY <1>3 DEF TypeOK, UploadPhoto, States
<1>4. ASSUME NEW p \in Photos, NEW s \in Submissions, SubmitPhoto(p, s)
      PROVE  TypeOK'
  <2>1. /\ row' = [row EXCEPT ![p] = "there", ![s] = "there"] /\ parent' = [parent EXCEPT ![p] = s]
        /\ UNCHANGED <<job, object, copied, expired, hold, pass, receipts, stops>>
    BY <1>4 DEF SubmitPhoto
  <2>2. row' \in [Rows -> States]
    BY <2>1 DEF TypeOK, States
  <2>3. QED BY <2>1, <2>2 DEF TypeOK
<1>5. ASSUME NEW x \in Passes, Begin(x)
      PROVE  TypeOK'
  <2>1. [Idle EXCEPT !.step = "select", !.held = hold, !.cutoff = expired] \in PassType
    BY IdleEmpty DEF TypeOK, PassType, Steps
  <2>2. QED BY <1>5, <2>1, BecomesTyped DEF TypeOK, Begin
<1>6. ASSUME NEW x \in Passes, Select(x)
      PROVE  TypeOK'
  <2>1. PICK b \in Batches(x) : Becomes(x, IF b = {} THEN TableDone(x)
            ELSE [pass[x] EXCEPT !.step = AfterSelect(x), !.batch = b,
                    !.full = Cardinality(b) = BatchSize,
                    !.todo = IF job[x] = "audit" THEN {Owner[r] : r \in b} ELSE {}])
    BY <1>6 DEF Select
  <2> DEFINE sel == [pass[x] EXCEPT !.step = AfterSelect(x), !.batch = b,
                       !.full = Cardinality(b) = BatchSize,
                       !.todo = IF job[x] = "audit" THEN {Owner[r] : r \in b} ELSE {}]
  <2>2. /\ sel \in PassType /\ sel.batch = b /\ sel.held = pass[x].held
        /\ sel.step = AfterSelect(x) /\ sel.counted = pass[x].counted
        /\ sel.todo = IF job[x] = "audit" THEN {Owner[r] : r \in b} ELSE {}
        /\ b \subseteq Purgeable(x)
    BY SelectedTyped
  <2>3. CASE b = {} /\ Becomes(x, TableDone(x))
    BY <1>6, <2>3, TableDoneTyped, BecomesTyped DEF TypeOK, Select
  <2>4. CASE b # {} /\ Becomes(x, sel)
    BY <1>6, <2>2, <2>4, BecomesTyped DEF TypeOK, Select
  <2>5. QED BY <2>1, <2>3, <2>4
<1>7. ASSUME NEW x \in Passes, NEW o \in Orgs, Archive(x, o)
      PROVE  TypeOK'
  <2> DEFINE left == pass[x].todo \ {o}
             p == [pass[x] EXCEPT !.todo = left,
                     !.step = IF left = {} THEN "delete" ELSE "archive"]
  <2>1. pass[x] \in PassType
    BY DEF TypeOK
  <2>2. p \in PassType
    BY <2>1 DEF PassType, Steps
  <2>3. Becomes(x, p) /\ copied' = copied \cup {r \in pass[x].batch : Owner[r] = o}
        /\ UNCHANGED <<job, row, object, parent, expired, hold, receipts, stops>>
        /\ job[x] = "audit"
    BY <1>7 DEF Archive, Emptied, TypeOK
  <2>4. copied' \subseteq AuditRows
    BY <2>3 DEF TypeOK, BatchesFit
  <2> HIDE DEF p
  <2>5. QED BY <2>2, <2>3, <2>4, BecomesTyped DEF TypeOK
<1>8. ASSUME NEW x \in Passes, ArchiveFails(x)
      PROVE  TypeOK'
  BY <1>8, TableDoneTyped, BecomesTyped DEF TypeOK, ArchiveFails
<1>9. ASSUME NEW x \in Passes, DeleteObjects(x)
      PROVE  TypeOK'
  <2>1. PICK failed \in SUBSET (pass[x].batch \ Keyless) :
           LET kept == pass[x].batch \ failed IN
           /\ object' = [r \in Rows |-> IF r \in kept \ Keyless THEN "gone" ELSE object[r]]
           /\ Becomes(x, IF kept = {} THEN TableDone(x)
                         ELSE [pass[x] EXCEPT !.step = "delete", !.batch = kept])
    BY <1>9 DEF DeleteObjects
  <2> DEFINE kept == pass[x].batch \ failed
             p == [pass[x] EXCEPT !.step = "delete", !.batch = kept]
  <2>2. p \in PassType /\ p.batch = kept /\ p.step = "delete" /\ p.held = pass[x].held
        /\ p.counted = pass[x].counted
    BY DEF TypeOK, PassType, Steps
  <2>3. CASE kept = {} /\ Becomes(x, TableDone(x))
    BY <1>9, <2>1, <2>3, TableDoneTyped, BecomesTyped DEF TypeOK, DeleteObjects, States
  <2>4. CASE kept # {} /\ Becomes(x, p)
    <3> HIDE DEF p
    <3>1. QED BY <1>9, <2>1, <2>2, <2>4, BecomesTyped DEF TypeOK, DeleteObjects, States
  <2>5. QED BY <2>1, <2>3, <2>4
<1>10. ASSUME NEW x \in Passes, DeleteRows(x)
      PROVE  TypeOK'
  <2>1. CASE Becomes(x, Deleted(x))
    BY <1>10, <2>1, DeletedTyped, BecomesTyped DEF TypeOK, DeleteRows, States
  <2>2. CASE Becomes(x, Thrown(x))
    BY <1>10, <2>2, TableDoneTyped, BecomesTyped DEF TypeOK, DeleteRows, States
  <2>3. QED BY <1>10, <2>1, <2>2 DEF DeleteRows
<1>11. ASSUME NEW x \in Passes, StatementFails(x)
      PROVE  TypeOK'
  BY <1>11, TableDoneTyped, BecomesTyped DEF TypeOK, StatementFails
<1>12. ASSUME NEW x \in Passes, WriteReceipts(x)
      PROVE  TypeOK'
  <2>1. Idle \in PassType
    BY DEF Idle, PassType, Steps
  <2>2. receipts' \in [Rows -> Nat]
    BY <1>12 DEF TypeOK, WriteReceipts
  <2>3. QED BY <1>12, <2>1, <2>2, BecomesTyped DEF TypeOK, WriteReceipts
<1>13. ASSUME NEW x \in Passes, ReceiptsFail(x)
      PROVE  TypeOK'
  <2>1. Idle \in PassType
    BY DEF Idle, PassType, Steps
  <2>2. QED BY <1>13, <2>1, BecomesTyped DEF TypeOK, ReceiptsFail
<1>14. ASSUME NEW x \in Passes, ServerStops(x)
      PROVE  TypeOK'
  <2>1. Idle \in PassType
    BY DEF Idle, PassType, Steps
  <2>2. stops' \in 0..MaxStops
    BY <1>14, RetentionAssumption DEF TypeOK, ServerStops
  <2>3. QED BY <1>14, <2>1, <2>2, BecomesTyped DEF TypeOK, ServerStops
<1>15. CASE UNCHANGED vars
  BY <1>15 DEF TypeOK, vars
<1>16. QED BY <1>1, <1>2, <1>3, <1>4, <1>5, <1>6, <1>7, <1>8, <1>9, <1>10, <1>11, <1>12, <1>13, <1>14, <1>15 DEF Next

\* Batches hold unprotected rows of the right tables.
LEMMA FitStep ==
    ASSUME TypeOK, BatchesFit, [Next]_vars
    PROVE  BatchesFit'
<1>1. ASSUME NEW r \in Rows, GrowsOld(r)
      PROVE  BatchesFit'
  BY <1>1 DEF BatchesFit, GrowsOld
<1>2. ASSUME NEW o \in Orgs, ToggleHold(o)
      PROVE  BatchesFit'
  BY <1>2 DEF BatchesFit, ToggleHold
<1>3. ASSUME NEW p \in Photos, UploadPhoto(p)
      PROVE  BatchesFit'
  BY <1>3 DEF BatchesFit, UploadPhoto
<1>4. ASSUME NEW p \in Photos, NEW s \in Submissions, SubmitPhoto(p, s)
      PROVE  BatchesFit'
  BY <1>4 DEF BatchesFit, SubmitPhoto
<1>5. ASSUME NEW x \in Passes, Begin(x)
      PROVE  BatchesFit'
  <2>1. [Idle EXCEPT !.step = "select", !.held = hold, !.cutoff = expired] \in PassType
        /\ [Idle EXCEPT !.step = "select", !.held = hold, !.cutoff = expired].batch = {}
    BY IdleEmpty DEF TypeOK, PassType, Steps
  <2>2. QED BY <1>5, <2>1, BecomesTyped DEF BatchesFit, Begin
<1>6. ASSUME NEW x \in Passes, Select(x)
      PROVE  BatchesFit'
  <2>1. PICK b \in Batches(x) : Becomes(x, IF b = {} THEN TableDone(x)
            ELSE [pass[x] EXCEPT !.step = AfterSelect(x), !.batch = b,
                    !.full = Cardinality(b) = BatchSize,
                    !.todo = IF job[x] = "audit" THEN {Owner[r] : r \in b} ELSE {}])
    BY <1>6 DEF Select
  <2> DEFINE sel == [pass[x] EXCEPT !.step = AfterSelect(x), !.batch = b,
                       !.full = Cardinality(b) = BatchSize,
                       !.todo = IF job[x] = "audit" THEN {Owner[r] : r \in b} ELSE {}]
  <2>2. /\ sel \in PassType /\ sel.batch = b /\ sel.held = pass[x].held
        /\ sel.step = AfterSelect(x) /\ sel.counted = pass[x].counted
        /\ sel.todo = IF job[x] = "audit" THEN {Owner[r] : r \in b} ELSE {}
        /\ b \subseteq Purgeable(x)
    BY SelectedTyped
  <2>3. CASE b = {} /\ Becomes(x, TableDone(x))
    BY <1>6, <2>3, TableDoneTyped, BecomesTyped DEF BatchesFit, Select
  <2>4. CASE b # {} /\ Becomes(x, sel)
    <3>1. \A r \in b : /\ Owner[r] \notin pass[x].held
                       /\ r \in IF job[x] = "audit" THEN AuditRows ELSE DataRows
      BY <2>2, SweptRows DEF Purgeable, There
    <3> HIDE DEF sel
    <3>2. QED BY <1>6, <2>2, <2>4, <3>1, BecomesTyped DEF BatchesFit, Select
  <2>5. QED BY <2>1, <2>3, <2>4
<1>7. ASSUME NEW x \in Passes, NEW o \in Orgs, Archive(x, o)
      PROVE  BatchesFit'
  <2> DEFINE left == pass[x].todo \ {o}
             p == [pass[x] EXCEPT !.todo = left,
                     !.step = IF left = {} THEN "delete" ELSE "archive"]
  <2>1. p \in PassType /\ p.batch = pass[x].batch /\ p.held = pass[x].held
    BY DEF TypeOK, PassType, Steps
  <2>2. Becomes(x, p) /\ job' = job
    BY <1>7 DEF Archive
  <2> HIDE DEF p
  <2>3. QED BY <2>1, <2>2, BecomesTyped DEF BatchesFit
<1>8. ASSUME NEW x \in Passes, ArchiveFails(x)
      PROVE  BatchesFit'
  BY <1>8, TableDoneTyped, BecomesTyped DEF BatchesFit, ArchiveFails
<1>9. ASSUME NEW x \in Passes, DeleteObjects(x)
      PROVE  BatchesFit'
  <2>1. PICK failed \in SUBSET (pass[x].batch \ Keyless) :
           LET kept == pass[x].batch \ failed IN
           /\ object' = [r \in Rows |-> IF r \in kept \ Keyless THEN "gone" ELSE object[r]]
           /\ Becomes(x, IF kept = {} THEN TableDone(x)
                         ELSE [pass[x] EXCEPT !.step = "delete", !.batch = kept])
    BY <1>9 DEF DeleteObjects
  <2> DEFINE kept == pass[x].batch \ failed
             p == [pass[x] EXCEPT !.step = "delete", !.batch = kept]
  <2>2. p \in PassType /\ p.batch = kept /\ p.step = "delete" /\ p.held = pass[x].held
        /\ p.counted = pass[x].counted
    BY DEF TypeOK, PassType, Steps
  <2>3. CASE kept = {} /\ Becomes(x, TableDone(x))
    BY <1>9, <2>3, TableDoneTyped, BecomesTyped DEF BatchesFit, DeleteObjects
  <2>4. CASE kept # {} /\ Becomes(x, p)
    <3> HIDE DEF p
    <3>1. QED BY <1>9, <2>2, <2>4, BecomesTyped DEF BatchesFit, DeleteObjects
  <2>5. QED BY <2>1, <2>3, <2>4
<1>10. ASSUME NEW x \in Passes, DeleteRows(x)
      PROVE  BatchesFit'
  <2>1. CASE Becomes(x, Deleted(x))
    BY <1>10, <2>1, DeletedTyped, BecomesTyped DEF BatchesFit, DeleteRows
  <2>2. CASE Becomes(x, Thrown(x))
    BY <1>10, <2>2, TableDoneTyped, BecomesTyped DEF BatchesFit, DeleteRows
  <2>3. QED BY <1>10, <2>1, <2>2 DEF DeleteRows
<1>11. ASSUME NEW x \in Passes, StatementFails(x)
      PROVE  BatchesFit'
  BY <1>11, TableDoneTyped, BecomesTyped DEF BatchesFit, StatementFails
<1>12. ASSUME NEW x \in Passes, WriteReceipts(x)
      PROVE  BatchesFit'
  BY <1>12, IdleEmpty, BecomesTyped DEF BatchesFit, WriteReceipts
<1>13. ASSUME NEW x \in Passes, ReceiptsFail(x)
      PROVE  BatchesFit'
  BY <1>13, IdleEmpty, BecomesTyped DEF BatchesFit, ReceiptsFail
<1>14. ASSUME NEW x \in Passes, ServerStops(x)
      PROVE  BatchesFit'
  BY <1>14, IdleEmpty, BecomesTyped DEF BatchesFit, ServerStops
<1>15. CASE UNCHANGED vars
  BY <1>15 DEF BatchesFit, vars
<1>16. QED BY <1>1, <1>2, <1>3, <1>4, <1>5, <1>6, <1>7, <1>8, <1>9, <1>10, <1>11, <1>12, <1>13, <1>14, <1>15 DEF Next

\* Where a batch goes after its SELECT.
LEMMA AfterSelectIs ==
    ASSUME TypeOK, NEW x \in Passes
    PROVE  /\ job[x] = "data" => AfterSelect(x) = "objects"
           /\ job[x] = "audit" /\ ArchiveMode = "configured" => AfterSelect(x) = "archive"
           /\ job[x] = "audit" /\ ArchiveMode = "disabled" => AfterSelect(x) = "delete"
           /\ job[x] \in {"audit", "data"}
           /\ ArchiveMode \in {"configured", "disabled", "unset"}
<1>1. job[x] \in {"audit", "data"} /\ ArchiveMode \in {"configured", "disabled", "unset"}
  BY RetentionAssumption DEF TypeOK
<1>2. CASE job[x] = "data"
  BY <1>1, <1>2 DEF AfterSelect
<1>3. CASE job[x] = "audit" /\ ArchiveMode = "configured"
  BY <1>1, <1>3 DEF AfterSelect
<1>4. CASE job[x] = "audit" /\ ArchiveMode # "configured"
  BY <1>1, <1>4 DEF AfterSelect
<1>5. QED BY <1>1, <1>2, <1>3, <1>4

\* What an audit pass is about to delete has been copied, or needs no copy.
LEMMA CopiesStep ==
    ASSUME TypeOK, BatchesFit, Copies, [Next]_vars
    PROVE  Copies'
<1>1. ASSUME NEW r \in Rows, GrowsOld(r)
      PROVE  Copies'
  BY <1>1, Monotone DEF Copies, GrowsOld
<1>2. ASSUME NEW o \in Orgs, ToggleHold(o)
      PROVE  Copies'
  BY <1>2, Monotone DEF Copies, ToggleHold
<1>3. ASSUME NEW p \in Photos, UploadPhoto(p)
      PROVE  Copies'
  BY <1>3, Monotone DEF Copies, UploadPhoto
<1>4. ASSUME NEW p \in Photos, NEW s \in Submissions, SubmitPhoto(p, s)
      PROVE  Copies'
  BY <1>4, Monotone DEF Copies, SubmitPhoto
<1>5. ASSUME NEW x \in Passes, Begin(x)
      PROVE  Copies'
  <2> DEFINE p == [Idle EXCEPT !.step = "select", !.held = hold, !.cutoff = expired]
  <2>1. p \in PassType /\ p.batch = {} /\ p.counted = {} /\ p.step = "select"
    BY IdleEmpty DEF TypeOK, PassType, Steps
  <2>2. Becomes(x, p) /\ UNCHANGED <<job, row, object, parent, copied, receipts>> /\ ~Refused(x)
    BY <1>5 DEF Begin
  <2> HIDE DEF p
  <2>3. QED BY <2>1, <2>2, BecomesTyped DEF Copies, Refused
<1>6. ASSUME NEW x \in Passes, Select(x)
      PROVE  Copies'
  <2>1. PICK b \in Batches(x) : Becomes(x, IF b = {} THEN TableDone(x)
            ELSE [pass[x] EXCEPT !.step = AfterSelect(x), !.batch = b,
                    !.full = Cardinality(b) = BatchSize,
                    !.todo = IF job[x] = "audit" THEN {Owner[r] : r \in b} ELSE {}])
    BY <1>6 DEF Select
  <2> DEFINE sel == [pass[x] EXCEPT !.step = AfterSelect(x), !.batch = b,
                       !.full = Cardinality(b) = BatchSize,
                       !.todo = IF job[x] = "audit" THEN {Owner[r] : r \in b} ELSE {}]
  <2>2. /\ sel \in PassType /\ sel.batch = b /\ sel.held = pass[x].held
        /\ sel.step = AfterSelect(x) /\ sel.counted = pass[x].counted
        /\ sel.todo = IF job[x] = "audit" THEN {Owner[r] : r \in b} ELSE {}
        /\ b \subseteq Purgeable(x)
    BY SelectedTyped
  <2>3. CASE b = {} /\ Becomes(x, TableDone(x))
    BY <1>6, <2>3, TableDoneTyped, BecomesTyped DEF Copies, Select
  <2>4. CASE b # {} /\ Becomes(x, sel)
    <3> HIDE DEF sel
    <3>1. QED BY <1>6, <2>2, <2>4, SweptRows, AfterSelectIs, BecomesTyped DEF Copies, Select, Purgeable, There
  <2>5. QED BY <2>1, <2>3, <2>4
<1>7. ASSUME NEW x \in Passes, NEW o \in Orgs, Archive(x, o)
      PROVE  Copies'
  <2> DEFINE left == pass[x].todo \ {o}
             p == [pass[x] EXCEPT !.todo = left,
                     !.step = IF left = {} THEN "delete" ELSE "archive"]
  <2>1. /\ p \in PassType /\ p.batch = pass[x].batch /\ p.held = pass[x].held
        /\ p.counted = pass[x].counted /\ p.todo = left
        /\ p.step = IF left = {} THEN "delete" ELSE "archive"
    BY DEF TypeOK, PassType, Steps
  <2>2. Becomes(x, p) /\ job' = job /\ pass[x].step = "archive"
        /\ copied' = copied \cup {r \in pass[x].batch : Owner[r] = o}
        /\ UNCHANGED <<row, object, parent, receipts>>
    BY <1>7 DEF Archive
  <2> HIDE DEF p
  <2>3. QED BY <2>1, <2>2, BecomesTyped DEF Copies
<1>8. ASSUME NEW x \in Passes, ArchiveFails(x)
      PROVE  Copies'
  BY <1>8, TableDoneTyped, BecomesTyped DEF Copies, ArchiveFails
<1>9. ASSUME NEW x \in Passes, DeleteObjects(x)
      PROVE  Copies'
  <2>1. PICK failed \in SUBSET (pass[x].batch \ Keyless) :
           LET kept == pass[x].batch \ failed IN
           /\ object' = [r \in Rows |-> IF r \in kept \ Keyless THEN "gone" ELSE object[r]]
           /\ Becomes(x, IF kept = {} THEN TableDone(x)
                         ELSE [pass[x] EXCEPT !.step = "delete", !.batch = kept])
    BY <1>9 DEF DeleteObjects
  <2> DEFINE kept == pass[x].batch \ failed
             p == [pass[x] EXCEPT !.step = "delete", !.batch = kept]
  <2>2. p \in PassType /\ p.batch = kept /\ p.step = "delete" /\ p.held = pass[x].held
        /\ p.counted = pass[x].counted
    BY DEF TypeOK, PassType, Steps
  <2>3. CASE kept = {} /\ Becomes(x, TableDone(x))
    BY <1>9, <2>1, <2>3, TableDoneTyped, BecomesTyped DEF Copies, DeleteObjects
  <2>4. CASE kept # {} /\ Becomes(x, p)
    <3> HIDE DEF p
    <3>1. QED BY <1>9, <2>1, <2>2, <2>4, Monotone, BecomesTyped DEF Copies, DeleteObjects, TypeOK
  <2>5. QED BY <2>1, <2>3, <2>4
<1>10. ASSUME NEW x \in Passes, DeleteRows(x)
      PROVE  Copies'
  <2>1. CASE Becomes(x, Deleted(x))
    BY <1>10, <2>1, DeletedTyped, BecomesTyped DEF Copies, DeleteRows
  <2>2. CASE Becomes(x, Thrown(x))
    BY <1>10, <2>2, TableDoneTyped, BecomesTyped DEF Copies, DeleteRows
  <2>3. QED BY <1>10, <2>1, <2>2 DEF DeleteRows
<1>11. ASSUME NEW x \in Passes, StatementFails(x)
      PROVE  Copies'
  BY <1>11, TableDoneTyped, BecomesTyped DEF Copies, StatementFails
<1>12. ASSUME NEW x \in Passes, WriteReceipts(x)
      PROVE  Copies'
  BY <1>12, IdleEmpty, BecomesTyped DEF Copies, WriteReceipts
<1>13. ASSUME NEW x \in Passes, ReceiptsFail(x)
      PROVE  Copies'
  BY <1>13, IdleEmpty, BecomesTyped DEF Copies, ReceiptsFail
<1>14. ASSUME NEW x \in Passes, ServerStops(x)
      PROVE  Copies'
  BY <1>14, IdleEmpty, BecomesTyped DEF Copies, ServerStops
<1>15. CASE UNCHANGED vars
  BY <1>15 DEF Copies, vars
<1>16. QED BY <1>1, <1>2, <1>3, <1>4, <1>5, <1>6, <1>7, <1>8, <1>9, <1>10, <1>11, <1>12, <1>13, <1>14, <1>15 DEF Next

\* What a data pass is about to delete has no object any more.
LEMMA EmptiedStep ==
    ASSUME TypeOK, BatchesFit, Emptied, [Next]_vars
    PROVE  Emptied'
<1>1. ASSUME NEW r \in Rows, GrowsOld(r)
      PROVE  Emptied'
  BY <1>1, Monotone DEF Emptied, GrowsOld
<1>2. ASSUME NEW o \in Orgs, ToggleHold(o)
      PROVE  Emptied'
  BY <1>2, Monotone DEF Emptied, ToggleHold
<1>3. ASSUME NEW p \in Photos, UploadPhoto(p)
      PROVE  Emptied'
  BY <1>3, Monotone DEF Emptied, UploadPhoto
<1>4. ASSUME NEW p \in Photos, NEW s \in Submissions, SubmitPhoto(p, s)
      PROVE  Emptied'
  BY <1>4, Monotone DEF Emptied, SubmitPhoto
<1>5. ASSUME NEW x \in Passes, Begin(x)
      PROVE  Emptied'
  <2> DEFINE p == [Idle EXCEPT !.step = "select", !.held = hold, !.cutoff = expired]
  <2>1. p \in PassType /\ p.batch = {} /\ p.counted = {} /\ p.step = "select"
    BY IdleEmpty DEF TypeOK, PassType, Steps
  <2>2. Becomes(x, p) /\ UNCHANGED <<job, row, object, parent, copied, receipts>> /\ ~Refused(x)
    BY <1>5 DEF Begin
  <2> HIDE DEF p
  <2>3. QED BY <2>1, <2>2, BecomesTyped DEF Emptied, Refused
<1>6. ASSUME NEW x \in Passes, Select(x)
      PROVE  Emptied'
  <2>1. PICK b \in Batches(x) : Becomes(x, IF b = {} THEN TableDone(x)
            ELSE [pass[x] EXCEPT !.step = AfterSelect(x), !.batch = b,
                    !.full = Cardinality(b) = BatchSize,
                    !.todo = IF job[x] = "audit" THEN {Owner[r] : r \in b} ELSE {}])
    BY <1>6 DEF Select
  <2> DEFINE sel == [pass[x] EXCEPT !.step = AfterSelect(x), !.batch = b,
                       !.full = Cardinality(b) = BatchSize,
                       !.todo = IF job[x] = "audit" THEN {Owner[r] : r \in b} ELSE {}]
  <2>2. /\ sel \in PassType /\ sel.batch = b /\ sel.held = pass[x].held
        /\ sel.step = AfterSelect(x) /\ sel.counted = pass[x].counted
        /\ sel.todo = IF job[x] = "audit" THEN {Owner[r] : r \in b} ELSE {}
        /\ b \subseteq Purgeable(x)
    BY SelectedTyped
  <2>3. CASE b = {} /\ Becomes(x, TableDone(x))
    BY <1>6, <2>3, TableDoneTyped, BecomesTyped DEF Emptied, Select
  <2>4. CASE b # {} /\ Becomes(x, sel)
    <3> HIDE DEF sel
    <3>1. QED BY <1>6, <2>2, <2>4, SweptRows, AfterSelectIs, BecomesTyped DEF Emptied, Select, Purgeable, There
  <2>5. QED BY <2>1, <2>3, <2>4
<1>7. ASSUME NEW x \in Passes, NEW o \in Orgs, Archive(x, o)
      PROVE  Emptied'
  <2> DEFINE left == pass[x].todo \ {o}
             p == [pass[x] EXCEPT !.todo = left,
                     !.step = IF left = {} THEN "delete" ELSE "archive"]
  <2>1. /\ p \in PassType /\ p.batch = pass[x].batch /\ p.held = pass[x].held
        /\ p.counted = pass[x].counted /\ p.todo = left
        /\ p.step = IF left = {} THEN "delete" ELSE "archive"
    BY DEF TypeOK, PassType, Steps
  <2>2. Becomes(x, p) /\ job' = job /\ pass[x].step = "archive"
        /\ copied' = copied \cup {r \in pass[x].batch : Owner[r] = o}
        /\ UNCHANGED <<row, object, parent, receipts>>
    BY <1>7 DEF Archive
  <2> HIDE DEF p
  <2>3. QED BY <2>1, <2>2, BecomesTyped DEF Emptied
<1>8. ASSUME NEW x \in Passes, ArchiveFails(x)
      PROVE  Emptied'
  BY <1>8, TableDoneTyped, BecomesTyped DEF Emptied, ArchiveFails
<1>9. ASSUME NEW x \in Passes, DeleteObjects(x)
      PROVE  Emptied'
  <2>1. PICK failed \in SUBSET (pass[x].batch \ Keyless) :
           LET kept == pass[x].batch \ failed IN
           /\ object' = [r \in Rows |-> IF r \in kept \ Keyless THEN "gone" ELSE object[r]]
           /\ Becomes(x, IF kept = {} THEN TableDone(x)
                         ELSE [pass[x] EXCEPT !.step = "delete", !.batch = kept])
    BY <1>9 DEF DeleteObjects
  <2> DEFINE kept == pass[x].batch \ failed
             p == [pass[x] EXCEPT !.step = "delete", !.batch = kept]
  <2>2. p \in PassType /\ p.batch = kept /\ p.step = "delete" /\ p.held = pass[x].held
        /\ p.counted = pass[x].counted
    BY DEF TypeOK, PassType, Steps
  <2>3. CASE kept = {} /\ Becomes(x, TableDone(x))
    BY <1>9, <2>3, TableDoneTyped, BecomesTyped, Monotone DEF Emptied, DeleteObjects, BatchesFit, Rows
  <2>4. CASE kept # {} /\ Becomes(x, p)
    <3> HIDE DEF p
    <3>1. \A r \in kept \ Keyless : r \in Rows => object'[r] = "gone"
      BY <2>1
    <3>2. job' = job /\ (job[x] = "data" => kept \subseteq Rows)
      BY <1>9 DEF DeleteObjects, BatchesFit, Rows
    <3>3. pass'[x].step = "delete" /\ pass'[x].batch = kept
          /\ \A y \in Passes \ {x} : pass'[y] = pass[y]
      BY <2>2, <2>4, BecomesTyped
    <3>4. ASSUME NEW y \in Passes, job[y] = "data"
          PROVE  /\ pass'[y].step # "archive"
                 /\ pass'[y].step = "delete" =>
                       \A r \in pass'[y].batch \ Keyless : object'[r] = "gone"
      <4>1. CASE y = x
        BY <3>1, <3>2, <3>3, <3>4, <4>1
      <4>2. CASE y # x
        <5>1. pass'[y] = pass[y] /\ pass[y].batch \subseteq Rows
          BY <3>3, <4>2 DEF TypeOK, PassType
        <5>2. QED BY <3>4, <5>1, Monotone DEF Emptied
      <4>3. QED BY <4>1, <4>2
    <3>5. QED BY <3>2, <3>4 DEF Emptied
  <2>5. QED BY <2>1, <2>3, <2>4
<1>10. ASSUME NEW x \in Passes, DeleteRows(x)
      PROVE  Emptied'
  <2>1. CASE Becomes(x, Deleted(x))
    BY <1>10, <2>1, DeletedTyped, BecomesTyped DEF Emptied, DeleteRows
  <2>2. CASE Becomes(x, Thrown(x))
    BY <1>10, <2>2, TableDoneTyped, BecomesTyped DEF Emptied, DeleteRows
  <2>3. QED BY <1>10, <2>1, <2>2 DEF DeleteRows
<1>11. ASSUME NEW x \in Passes, StatementFails(x)
      PROVE  Emptied'
  BY <1>11, TableDoneTyped, BecomesTyped DEF Emptied, StatementFails
<1>12. ASSUME NEW x \in Passes, WriteReceipts(x)
      PROVE  Emptied'
  BY <1>12, IdleEmpty, BecomesTyped DEF Emptied, WriteReceipts
<1>13. ASSUME NEW x \in Passes, ReceiptsFail(x)
      PROVE  Emptied'
  BY <1>13, IdleEmpty, BecomesTyped DEF Emptied, ReceiptsFail
<1>14. ASSUME NEW x \in Passes, ServerStops(x)
      PROVE  Emptied'
  BY <1>14, IdleEmpty, BecomesTyped DEF Emptied, ServerStops
<1>15. CASE UNCHANGED vars
  BY <1>15 DEF Emptied, vars
<1>16. QED BY <1>1, <1>2, <1>3, <1>4, <1>5, <1>6, <1>7, <1>8, <1>9, <1>10, <1>11, <1>12, <1>13, <1>14, <1>15 DEF Next

\* NothingUncopied is preserved.
LEMMA CopiedStep ==
    ASSUME TypeOK, BatchesFit, Copies, NothingUncopied, [Next]_vars
    PROVE  NothingUncopied'
<1>1. ASSUME NEW r \in Rows, GrowsOld(r)
      PROVE  NothingUncopied'
  BY <1>1, Monotone DEF NothingUncopied, GrowsOld
<1>2. ASSUME NEW o \in Orgs, ToggleHold(o)
      PROVE  NothingUncopied'
  BY <1>2, Monotone DEF NothingUncopied, ToggleHold
<1>3. ASSUME NEW p \in Photos, UploadPhoto(p)
      PROVE  NothingUncopied'
  BY <1>3, Monotone DEF NothingUncopied, UploadPhoto
<1>4. ASSUME NEW p \in Photos, NEW s \in Submissions, SubmitPhoto(p, s)
      PROVE  NothingUncopied'
  <2>1. \A r \in AuditRows : row'[r] = row[r]
    BY <1>4, RetentionAssumption DEF SubmitPhoto, TypeOK, Rows, DataRows
  <2>2. QED BY <1>4, <2>1 DEF NothingUncopied, SubmitPhoto
<1>5. ASSUME NEW x \in Passes, Begin(x)
      PROVE  NothingUncopied'
  BY <1>5, Monotone DEF NothingUncopied, Begin
<1>6. ASSUME NEW x \in Passes, Select(x)
      PROVE  NothingUncopied'
  BY <1>6, Monotone DEF NothingUncopied, Select
<1>7. ASSUME NEW x \in Passes, NEW o \in Orgs, Archive(x, o)
      PROVE  NothingUncopied'
  BY <1>7, Monotone DEF NothingUncopied, Archive
<1>8. ASSUME NEW x \in Passes, ArchiveFails(x)
      PROVE  NothingUncopied'
  BY <1>8, Monotone DEF NothingUncopied, ArchiveFails
<1>9. ASSUME NEW x \in Passes, DeleteObjects(x)
      PROVE  NothingUncopied'
  BY <1>9, Monotone DEF NothingUncopied, DeleteObjects
<1>10. ASSUME NEW x \in Passes, DeleteRows(x)
      PROVE  NothingUncopied'
  <2>1. ASSUME NEW r \in AuditRows, row'[r] = "gone"
        PROVE  r \in copied \/ ArchiveMode = "disabled"
    <3>1. CASE row[r] = "gone"
      BY <3>1, <2>1 DEF NothingUncopied
    <3>2. CASE r \in pass[x].batch
      BY <1>10, <3>2, <2>1, RetentionAssumption DEF BatchesFit, Copies, DeleteRows, TypeOK
    <3>3. CASE r \in Cascade(There(pass[x].batch))
      BY <3>3, RetentionAssumption DEF Cascade, DataRows
    <3>4. QED BY <1>10, <2>1, <3>1, <3>2, <3>3 DEF DeleteRows, There, Rows
  <2>2. QED BY <1>10, <2>1 DEF NothingUncopied, DeleteRows
<1>11. ASSUME NEW x \in Passes, StatementFails(x)
      PROVE  NothingUncopied'
  BY <1>11, Monotone DEF NothingUncopied, StatementFails
<1>12. ASSUME NEW x \in Passes, WriteReceipts(x)
      PROVE  NothingUncopied'
  BY <1>12, Monotone DEF NothingUncopied, WriteReceipts
<1>13. ASSUME NEW x \in Passes, ReceiptsFail(x)
      PROVE  NothingUncopied'
  BY <1>13, Monotone DEF NothingUncopied, ReceiptsFail
<1>14. ASSUME NEW x \in Passes, ServerStops(x)
      PROVE  NothingUncopied'
  BY <1>14, Monotone DEF NothingUncopied, ServerStops
<1>15. CASE UNCHANGED vars
  BY <1>15 DEF NothingUncopied, vars
<1>16. QED BY <1>1, <1>2, <1>3, <1>4, <1>5, <1>6, <1>7, <1>8, <1>9, <1>10, <1>11, <1>12, <1>13, <1>14, <1>15 DEF Next

\* OrphansAreCascaded is preserved.
LEMMA OrphansStep ==
    ASSUME TypeOK, BatchesFit, Emptied, OrphansAreCascaded, [Next]_vars
    PROVE  OrphansAreCascaded'
<1>1. ASSUME NEW r \in Rows, GrowsOld(r)
      PROVE  OrphansAreCascaded'
  BY <1>1, Monotone DEF OrphansAreCascaded, GrowsOld, Rows
<1>2. ASSUME NEW o \in Orgs, ToggleHold(o)
      PROVE  OrphansAreCascaded'
  BY <1>2, Monotone DEF OrphansAreCascaded, ToggleHold, Rows
<1>3. ASSUME NEW p \in Photos, UploadPhoto(p)
      PROVE  OrphansAreCascaded'
  BY <1>3 DEF OrphansAreCascaded, UploadPhoto, TypeOK, Rows, DataRows
<1>4. ASSUME NEW p \in Photos, NEW s \in Submissions, SubmitPhoto(p, s)
      PROVE  OrphansAreCascaded'
  <2>1. \A r \in Rows : row'[r] = "gone" => row[r] = "gone"
    BY <1>4 DEF SubmitPhoto, TypeOK
  <2>2. \A q \in Photos : row[q] = "gone" => parent'[q] = parent[q]
    BY <1>4 DEF SubmitPhoto, TypeOK
  <2>3. \A t \in Submissions : row[t] = "gone" => row'[t] = "gone"
    BY <1>4, Monotone DEF Rows, DataRows
  <2>4. UNCHANGED object
    BY <1>4 DEF SubmitPhoto
  <2> SUFFICES ASSUME NEW r \in DataRows \ Keyless, row'[r] = "gone", object'[r] = "there"
               PROVE  r \in Photos /\ parent'[r] # None /\ row'[parent'[r]] = "gone"
    BY DEF OrphansAreCascaded
  <2>5. row[r] = "gone" /\ object[r] = "there"
    BY <2>1, <2>4 DEF Rows
  <2>6. r \in Photos /\ parent[r] # None /\ row[parent[r]] = "gone"
    BY <2>5 DEF OrphansAreCascaded
  <2>7. parent'[r] = parent[r] /\ parent[r] \in Submissions
    BY <2>2, <2>5, <2>6 DEF TypeOK
  <2>8. QED BY <2>3, <2>6, <2>7
<1>5. ASSUME NEW x \in Passes, Begin(x)
      PROVE  OrphansAreCascaded'
  BY <1>5, Monotone DEF OrphansAreCascaded, Begin, Rows
<1>6. ASSUME NEW x \in Passes, Select(x)
      PROVE  OrphansAreCascaded'
  BY <1>6, Monotone DEF OrphansAreCascaded, Select, Rows
<1>7. ASSUME NEW x \in Passes, NEW o \in Orgs, Archive(x, o)
      PROVE  OrphansAreCascaded'
  BY <1>7, Monotone DEF OrphansAreCascaded, Archive, Rows
<1>8. ASSUME NEW x \in Passes, ArchiveFails(x)
      PROVE  OrphansAreCascaded'
  BY <1>8, Monotone DEF OrphansAreCascaded, ArchiveFails, Rows
<1>9. ASSUME NEW x \in Passes, DeleteObjects(x)
      PROVE  OrphansAreCascaded'
  <2>1. \A r \in Rows : object'[r] = "there" => object[r] = "there"
    BY <1>9 DEF DeleteObjects, TypeOK
  <2>2. QED BY <1>9, <2>1 DEF OrphansAreCascaded, DeleteObjects, Rows
<1>10. ASSUME NEW x \in Passes, DeleteRows(x)
      PROVE  OrphansAreCascaded'
  <2>1. ASSUME NEW r \in DataRows \ Keyless, row'[r] = "gone", object'[r] = "there"
        PROVE  r \in Photos /\ parent'[r] # None /\ row'[parent'[r]] = "gone"
    <3>0. UNCHANGED <<object, parent>> /\ job[x] \in {"audit", "data"}
      BY <1>10 DEF DeleteRows, TypeOK
    <3>1. CASE row[r] = "gone"
      <4>1. r \in Photos /\ parent[r] # None /\ row[parent[r]] = "gone"
        BY <3>0, <3>1, <2>1 DEF OrphansAreCascaded
      <4>2. parent[r] \in Rows
        BY <4>1 DEF TypeOK, Rows, DataRows
      <4>3. QED BY <3>0, <4>1, <4>2, Monotone
    <3>2. CASE r \in pass[x].batch
      BY <1>10, <3>0, <3>2, <2>1, RetentionAssumption DEF BatchesFit, Emptied, DeleteRows, TypeOK
    <3>3. CASE r \in Cascade(There(pass[x].batch))
      <4>1. r \in Photos /\ parent[r] \in There(pass[x].batch)
        BY <3>3 DEF Cascade
      <4>2. pass[x].batch \subseteq Rows
        BY DEF TypeOK, PassType
      <4>3. parent[r] \in Rows /\ row[parent[r]] = "there"
        BY <4>1, <4>2 DEF There
      <4>4. row'[parent[r]] = "gone"
        BY <1>10, <4>1, <4>3 DEF DeleteRows, There
      <4>5. QED BY <3>0, <4>1, <4>3, <4>4, RetentionAssumption
    <3>4. QED BY <1>10, <2>1, <3>1, <3>2, <3>3 DEF DeleteRows, There, Rows
  <2>2. QED BY <2>1 DEF OrphansAreCascaded
<1>11. ASSUME NEW x \in Passes, StatementFails(x)
      PROVE  OrphansAreCascaded'
  BY <1>11, Monotone DEF OrphansAreCascaded, StatementFails, Rows
<1>12. ASSUME NEW x \in Passes, WriteReceipts(x)
      PROVE  OrphansAreCascaded'
  BY <1>12, Monotone DEF OrphansAreCascaded, WriteReceipts, Rows
<1>13. ASSUME NEW x \in Passes, ReceiptsFail(x)
      PROVE  OrphansAreCascaded'
  BY <1>13, Monotone DEF OrphansAreCascaded, ReceiptsFail, Rows
<1>14. ASSUME NEW x \in Passes, ServerStops(x)
      PROVE  OrphansAreCascaded'
  BY <1>14, Monotone DEF OrphansAreCascaded, ServerStops, Rows
<1>15. CASE UNCHANGED vars
  BY <1>15 DEF OrphansAreCascaded, vars
<1>16. QED BY <1>1, <1>2, <1>3, <1>4, <1>5, <1>6, <1>7, <1>8, <1>9, <1>10, <1>11, <1>12, <1>13, <1>14, <1>15 DEF Next

\* CountedOnce is preserved.
LEMMA CountedStep ==
    ASSUME TypeOK, BatchesFit, CountedOnce, [Next]_vars
    PROVE  CountedOnce'
<1>1. ASSUME NEW r \in Rows, GrowsOld(r)
      PROVE  CountedOnce'
  BY <1>1, Monotone DEF CountedOnce, GrowsOld, Rows
<1>2. ASSUME NEW o \in Orgs, ToggleHold(o)
      PROVE  CountedOnce'
  BY <1>2, Monotone DEF CountedOnce, ToggleHold, Rows
<1>3. ASSUME NEW p \in Photos, UploadPhoto(p)
      PROVE  CountedOnce'
  BY <1>3, Monotone DEF CountedOnce, UploadPhoto, Rows
<1>4. ASSUME NEW p \in Photos, NEW s \in Submissions, SubmitPhoto(p, s)
      PROVE  CountedOnce'
  <2>1. \A r \in AuditRows : row'[r] = row[r]
    BY <1>4, RetentionAssumption DEF SubmitPhoto, TypeOK, Rows, DataRows
  <2>2. QED BY <1>4, <2>1 DEF CountedOnce, SubmitPhoto
<1>5. ASSUME NEW x \in Passes, Begin(x)
      PROVE  CountedOnce'
  <2> DEFINE p == [Idle EXCEPT !.step = "select", !.held = hold, !.cutoff = expired]
  <2>1. p \in PassType /\ p.counted = {}
    BY IdleEmpty DEF TypeOK, PassType, Steps
  <2>2. Becomes(x, p) /\ UNCHANGED <<row, receipts>>
    BY <1>5 DEF Begin
  <2> HIDE DEF p
  <2>3. \A y \in Passes : pass'[y].counted \subseteq pass[y].counted
    BY <2>1, <2>2, BecomesTyped
  <2>4. QED BY <2>2, <2>3 DEF CountedOnce
<1>6. ASSUME NEW x \in Passes, Select(x)
      PROVE  CountedOnce'
  <2>1. PICK b \in Batches(x) : Becomes(x, IF b = {} THEN TableDone(x)
            ELSE [pass[x] EXCEPT !.step = AfterSelect(x), !.batch = b,
                    !.full = Cardinality(b) = BatchSize,
                    !.todo = IF job[x] = "audit" THEN {Owner[r] : r \in b} ELSE {}])
    BY <1>6 DEF Select
  <2> DEFINE sel == [pass[x] EXCEPT !.step = AfterSelect(x), !.batch = b,
                       !.full = Cardinality(b) = BatchSize,
                       !.todo = IF job[x] = "audit" THEN {Owner[r] : r \in b} ELSE {}]
  <2>2. /\ sel \in PassType /\ sel.batch = b /\ sel.held = pass[x].held
        /\ sel.step = AfterSelect(x) /\ sel.counted = pass[x].counted
        /\ sel.todo = IF job[x] = "audit" THEN {Owner[r] : r \in b} ELSE {}
        /\ b \subseteq Purgeable(x)
    BY SelectedTyped
  <2>3. CASE b = {} /\ Becomes(x, TableDone(x))
    <3>1. \A y \in Passes : pass'[y].counted \subseteq pass[y].counted
      BY <2>3, TableDoneTyped, BecomesTyped
    <3>2. QED BY <1>6, <3>1 DEF CountedOnce, Select
  <2>4. CASE b # {} /\ Becomes(x, sel)
    <3> HIDE DEF sel
    <3>1. \A y \in Passes : pass'[y].counted \subseteq pass[y].counted
      BY <2>2, <2>4, BecomesTyped
    <3>2. QED BY <1>6, <3>1 DEF CountedOnce, Select
  <2>5. QED BY <2>1, <2>3, <2>4
<1>7. ASSUME NEW x \in Passes, NEW o \in Orgs, Archive(x, o)
      PROVE  CountedOnce'
  <2> DEFINE left == pass[x].todo \ {o}
             p == [pass[x] EXCEPT !.todo = left,
                     !.step = IF left = {} THEN "delete" ELSE "archive"]
  <2>1. /\ p \in PassType /\ p.batch = pass[x].batch /\ p.held = pass[x].held
        /\ p.counted = pass[x].counted /\ p.todo = left
        /\ p.step = IF left = {} THEN "delete" ELSE "archive"
    BY DEF TypeOK, PassType, Steps
  <2>2. Becomes(x, p) /\ job' = job /\ pass[x].step = "archive"
        /\ copied' = copied \cup {r \in pass[x].batch : Owner[r] = o}
        /\ UNCHANGED <<row, object, parent, receipts>>
    BY <1>7 DEF Archive
  <2> HIDE DEF p
  <2>3. \A y \in Passes : pass'[y].counted \subseteq pass[y].counted
    BY <2>1, <2>2, BecomesTyped
  <2>4. QED BY <2>2, <2>3 DEF CountedOnce
<1>8. ASSUME NEW x \in Passes, ArchiveFails(x)
      PROVE  CountedOnce'
  <2>1. \A y \in Passes : pass'[y].counted \subseteq pass[y].counted
    BY <1>8, TableDoneTyped, BecomesTyped DEF ArchiveFails
  <2>2. QED BY <1>8, <2>1 DEF CountedOnce, ArchiveFails
<1>9. ASSUME NEW x \in Passes, DeleteObjects(x)
      PROVE  CountedOnce'
  <2>1. PICK failed \in SUBSET (pass[x].batch \ Keyless) :
           LET kept == pass[x].batch \ failed IN
           /\ object' = [r \in Rows |-> IF r \in kept \ Keyless THEN "gone" ELSE object[r]]
           /\ Becomes(x, IF kept = {} THEN TableDone(x)
                         ELSE [pass[x] EXCEPT !.step = "delete", !.batch = kept])
    BY <1>9 DEF DeleteObjects
  <2> DEFINE kept == pass[x].batch \ failed
             p == [pass[x] EXCEPT !.step = "delete", !.batch = kept]
  <2>2. p \in PassType /\ p.batch = kept /\ p.step = "delete" /\ p.held = pass[x].held
        /\ p.counted = pass[x].counted
    BY DEF TypeOK, PassType, Steps
  <2>3. CASE kept = {} /\ Becomes(x, TableDone(x))
    <3>1. \A y \in Passes : pass'[y].counted \subseteq pass[y].counted
      BY <2>3, TableDoneTyped, BecomesTyped
    <3>2. QED BY <1>9, <3>1 DEF CountedOnce, DeleteObjects
  <2>4. CASE kept # {} /\ Becomes(x, p)
    <3> HIDE DEF p
    <3>1. \A y \in Passes : pass'[y].counted \subseteq pass[y].counted
      BY <2>2, <2>4, BecomesTyped
    <3>2. QED BY <1>9, <3>1 DEF CountedOnce, DeleteObjects
  <2>5. QED BY <2>1, <2>3, <2>4
<1>10. ASSUME NEW x \in Passes, DeleteRows(x)
      PROVE  CountedOnce'
  <2>1. CASE Becomes(x, Thrown(x))
    <3>1. \A y \in Passes : pass'[y].counted \subseteq pass[y].counted
      BY <2>1, TableDoneTyped, BecomesTyped
    <3>2. QED BY <1>10, <3>1, Monotone DEF CountedOnce, DeleteRows, Rows
  <2>2. CASE There(pass[x].batch) = pass[x].batch /\ Becomes(x, Deleted(x))
    <3>1. /\ pass'[x].counted \subseteq pass[x].counted \cup pass[x].batch
          /\ \A y \in Passes \ {x} : pass'[y] = pass[y]
      BY <2>2, DeletedTyped, BecomesTyped
    <3>2. \A r \in pass[x].batch : r \in Rows /\ row[r] = "there" /\ row'[r] = "gone"
      BY <1>10, <2>2 DEF DeleteRows, There, TypeOK, PassType
    <3>3. \A r \in AuditRows : row[r] = "gone" => row'[r] = "gone"
      BY Monotone DEF Rows
    <3>4. receipts' = receipts
      BY <1>10 DEF DeleteRows
    <3>5. ASSUME NEW r \in AuditRows
          PROVE  /\ receipts'[r] <= 1
                 /\ receipts'[r] = 1 => row'[r] = "gone"
                 /\ \A z \in Passes : r \in pass'[z].counted =>
                       /\ row'[r] = "gone" /\ receipts'[r] = 0
                       /\ \A y \in Passes \ {z} : r \notin pass'[y].counted
      <4>1. CASE r \in pass[x].batch
        <5>1. receipts[r] \in Nat
          BY DEF TypeOK, Rows
        <5>2. receipts[r] = 0 /\ \A y \in Passes : r \notin pass[y].counted
          BY <3>2, <4>1, <5>1 DEF CountedOnce
        <5>3. QED BY <3>1, <3>2, <3>4, <4>1, <5>2
      <4>2. CASE r \notin pass[x].batch
        BY <3>1, <3>3, <3>4, <4>2 DEF CountedOnce
      <4>3. QED BY <4>1, <4>2
    <3>6. QED BY <3>5 DEF CountedOnce
  <2>3. QED BY <1>10, <2>1, <2>2 DEF DeleteRows
<1>11. ASSUME NEW x \in Passes, StatementFails(x)
      PROVE  CountedOnce'
  <2>1. \A y \in Passes : pass'[y].counted \subseteq pass[y].counted
    BY <1>11, TableDoneTyped, BecomesTyped DEF StatementFails
  <2>2. QED BY <1>11, <2>1 DEF CountedOnce, StatementFails
<1>12. ASSUME NEW x \in Passes, WriteReceipts(x)
      PROVE  CountedOnce'
  <2>1. /\ receipts' = [r \in Rows |-> IF r \in pass[x].counted THEN receipts[r] + 1
                                                               ELSE receipts[r]]
        /\ row' = row /\ Becomes(x, Idle)
    BY <1>12 DEF WriteReceipts
  <2>2. pass'[x].counted = {} /\ \A y \in Passes \ {x} : pass'[y] = pass[y]
    BY <2>1, IdleEmpty, BecomesTyped
  <2>3. ASSUME NEW r \in AuditRows
        PROVE  /\ receipts'[r] <= 1
               /\ receipts'[r] = 1 => row'[r] = "gone"
               /\ \A z \in Passes : r \in pass'[z].counted =>
                     /\ row'[r] = "gone" /\ receipts'[r] = 0
                     /\ \A y \in Passes \ {z} : r \notin pass'[y].counted
    <3>1. CASE r \in pass[x].counted
      BY <2>1, <2>2, <3>1 DEF CountedOnce, Rows
    <3>2. CASE r \notin pass[x].counted
      BY <2>1, <2>2, <3>2 DEF CountedOnce, Rows
    <3>3. QED BY <3>1, <3>2
  <2>4. QED BY <2>3 DEF CountedOnce
<1>13. ASSUME NEW x \in Passes, ReceiptsFail(x)
      PROVE  CountedOnce'
  <2>1. \A y \in Passes : pass'[y].counted \subseteq pass[y].counted
    BY <1>13, IdleEmpty, BecomesTyped DEF ReceiptsFail
  <2>2. QED BY <1>13, <2>1 DEF CountedOnce, ReceiptsFail
<1>14. ASSUME NEW x \in Passes, ServerStops(x)
      PROVE  CountedOnce'
  <2>1. \A y \in Passes : pass'[y].counted \subseteq pass[y].counted
    BY <1>14, IdleEmpty, BecomesTyped DEF ServerStops
  <2>2. QED BY <1>14, <2>1 DEF CountedOnce, ServerStops
<1>15. CASE UNCHANGED vars
  BY <1>15 DEF CountedOnce, vars
<1>16. QED BY <1>1, <1>2, <1>3, <1>4, <1>5, <1>6, <1>7, <1>8, <1>9, <1>10, <1>11, <1>12, <1>13, <1>14, <1>15 DEF Next

\* No step takes a row or an object from a protected organisation.
LEMMA ProtectedStep ==
    ASSUME TypeOK, BatchesFit, [Next]_vars
    PROVE  \A r \in Rows : Protected(Owner[r]) => ~Loses(r)
<1>1. ASSUME NEW x \in Rows, GrowsOld(x)
      PROVE  \A r \in Rows : Protected(Owner[r]) => ~Loses(r)
  BY <1>1 DEF Loses, TypeOK, GrowsOld
<1>2. ASSUME NEW o \in Orgs, ToggleHold(o)
      PROVE  \A r \in Rows : Protected(Owner[r]) => ~Loses(r)
  BY <1>2 DEF Loses, TypeOK, ToggleHold
<1>3. ASSUME NEW p \in Photos, UploadPhoto(p)
      PROVE  \A r \in Rows : Protected(Owner[r]) => ~Loses(r)
  BY <1>3 DEF Loses, TypeOK, UploadPhoto
<1>4. ASSUME NEW p \in Photos, NEW s \in Submissions, SubmitPhoto(p, s)
      PROVE  \A r \in Rows : Protected(Owner[r]) => ~Loses(r)
  BY <1>4 DEF Loses, TypeOK, SubmitPhoto
<1>5. ASSUME NEW x \in Passes, Begin(x)
      PROVE  \A r \in Rows : Protected(Owner[r]) => ~Loses(r)
  BY <1>5 DEF Loses, TypeOK, Begin
<1>6. ASSUME NEW x \in Passes, Select(x)
      PROVE  \A r \in Rows : Protected(Owner[r]) => ~Loses(r)
  BY <1>6 DEF Loses, TypeOK, Select
<1>7. ASSUME NEW x \in Passes, NEW o \in Orgs, Archive(x, o)
      PROVE  \A r \in Rows : Protected(Owner[r]) => ~Loses(r)
  BY <1>7 DEF Loses, TypeOK, Archive
<1>8. ASSUME NEW x \in Passes, ArchiveFails(x)
      PROVE  \A r \in Rows : Protected(Owner[r]) => ~Loses(r)
  BY <1>8 DEF Loses, TypeOK, ArchiveFails
<1>9. ASSUME NEW x \in Passes, DeleteObjects(x)
      PROVE  \A r \in Rows : Protected(Owner[r]) => ~Loses(r)
  <2>1. PICK failed \in SUBSET (pass[x].batch \ Keyless) :
           object' = [r \in Rows |-> IF r \in (pass[x].batch \ failed) \ Keyless
                                     THEN "gone" ELSE object[r]]
    BY <1>9 DEF DeleteObjects
  <2>2. \A r \in Rows : Loses(r) => r \in pass[x].batch
    BY <1>9, <2>1 DEF Loses, DeleteObjects
  <2>3. QED BY <1>9, <2>2 DEF BatchesFit, Protected, DeleteObjects
<1>10. ASSUME NEW x \in Passes, DeleteRows(x)
      PROVE  \A r \in Rows : Protected(Owner[r]) => ~Loses(r)
  <2>1. ASSUME NEW r \in Rows, Loses(r)
        PROVE  r \in pass[x].batch \/ r \in Cascade(There(pass[x].batch))
    BY <1>10, <2>1 DEF Loses, DeleteRows, There
  <2>2. ASSUME NEW r \in Cascade(There(pass[x].batch))
        PROVE  \E s \in pass[x].batch : Owner[s] = Owner[r]
    <3>1. r \in Photos /\ parent[r] \in pass[x].batch
      BY <2>2 DEF Cascade, There
    <3>2. parent[r] \in Submissions
      BY <3>1, RetentionAssumption DEF TypeOK, PassType
    <3>3. QED BY <3>1, <3>2, RetentionAssumption
  <2>3. QED BY <1>10, <2>1, <2>2 DEF BatchesFit, Protected, DeleteRows
<1>11. ASSUME NEW x \in Passes, StatementFails(x)
      PROVE  \A r \in Rows : Protected(Owner[r]) => ~Loses(r)
  BY <1>11 DEF Loses, TypeOK, StatementFails
<1>12. ASSUME NEW x \in Passes, WriteReceipts(x)
      PROVE  \A r \in Rows : Protected(Owner[r]) => ~Loses(r)
  BY <1>12 DEF Loses, TypeOK, WriteReceipts
<1>13. ASSUME NEW x \in Passes, ReceiptsFail(x)
      PROVE  \A r \in Rows : Protected(Owner[r]) => ~Loses(r)
  BY <1>13 DEF Loses, TypeOK, ReceiptsFail
<1>14. ASSUME NEW x \in Passes, ServerStops(x)
      PROVE  \A r \in Rows : Protected(Owner[r]) => ~Loses(r)
  BY <1>14 DEF Loses, TypeOK, ServerStops
<1>15. CASE UNCHANGED vars
  BY <1>15 DEF Loses, TypeOK, vars
<1>16. QED BY <1>1, <1>2, <1>3, <1>4, <1>5, <1>6, <1>7, <1>8, <1>9, <1>10, <1>11, <1>12, <1>13, <1>14, <1>15 DEF Next

----------------------------------------------------------------------------
\* The inductive invariant holds at first and is kept by every step.
LEMMA InitIInv == Init => IInv
<1> SUFFICES ASSUME Init PROVE IInv
  OBVIOUS
<1>1. TypeOK
  BY RetentionAssumption, IdleEmpty DEF Init, TypeOK, States
<1>2. \A x \in Passes : pass[x] = Idle
  BY DEF Init
<1>3. BatchesFit /\ Copies /\ Emptied
  BY <1>2, IdleEmpty DEF BatchesFit, Copies, Emptied
<1>4. \A r \in Rows : row[r] # "gone" /\ receipts[r] = 0
  BY DEF Init
<1>5. NothingUncopied /\ OrphansAreCascaded
  BY <1>4 DEF NothingUncopied, OrphansAreCascaded, Rows
<1>6. CountedOnce
  BY <1>2, <1>4, IdleEmpty DEF CountedOnce, Rows
<1>7. QED BY <1>1, <1>3, <1>5, <1>6 DEF IInv

LEMMA StepIInv == IInv /\ [Next]_vars => IInv'
  BY TypeStep, FitStep, CopiesStep, EmptiedStep, CopiedStep, OrphansStep, CountedStep DEF IInv

LEMMA Invariant == Spec => []IInv
  BY InitIInv, StepIInv, PTL DEF Spec

\* Types, for every number of rows, timers, batch sizes and stops.
THEOREM TypeCorrect == Spec => []TypeOK
<1>1. IInv => TypeOK
  BY DEF IInv
<1>2. QED BY <1>1, Invariant, PTL

\* An audit row is deleted only after its copy exists (auditRetention.ts).
THEOREM ArchiveFirst == Spec => []NothingUncopied
<1>1. IInv => NothingUncopied
  BY DEF IInv
<1>2. QED BY <1>1, Invariant, PTL

\* Receipts count a deleted audit row at most once, and no other row.
THEOREM ReceiptsCountOnce == Spec => []CountedOnce
<1>1. IInv => CountedOnce
  BY DEF IInv
<1>2. QED BY <1>1, Invariant, PTL

\* An object without a row is a photo that went with its submission.
THEOREM ObjectsFirst == Spec => []OrphansAreCascaded
<1>1. IInv => OrphansAreCascaded
  BY DEF IInv
<1>2. QED BY <1>1, Invariant, PTL

\* Organisations held since before the passes under way lose nothing.
THEOREM HeldIsKept == Spec => HoldsProtect
<1>1. IInv /\ [Next]_vars => [\A r \in Rows : Protected(Owner[r]) => ~Loses(r)]_vars
  BY ProtectedStep DEF IInv
<1>2. QED BY <1>1, Invariant, PTL DEF Spec, HoldsProtect
=============================================================================
