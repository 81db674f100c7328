--------------------------- MODULE PdfJobs_proofs ---------------------------
(* Theorems about PdfJobs, for any number of jobs, workers, attempts and      *)
(* receives and any visibility timeout.                                       *)
EXTENDS PdfJobs, TLAPS

-----------------------------------------------------------------------------
(* Type correctness.                                                          *)

LEMMA SetRowType ==
    ASSUME TypeOK, NEW j \in Jobs, NEW s \in Statuses, NEW n \in Nat, SetRow(j, s, n)
    PROVE  /\ status' \in [Jobs -> Statuses]
           /\ attempts' \in [Jobs -> Nat]
           /\ age' \in [Jobs -> 0..(StaleAfter + 1)]
           /\ undone' \in [Jobs -> BOOLEAN]
BY PdfAssumption DEF SetRow, TypeOK

LEMMA DecideType ==
    ASSUME TypeOK, NEW j \in Jobs
    PROVE  Decide(j) \in Decisions \ {"none"}
<1>1. status[j] \in Statuses
    BY DEF TypeOK
<1> QED
    BY <1>1 DEF Decide, Decisions, Statuses

LEMMA TypeInit == Init => TypeOK
BY PdfAssumption DEF Init, TypeOK, Statuses, Places, Steps, NoRow, Decisions

LEMMA TypeStep == TypeOK /\ [Next]_vars => TypeOK'
<1> SUFFICES ASSUME TypeOK, [Next]_vars
             PROVE  TypeOK'
    OBVIOUS
<1> USE PdfAssumption DEF TypeOK
<1>1. ASSUME NEW j \in Jobs, Request(j) \/ Redrive(j) \/ DrainReceive(j)
      PROVE  TypeOK'
    BY <1>1 DEF Request, Redrive, DrainReceive, Places, rowVars, queueVars, workerVars,
                drainVars, noticeVars
<1>2. ASSUME NEW w \in Workers, NEW j \in Jobs, Receive(w, j)
      PROVE  TypeOK'
    BY <1>2 DEF Receive, Steps, Beating, rowVars, drainVars, noticeVars
<1>3. ASSUME NEW w \in Workers, WorkerStep(w) \/ Crash(w)
      PROVE  TypeOK'
    <2> DEFINE j == job[w]
    <2>a. j \in Jobs /\ status[j] \in Statuses /\ attempts[j] \in Nat
        OBVIOUS
    <2> USE DEF Goto, Steps, Beating, Rendering
    <2>1. CASE ClaimRead(w)
        BY <2>1, <2>a, DecideType DEF ClaimRead, rowVars, queueVars, drainVars, noticeVars
    <2>2. CASE ClaimInsert(w)
        BY <2>2, <2>a, SetRowType DEF ClaimInsert, Statuses, queueVars, drainVars, noticeVars
    <2>3. CASE ClaimUpdate(w)
        <3>1. attempts[j] + 1 \in Nat /\ "processing" \in Statuses
            BY <2>a DEF Statuses
        <3> QED
            BY <2>3, <2>a, <3>1, SetRowType DEF ClaimUpdate, queueVars, drainVars, noticeVars
    <2>4. CASE Abandon(w)
        <3>1. CASE FailAndTell(j)
            BY <2>4, <2>a, <3>1, SetRowType
               DEF Abandon, FailAndTell, Statuses, queueVars, drainVars
        <3>2. CASE UndoneUnseen(j)
            BY <2>4, <2>a, <3>2 DEF Abandon, UndoneUnseen, queueVars, drainVars
        <3> QED BY <2>4, <3>1, <3>2 DEF Abandon
    <2>5. CASE ClaimLost(w) \/ ClaimFails(w) \/ RenderAndUpload(w) \/ WorkFails(w) \/ RecordFails(w)
               \/ Crash(w)
        BY <2>5 DEF ClaimLost, ClaimFails, RenderAndUpload, WorkFails, RecordFails, Crash,
                    rowVars, queueVars, drainVars, noticeVars
    <2>6. CASE Complete(w)
        BY <2>6, <2>a, SetRowType DEF Complete, Statuses, queueVars, drainVars, noticeVars
    <2>7. CASE Announce(w)
        BY <2>7 DEF Announce, rowVars, queueVars, drainVars
    <2>8. CASE CatchRead(w)
        BY <2>8, <2>a DEF CatchRead, NoRow, Decisions, rowVars, queueVars, drainVars, noticeVars
    <2>9. CASE RecordFailure(w)
        <3> DEFINE n == seen[w].attempts + 1
                   s == IF n >= MaxAttempts THEN "failed" ELSE "pending"
        <3>1. n \in Nat /\ s \in Statuses
            BY DEF Statuses
        <3>2. SetRow(j, s, n)
            BY <2>9 DEF RecordFailure
        <3>3. failNotices' \in [Jobs -> Nat]
            BY <2>9, <2>a DEF RecordFailure
        <3> QED
            BY <2>9, <3>1, <3>2, <3>3, SetRowType DEF RecordFailure, queueVars, drainVars
    <2>10. CASE DeleteMessage(w)
        BY <2>10 DEF DeleteMessage, Places, rowVars, drainVars, noticeVars
    <2> QED
        BY <1>3, <2>1, <2>2, <2>3, <2>4, <2>5, <2>6, <2>7, <2>8, <2>9, <2>10 DEF WorkerStep
<1>4. CASE DrainSettle
    <2>1. CASE FailAndTell(drainJob)
        BY <1>4, <2>1, SetRowType DEF DrainSettle, FailAndTell, Statuses, queueVars, workerVars
    <2>2. CASE UndoneUnseen(drainJob)
        BY <1>4, <2>2 DEF DrainSettle, UndoneUnseen, queueVars, workerVars
    <2>3. CASE ~Failable(drainJob)
        BY <1>4, <2>3 DEF DrainSettle, rowVars, queueVars, workerVars
    <2> QED BY <1>4, <2>1, <2>2, <2>3 DEF DrainSettle
<1>5. CASE DrainDelete \/ DrainFails
    BY <1>5 DEF DrainDelete, DrainFails, Places, rowVars, queueVars, workerVars, noticeVars
<1>6. CASE Tick
    BY <1>6 DEF Tick, IsStale, workerVars, drainVars, noticeVars
<1>7. CASE UNCHANGED vars
    BY <1>7 DEF vars, rowVars, queueVars, workerVars, drainVars, noticeVars
<1> QED
    BY <1>1, <1>2, <1>3, <1>4, <1>5, <1>6, <1>7 DEF Next

\* Every variable keeps the type of the column or program state it stands for.
THEOREM TypeCorrect == Spec => []TypeOK
BY TypeInit, TypeStep, PTL DEF Spec

-----------------------------------------------------------------------------
(* The strengthening for a message that reaches one handler at a time.        *)

Busy(w) == pc[w] # "idle"

\* A handler's message is hidden, so nobody else has it; the drain's is in the DLQ.
SoleHandler ==
    /\ \A w \in Workers : Busy(w) => hide[job[w]] > 0 /\ place[job[w]] = "queue"
    /\ \A w1, w2 \in Workers : Busy(w1) /\ Busy(w2) /\ job[w1] = job[w2] => w1 = w2
    /\ drainPc # "idle" => place[drainJob] = "dlq"

\* The heartbeat keeps renewing the whole visibility timeout.
Renewed == \A w \in Workers : pc[w] \in Beating => hide[job[w]] = Visibility

\* Each step of a handler finds the row as the steps before it left it.
Held(w) ==
    /\ pc[w] = "read" /\ status[job[w]] = "processing" => IsStale(job[w])
    /\ pc[w] = "write" => /\ Unchanged(w)
                          /\ seen[w].status \in {"none", "pending", "processing"}
                          /\ seen[w].decision = "abandon" => seen[w].attempts >= MaxAttempts
    /\ pc[w] \in Rendering => status[job[w]] = "processing"
    /\ pc[w] = "announce" => status[job[w]] = "completed"
    /\ pc[w] = "settled" => status[job[w]] \in {"completed", "failed"} \/ undone[job[w]]
    /\ pc[w] = "record" => Unchanged(w)

DrainIsPast == drainPc = "delete" => ~Failable(drainJob) \/ undone[drainJob]

\* A failed job that may still be delivered has no attempt left.
Exhaustion(j) == status[j] = "failed" /\ place[j] = "queue" => Exhausted(j)

\* A processing row that nobody renders will be stale when its message reappears.
Ages(j) ==
    status[j] = "processing" /\ (\A w \in Workers : job[w] = j => pc[w] \notin Rendering)
        => IsStale(j) \/ age[j] + hide[j] >= Visibility

Told(j)     == failNotices[j] > 0 <=> status[j] = "failed"
Moves(j)    == /\ status[j] \in {"pending", "processing"} => place[j] \in {"queue", "dlq"} \/ undone[j]
               /\ place[j] = "none" => status[j] = "none"
RowGood(j)  == Exhaustion(j) /\ Ages(j) /\ Told(j) /\ Moves(j)

SingleInv ==
    /\ TypeOK /\ SoleHandler /\ Renewed /\ DrainIsPast
    /\ \A w \in Workers : Held(w)
    /\ \A j \in Jobs : RowGood(j)

\* The assumptions of a queue that delivers a message to one handler at a time
\* and hides it for longer than a row takes to become stale (300 s and 180 s).
OneAtATime == ~DuplicateReceives /\ Visibility > StaleAfter

LEMMA SingleInit == Init => SingleInv
BY TypeInit, PdfAssumption
   DEF Init, SingleInv, SoleHandler, Busy, Renewed, DrainIsPast, Held, RowGood, Exhaustion,
       Ages, Told, Moves, Rendering, Beating, Failable

-----------------------------------------------------------------------------
(* What a handler's step can touch: its own progress and its own job's row.   *)

LEMMA WorkerFrame ==
    ASSUME TypeOK, NEW w \in Workers, WorkerStep(w) \/ Crash(w)
    PROVE  /\ job' = job /\ hide' = hide /\ drainPc' = drainPc /\ drainJob' = drainJob
           /\ Busy(w)
           /\ pc'[w] \in Beating => pc[w] \in Beating
           /\ pc'[w] # "read"
           /\ \A v \in Workers \ {w} : pc'[v] = pc[v] /\ seen'[v] = seen[v]
           /\ pc'[w] # "idle" => place' = place
<1> USE DEF TypeOK, Goto, Busy, Beating, Rendering, queueVars, drainVars
<1>1. CASE ClaimRead(w) \/ ClaimInsert(w) \/ ClaimUpdate(w) \/ Abandon(w) \/ ClaimLost(w)
           \/ ClaimFails(w)
    BY <1>1 DEF ClaimRead, ClaimInsert, ClaimUpdate, Abandon, ClaimLost, ClaimFails
<1>2. CASE RenderAndUpload(w) \/ Complete(w) \/ Announce(w) \/ WorkFails(w)
    BY <1>2 DEF RenderAndUpload, Complete, Announce, WorkFails
<1>3. CASE CatchRead(w) \/ RecordFailure(w) \/ RecordFails(w) \/ DeleteMessage(w) \/ Crash(w)
    BY <1>3 DEF CatchRead, RecordFailure, RecordFails, DeleteMessage, Crash
<1> QED BY <1>1, <1>2, <1>3 DEF WorkerStep

LEMMA WorkerRows ==
    ASSUME TypeOK, NEW w \in Workers, WorkerStep(w) \/ Crash(w), NEW j \in Jobs, j # job[w]
    PROVE  /\ status'[j] = status[j] /\ attempts'[j] = attempts[j] /\ age'[j] = age[j]
           /\ undone'[j] = undone[j]
           /\ place'[j] = place[j] /\ failNotices'[j] = failNotices[j]
<1> USE DEF TypeOK, SetRow, rowVars, queueVars, noticeVars
<1>1. CASE ClaimRead(w) \/ ClaimLost(w) \/ ClaimFails(w) \/ RenderAndUpload(w) \/ Announce(w)
           \/ WorkFails(w) \/ CatchRead(w) \/ RecordFails(w) \/ Crash(w)
    BY <1>1 DEF ClaimRead, ClaimLost, ClaimFails, RenderAndUpload, Announce, WorkFails,
                CatchRead, RecordFails, Crash
<1>2. CASE ClaimInsert(w) \/ ClaimUpdate(w) \/ Abandon(w)
    BY <1>2 DEF ClaimInsert, ClaimUpdate, Abandon, FailAndTell, UndoneUnseen
<1>3. CASE Complete(w) \/ RecordFailure(w) \/ DeleteMessage(w)
    BY <1>3 DEF Complete, RecordFailure, DeleteMessage
<1> QED BY <1>1, <1>2, <1>3 DEF WorkerStep

\* The row facts that a handler's step re-establishes for its own job.
OwnRow(w) ==
    LET j == job[w] IN
    /\ Held(w)
    /\ Exhaustion(j) /\ Told(j) /\ Moves(j)
    /\ status[j] = "processing" => IsStale(j) \/ age[j] + hide[j] >= Visibility

\* What a write of its own row leaves: the new status and attempts, just updated.
LEMMA SetRowValue ==
    ASSUME TypeOK, NEW j \in Jobs, NEW s, NEW n, SetRow(j, s, n)
    PROVE  status'[j] = s /\ attempts'[j] = n /\ age'[j] = 0
BY DEF SetRow, TypeOK

LEMMA OwnRowStep ==
    ASSUME SingleInv, TypeOK', NEW w \in Workers, WorkerStep(w) \/ Crash(w)
    PROVE  OwnRow(w)'
<1> DEFINE j == job[w]
<1>a. /\ j \in Jobs /\ job'[w] = j /\ seen[w].attempts \in Nat /\ attempts[j] \in Nat
      /\ age'[j] \in Nat /\ Visibility \in Nat /\ MaxAttempts \in Nat \ {0}
      /\ failNotices[j] \in Nat
    BY PdfAssumption, WorkerFrame DEF SingleInv, TypeOK
<1>b. Held(w) /\ Exhaustion(j) /\ Told(j) /\ Moves(j)
    BY <1>a DEF SingleInv, RowGood
<1>c. place[j] = "queue"
    BY WorkerFrame DEF SingleInv, SoleHandler
<1>d. pc[w] \in Beating => hide'[j] = Visibility
    BY WorkerFrame DEF SingleInv, Renewed
<1>e. \A s, n : SetRow(j, s, n) => status'[j] = s /\ attempts'[j] = n
    BY <1>a, SetRowValue DEF SingleInv
<1>f. pc'[w] # "idle" => place'[j] = "queue"
    BY <1>c, WorkerFrame DEF SingleInv
<1>g. pc \in [Workers -> Steps] /\ seen \in [Workers -> [status : Statuses, attempts : Nat, decision : Decisions]]
      /\ failNotices \in [Jobs -> Nat]
    BY DEF SingleInv, TypeOK
<1>u. undone \in [Jobs -> BOOLEAN]
    BY DEF SingleInv, TypeOK
\* A handler that is done leaves the row to age as it did.
<1>h. pc[w] = "settled" /\ status[j] = "processing" => IsStale(j) \/ age[j] + hide[j] >= Visibility
    <2>1. pc[w] = "settled" => \A v \in Workers : job[v] = j => pc[v] \notin Rendering
        BY DEF SingleInv, SoleHandler, Busy, Rendering
    <2> QED BY <1>a, <2>1 DEF SingleInv, RowGood, Ages
<1>i. hide'[j] = hide[j]
    BY WorkerFrame DEF SingleInv
<1> SUFFICES /\ status'[j] = "failed" /\ place'[j] = "queue" => attempts'[j] >= MaxAttempts
             /\ failNotices'[j] > 0 <=> status'[j] = "failed"
             /\ status'[j] \in {"pending", "processing"} =>
                    place'[j] \in {"queue", "dlq"} \/ undone'[j]
             /\ place'[j] # "none"
             /\ Held(w)'
             /\ status'[j] = "processing" =>
                    \/ pc[w] \in Beating
                    \/ pc[w] = "settled" /\ status[j] = "processing" /\ age'[j] = age[j]
    BY <1>a, <1>d, <1>h, <1>i DEF OwnRow, Exhaustion, Exhausted, Told, Moves, IsStale
<1> USE <1>a, <1>b, <1>c, <1>g
    DEF Goto, Held, Exhaustion, Exhausted, Told, Moves, Rendering, Beating, Unchanged
<1>1. CASE ClaimRead(w)
    BY <1>1 DEF ClaimRead, Decide, Statuses, rowVars, queueVars, noticeVars, SingleInv, TypeOK
<1>2. CASE ClaimInsert(w) \/ ClaimUpdate(w)
    BY <1>2, <1>e DEF ClaimInsert, ClaimUpdate, queueVars, noticeVars
<1>3. CASE Abandon(w)
    <2>1. CASE FailAndTell(j)
        BY <1>3, <1>e, <2>1 DEF Abandon, FailAndTell, queueVars
    <2>2. CASE UndoneUnseen(j)
        <3>1. undone'[j]
            BY <2>2, <1>u DEF UndoneUnseen
        <3> QED
            BY <1>3, <2>2, <3>1 DEF Abandon, UndoneUnseen, queueVars
    <2> QED BY <1>3, <2>1, <2>2 DEF Abandon
<1>4. CASE ClaimLost(w) \/ ClaimFails(w)
    BY <1>4 DEF ClaimLost, ClaimFails, rowVars, queueVars, noticeVars
<1>5. CASE RenderAndUpload(w) \/ WorkFails(w)
    BY <1>5 DEF RenderAndUpload, WorkFails, rowVars, queueVars, noticeVars
<1>6. CASE Complete(w)
    BY <1>6, <1>e DEF Complete, queueVars, noticeVars
<1>7. CASE Announce(w)
    BY <1>7 DEF Announce, rowVars, queueVars
<1>8. CASE CatchRead(w)
    BY <1>8 DEF CatchRead, NoRow, rowVars, queueVars, noticeVars
<1>9. CASE RecordFailure(w)
    BY <1>9, <1>e DEF RecordFailure, queueVars
<1>10. CASE RecordFails(w) \/ Crash(w)
    BY <1>10 DEF Steps, RecordFails, Crash, rowVars, queueVars, noticeVars
<1>11. CASE DeleteMessage(w)
    BY <1>11 DEF DeleteMessage, rowVars, noticeVars, SingleInv, TypeOK
<1> QED
    BY <1>1, <1>2, <1>3, <1>4, <1>5, <1>6, <1>7, <1>8, <1>9, <1>10, <1>11 DEF WorkerStep

LEMMA WorkerKeeps ==
    ASSUME SingleInv, TypeOK', NEW w \in Workers, WorkerStep(w) \/ Crash(w)
    PROVE  SingleInv'
<1>a. TypeOK /\ job[w] \in Jobs
    BY DEF SingleInv, TypeOK
<1>b. \A v \in Workers \ {w} : Busy(v) => job[v] \in Jobs /\ job[v] # job[w]
    BY <1>a, WorkerFrame DEF SingleInv, SoleHandler, TypeOK
<1>1. SoleHandler'
    <2>1. \A v \in Workers : Busy(v)' => Busy(v)
        BY <1>a, WorkerFrame DEF Busy
    <2>2. \A v \in Workers : Busy(v)' => place'[job[v]] = place[job[v]]
        BY <1>a, <1>b, <2>1, WorkerFrame, WorkerRows DEF Busy
    <2>3. drainPc # "idle" => place'[drainJob] = place[drainJob]
        BY <1>a, WorkerFrame, WorkerRows DEF SingleInv, SoleHandler, TypeOK
    <2> QED
        BY <1>a, <2>1, <2>2, <2>3, WorkerFrame DEF SingleInv, SoleHandler
<1>2. Renewed'
    BY <1>a, WorkerFrame DEF SingleInv, Renewed
<1>3. DrainIsPast'
    <2>1. drainPc = "delete" => drainJob \in Jobs /\ drainJob # job[w]
        BY <1>a, WorkerFrame DEF SingleInv, SoleHandler, TypeOK
    <2> QED
        BY <1>a, <2>1, WorkerFrame, WorkerRows DEF SingleInv, DrainIsPast, Failable
<1>4. ASSUME NEW v \in Workers PROVE Held(v)'
    <2>1. CASE v = w
        BY <2>1, OwnRowStep DEF OwnRow
    <2>2. CASE v # w /\ ~Busy(v)
        BY <1>a, <2>2, WorkerFrame DEF Held, Busy, Rendering
    <2>3. CASE v # w /\ Busy(v)
        <3>1. /\ status'[job[v]] = status[job[v]] /\ attempts'[job[v]] = attempts[job[v]]
              /\ age'[job[v]] = age[job[v]] /\ undone'[job[v]] = undone[job[v]]
            BY <1>a, <1>b, <2>3, WorkerRows
        <3> QED
            BY <1>a, <2>3, <3>1, WorkerFrame DEF SingleInv, Held, Unchanged, IsStale
    <2> QED BY <2>1, <2>2, <2>3
<1>5. ASSUME NEW j \in Jobs PROVE RowGood(j)'
    <2>1. CASE j = job[w]
        <3>1. job'[w] = j
            BY <1>a, <2>1, WorkerFrame
        <3> QED
            BY <3>1, OwnRowStep DEF OwnRow, RowGood, Ages
    <2>2. CASE j # job[w]
        <3>1. Exhaustion(j) /\ Ages(j) /\ Told(j) /\ Moves(j)
            BY DEF SingleInv, RowGood
        <3>2. Exhaustion(j)' /\ Told(j)' /\ Moves(j)'
            BY <1>a, <2>2, <3>1, WorkerRows DEF Exhaustion, Exhausted, Told, Moves
        <3>3. Ages(j)'
            BY <1>a, <2>2, <3>1, WorkerRows, WorkerFrame DEF Ages, IsStale
        <3> QED BY <3>2, <3>3 DEF RowGood
    <2> QED BY <2>1, <2>2
<1> QED
    BY <1>1, <1>2, <1>3, <1>4, <1>5 DEF SingleInv

LEMMA ReceiveKeeps ==
    ASSUME OneAtATime, SingleInv, TypeOK', NEW w \in Workers, NEW j \in Jobs, Receive(w, j)
    PROVE  SingleInv'
<1>a. TypeOK /\ pc[w] = "idle" /\ hide[j] = 0 /\ place[j] = "queue" /\ Visibility \in Nat \ {0}
      /\ StaleAfter \in Nat
    BY PdfAssumption DEF SingleInv, Receive, OneAtATime
<1>b. /\ hide' = [hide EXCEPT ![j] = Visibility] /\ pc' = [pc EXCEPT ![w] = "read"]
      /\ job' = [job EXCEPT ![w] = j]
      /\ UNCHANGED <<status, attempts, age, undone, place, seen, drainPc, drainJob,
                     failNotices>>
    BY DEF Receive, rowVars, drainVars, noticeVars
<1>c. \A v \in Workers : Busy(v) => v # w /\ job[v] # j
    BY <1>a DEF SingleInv, SoleHandler, Busy
<1>1. SoleHandler'
    BY <1>a, <1>b, <1>c DEF SingleInv, SoleHandler, Busy, TypeOK
<1>2. Renewed'
    BY <1>a, <1>b, <1>c DEF SingleInv, Renewed, Busy, Beating, Rendering, TypeOK
<1>3. DrainIsPast'
    BY <1>b DEF SingleInv, DrainIsPast, Failable
<1>4. \A v \in Workers : pc[v] = "idle" => pc[v] \notin Rendering
    BY DEF Rendering
<1>5. ASSUME NEW v \in Workers PROVE Held(v)'
    <2>1. CASE v = w
        <3>1. Ages(j) /\ age[j] \in Nat
            BY <1>a DEF SingleInv, RowGood, TypeOK
        <3>2. \A u \in Workers : job[u] = j => pc[u] \notin Rendering
            BY <1>c, <1>4 DEF Busy
        <3>3. status[j] = "processing" => IsStale(j)
            BY <1>a, <3>1, <3>2 DEF Ages, IsStale, OneAtATime
        <3> QED
            BY <1>a, <1>b, <2>1, <3>3 DEF Held, Rendering, IsStale, TypeOK
    <2>2. CASE v # w
        <3>1. pc'[v] = pc[v] /\ job'[v] = job[v] /\ Held(v)
            BY <1>a, <1>b, <2>2 DEF SingleInv, TypeOK
        <3> QED
            BY <1>b, <3>1 DEF Held, Unchanged, IsStale
    <2> QED BY <2>1, <2>2
<1>6. ASSUME NEW k \in Jobs PROVE RowGood(k)'
    <2>1. Exhaustion(k) /\ Ages(k) /\ Told(k) /\ Moves(k) /\ age[k] \in Nat
        BY <1>a DEF SingleInv, RowGood, TypeOK
    <2>2. Exhaustion(k)' /\ Told(k)' /\ Moves(k)'
        BY <1>b, <2>1 DEF Exhaustion, Exhausted, Told, Moves
    <2>3. Ages(k)'
        <3>1. CASE k = j
            BY <1>a, <1>b, <2>1, <3>1 DEF Ages, IsStale, TypeOK
        <3>2. CASE k # j
            <4>1. hide'[k] = hide[k]
                BY <1>a, <1>b, <3>2 DEF TypeOK
            <4>2. ASSUME \A v \in Workers : job'[v] = k => pc'[v] \notin Rendering
                  PROVE  \A v \in Workers : job[v] = k => pc[v] \notin Rendering
                BY <1>a, <1>b, <1>4, <3>2, <4>2 DEF TypeOK
            <4> QED
                BY <1>b, <2>1, <4>1, <4>2 DEF Ages, IsStale
        <3> QED BY <3>1, <3>2
    <2> QED BY <2>2, <2>3 DEF RowGood
<1> QED
    BY <1>1, <1>2, <1>3, <1>5, <1>6 DEF SingleInv

LEMMA TickKeeps ==
    ASSUME OneAtATime, SingleInv, TypeOK', Tick
    PROVE  SingleInv'
<1>a. TypeOK /\ Visibility \in Nat \ {0} /\ StaleAfter \in Nat /\ Visibility > StaleAfter
    BY PdfAssumption DEF SingleInv, OneAtATime
<1>b. UNCHANGED <<status, attempts, undone, place, pc, job, seen, drainPc, drainJob, failNotices>>
    BY DEF Tick, workerVars, drainVars, noticeVars
<1> DEFINE live == {j \in Jobs : \E w \in Workers : job[w] = j /\ pc[w] \in Beating}
<1>c. \A j \in Jobs :
        /\ age'[j] = IF IsStale(j) THEN age[j] ELSE age[j] + 1
        /\ hide'[j] = IF j \in live THEN Visibility ELSE IF hide[j] = 0 THEN 0 ELSE hide[j] - 1
    BY DEF Tick, Beats, OneAtATime
<1>d. \A w \in Workers : pc[w] = "settled" => hide[job[w]] > 1
    BY DEF Tick, DeletesInTime, OneAtATime
<1>e. \A w \in Workers : job[w] \in Jobs /\ (pc[w] \in Beating => job[w] \in live)
    BY <1>a DEF TypeOK
<1>f. \A w \in Workers : Busy(w) => pc[w] = "settled" \/ pc[w] \in Beating
    BY <1>a DEF TypeOK, Busy, Steps
<1>g. \A j \in Jobs : age[j] \in Nat /\ hide[j] \in Nat
    BY <1>a DEF TypeOK
<1>h. \A j \in Jobs : IsStale(j) => IsStale(j)'
    BY <1>c DEF IsStale
<1>1. SoleHandler'
    <2>1. ASSUME NEW w \in Workers, Busy(w) PROVE hide'[job[w]] > 0
        BY <1>a, <1>c, <1>d, <1>e, <1>f, <1>g, <2>1
    <2> QED
        BY <1>b, <2>1 DEF SingleInv, SoleHandler, Busy
<1>2. Renewed'
    BY <1>b, <1>c, <1>e DEF SingleInv, Renewed
<1>3. DrainIsPast'
    BY <1>b DEF SingleInv, DrainIsPast, Failable
<1>4. ASSUME NEW w \in Workers PROVE Held(w)'
    <2>1. Held(w) /\ job[w] \in Jobs
        BY <1>e DEF SingleInv
    <2> QED
        BY <1>b, <1>h, <2>1 DEF Held, Unchanged
<1>5. ASSUME NEW j \in Jobs PROVE RowGood(j)'
    <2>1. Exhaustion(j) /\ Ages(j) /\ Told(j) /\ Moves(j)
        BY DEF SingleInv, RowGood
    <2>2. Exhaustion(j)' /\ Told(j)' /\ Moves(j)'
        BY <1>b, <2>1 DEF Exhaustion, Exhausted, Told, Moves
    <2>3. Ages(j)'
        <3>1. CASE IsStale(j)
            BY <1>h, <3>1 DEF Ages
        <3>2. CASE ~IsStale(j) /\ j \in live
            BY <1>a, <1>c, <1>g, <3>2 DEF Ages
        <3>3. CASE ~IsStale(j) /\ j \notin live
            BY <1>a, <1>b, <1>c, <1>g, <2>1, <3>3 DEF Ages, IsStale
        <3> QED BY <3>1, <3>2, <3>3
    <2> QED BY <2>2, <2>3 DEF RowGood
<1> QED
    BY <1>1, <1>2, <1>3, <1>4, <1>5 DEF SingleInv

\* Steps of the queue and the drain that change at most where a message is.
LEMMA QueueKeeps ==
    ASSUME SingleInv, TypeOK', NEW j \in Jobs,
           Request(j) \/ Redrive(j) \/ DrainReceive(j) \/ DrainDelete \/ DrainFails
    PROVE  SingleInv'
<1>a. TypeOK
    BY DEF SingleInv
<1>b. UNCHANGED <<status, attempts, age, undone, hide, pc, job, seen, failNotices>>
    BY DEF Request, Redrive, DrainReceive, DrainDelete, DrainFails, rowVars, queueVars,
           workerVars, noticeVars
<1>c. \A k \in Jobs : \/ place'[k] = place[k]
                      \/ place[k] = "none" /\ place'[k] = "queue"
                      \/ place[k] = "queue" /\ hide[k] = 0 /\ place'[k] = "dlq"
                      \/ place[k] = "dlq" /\ place'[k] = "gone"
                         /\ (~Failable(k) \/ undone[k])
    <2>1. CASE Request(j)
        BY <1>a, <2>1 DEF Request, TypeOK
    <2>2. CASE Redrive(j)
        BY <1>a, <2>2 DEF Redrive, TypeOK
    <2>3. CASE DrainReceive(j) \/ DrainFails
        BY <2>3 DEF DrainReceive, DrainFails, queueVars
    <2>4. CASE DrainDelete
        BY <1>a, <2>4 DEF DrainDelete, SingleInv, SoleHandler, DrainIsPast, TypeOK
    <2> QED BY <2>1, <2>2, <2>3, <2>4
<1>1. SoleHandler'
    <2>1. drainPc' # "idle" => place'[drainJob'] = "dlq"
        <3>1. CASE Request(j) \/ Redrive(j)
            BY <1>a, <1>c, <3>1 DEF Request, Redrive, drainVars, SingleInv, SoleHandler, TypeOK
        <3>2. CASE DrainReceive(j) \/ DrainDelete \/ DrainFails
            BY <3>2 DEF DrainReceive, DrainDelete, DrainFails, queueVars
        <3> QED BY <3>1, <3>2
    <2>2. \A w \in Workers : Busy(w) => place'[job[w]] = "queue"
        <3>1. ASSUME NEW w \in Workers, Busy(w)
              PROVE  job[w] \in Jobs /\ place[job[w]] = "queue" /\ hide[job[w]] # 0
            BY <1>a, <3>1 DEF SingleInv, SoleHandler, TypeOK
        <3> QED BY <1>c, <3>1
    <2> QED
        BY <1>b, <2>1, <2>2 DEF SingleInv, SoleHandler, Busy
<1>2. Renewed' /\ \A w \in Workers : Held(w)'
    BY <1>b DEF SingleInv, Renewed, Held, Unchanged, IsStale
<1>3. DrainIsPast'
    BY <1>b DEF Request, Redrive, DrainReceive, DrainDelete, DrainFails, drainVars, SingleInv,
                DrainIsPast, Failable
<1>4. ASSUME NEW k \in Jobs PROVE RowGood(k)'
    <2>1. Exhaustion(k) /\ Ages(k) /\ Told(k) /\ Moves(k)
        BY DEF SingleInv, RowGood
    <2>2. Ages(k)' /\ Told(k)'
        BY <1>b, <2>1 DEF Ages, Told, IsStale
    <2>3. Moves(k)'
        BY <1>b, <1>c, <2>1 DEF Moves, Failable
    <2>4. Exhaustion(k)'
        BY <1>b, <1>c, <2>1 DEF Exhaustion, Exhausted, Moves
    <2> QED BY <2>2, <2>3, <2>4 DEF RowGood
<1> QED
    BY <1>1, <1>2, <1>3, <1>4 DEF SingleInv

LEMMA DrainSettleKeeps ==
    ASSUME SingleInv, TypeOK', DrainSettle
    PROVE  SingleInv'
<1> DEFINE d == drainJob
<1>a. TypeOK /\ d \in Jobs /\ place[d] = "dlq" /\ drainPc' = "delete" /\ d' = d
    BY DEF SingleInv, TypeOK, SoleHandler, DrainSettle
<1>b. UNCHANGED <<place, hide, pc, job, seen>>
    BY DEF DrainSettle, queueVars, workerVars
<1>c. \A j \in Jobs \ {d} : /\ status'[j] = status[j] /\ attempts'[j] = attempts[j]
                            /\ age'[j] = age[j] /\ failNotices'[j] = failNotices[j]
                            /\ undone'[j] = undone[j]
    BY <1>a DEF DrainSettle, FailAndTell, UndoneUnseen, SetRow, TypeOK, rowVars
<1>d. (~Failable(d)' \/ undone'[d]) /\ Told(d)'
    <2>1. Told(d) /\ failNotices[d] \in Nat
        BY <1>a DEF SingleInv, RowGood, TypeOK
    <2>2. CASE FailAndTell(d)
        BY <1>a, <2>1, <2>2 DEF FailAndTell, Failable, SetRow, Told, TypeOK
    <2>3. CASE UndoneUnseen(d)
        BY <1>a, <2>1, <2>3 DEF UndoneUnseen, Told, TypeOK
    <2>4. CASE ~Failable(d)
        BY <1>a, <2>1, <2>4 DEF DrainSettle, Failable, Told, rowVars
    <2> QED BY <2>2, <2>3, <2>4 DEF DrainSettle
<1>f. status'[d] = "processing" => status[d] = "processing" /\ age'[d] = age[d]
    <2>1. CASE FailAndTell(d)
        BY <1>a, <2>1 DEF FailAndTell, SetRow, TypeOK
    <2>2. CASE UndoneUnseen(d) \/ ~Failable(d)
        BY <2>2 DEF DrainSettle, UndoneUnseen, rowVars
    <2> QED BY <2>1, <2>2 DEF DrainSettle
<1>e. \A w \in Workers : Busy(w) => job[w] \in Jobs \ {d}
    BY <1>a DEF SingleInv, SoleHandler, TypeOK
<1>1. SoleHandler' /\ Renewed' /\ DrainIsPast'
    BY <1>a, <1>b, <1>d DEF SingleInv, SoleHandler, Busy, Renewed, DrainIsPast, Failable
<1>2. ASSUME NEW w \in Workers PROVE Held(w)'
    <2>1. CASE ~Busy(w)
        BY <1>b, <2>1 DEF Held, Busy, Rendering
    <2>2. CASE Busy(w)
        BY <1>b, <1>c, <1>e, <2>2 DEF SingleInv, Held, Unchanged, IsStale
    <2> QED BY <2>1, <2>2
<1>3. ASSUME NEW j \in Jobs PROVE RowGood(j)'
    <2>1. Exhaustion(j) /\ Ages(j) /\ Told(j) /\ Moves(j)
        BY DEF SingleInv, RowGood
    <2>2. CASE j = d
        <3>1. Ages(d)'
            BY <1>a, <1>b, <1>f, <2>1, <2>2 DEF Ages, IsStale
        <3> QED
            BY <1>a, <1>b, <1>d, <2>1, <2>2, <3>1 DEF RowGood, Exhaustion, Moves, Failable
    <2>3. CASE j # d
        BY <1>b, <1>c, <2>1, <2>3 DEF RowGood, Exhaustion, Exhausted, Ages, Told, Moves, IsStale
    <2> QED BY <2>2, <2>3
<1> QED
    BY <1>1, <1>2, <1>3 DEF SingleInv

LEMMA SingleStep == OneAtATime /\ SingleInv /\ [Next]_vars => SingleInv'
<1> SUFFICES ASSUME OneAtATime, SingleInv, [Next]_vars
             PROVE  SingleInv'
    OBVIOUS
<1>a. TypeOK'
    BY TypeStep DEF SingleInv
<1>1. CASE \E w \in Workers : WorkerStep(w) \/ Crash(w)
    BY <1>a, <1>1, WorkerKeeps
<1>2. CASE \E w \in Workers, j \in Jobs : Receive(w, j)
    BY <1>a, <1>2, ReceiveKeeps
<1>3. CASE Tick
    BY <1>a, <1>3, TickKeeps
<1>4. CASE (\E j \in Jobs : Request(j) \/ Redrive(j) \/ DrainReceive(j)) \/ DrainDelete \/ DrainFails
    <2>1. PICK j \in Jobs : Request(j) \/ Redrive(j) \/ DrainReceive(j) \/ DrainDelete \/ DrainFails
        BY <1>4, PdfAssumption
    <2> QED BY <1>a, <2>1, QueueKeeps
<1>5. CASE DrainSettle
    BY <1>a, <1>5, DrainSettleKeeps
<1>6. CASE UNCHANGED vars
    BY <1>6 DEF vars, rowVars, queueVars, workerVars, drainVars, noticeVars, SingleInv, TypeOK,
                SoleHandler, Busy, Renewed, DrainIsPast, Failable, Held, Unchanged, RowGood,
                Exhaustion, Exhausted, Ages, IsStale, Told, Moves
<1> QED
    BY <1>1, <1>2, <1>3, <1>4, <1>5, <1>6 DEF Next

LEMMA SingleHolds == ASSUME OneAtATime PROVE Spec => []SingleInv
BY SingleInit, SingleStep, PTL DEF Spec

\* While one handler at a time has a message, the requester has been told of a
\* failure exactly when the job is failed, whoever failed it.
THEOREM FailureTold == ASSUME OneAtATime PROVE Spec => []FailureToldIffFailed
<1>1. SingleInv => FailureToldIffFailed
    BY DEF SingleInv, RowGood, Told, FailureToldIffFailed
<1> QED BY <1>1, SingleHolds, PTL

\* While one handler at a time has a message, an unfinished job loses its message
\* only to a handler or drain whose failing of it was rolled back unnoticed.
THEOREM NothingStranded == ASSUME OneAtATime PROVE Spec => []NoStrandedJob
<1>1. SingleInv => NoStrandedJob
    BY DEF SingleInv, RowGood, Moves, NoStrandedJob
<1> QED BY <1>1, SingleHolds, PTL

\* If a hidden message outlasts the staleness bound, a redelivery that finds the
\* row processing finds it stale.
THEOREM RedeliveryStale == ASSUME OneAtATime PROVE Spec => []RedeliveryFindsStale
<1>1. SingleInv => RedeliveryFindsStale
    BY DEF SingleInv, Held, RedeliveryFindsStale
<1> QED BY <1>1, SingleHolds, PTL

-----------------------------------------------------------------------------
(* What holds under every delivery anomaly.                                   *)

\* Notices are never taken back, and whoever fails a job adds one.
LEMMA RowStep ==
    ASSUME TypeOK, [Next]_vars, NEW j \in Jobs
    PROVE  /\ failNotices'[j] >= failNotices[j]
           /\ status'[j] = "failed" => status[j] = "failed" \/ failNotices'[j] > 0
<1>a. failNotices[j] \in Nat
    BY DEF TypeOK
<1>1. ASSUME NEW w \in Workers, WorkerStep(w) \/ Crash(w)
      PROVE  /\ failNotices'[j] >= failNotices[j]
             /\ status'[j] = "failed" => status[j] = "failed" \/ failNotices'[j] > 0
    <2>1. CASE j # job[w]
        BY <1>a, <1>1, <2>1, WorkerRows
    <2>2. CASE j = job[w]
        <3> USE <1>a, <2>2 DEF SetRow, TypeOK, noticeVars, rowVars
        <3>1. CASE ClaimRead(w) \/ ClaimLost(w) \/ ClaimFails(w) \/ RenderAndUpload(w)
                   \/ Announce(w) \/ WorkFails(w)
            BY <3>1 DEF ClaimRead, ClaimLost, ClaimFails, RenderAndUpload, Announce, WorkFails
        <3>2. CASE CatchRead(w) \/ RecordFails(w) \/ Crash(w) \/ DeleteMessage(w)
            BY <3>2 DEF CatchRead, RecordFails, Crash, DeleteMessage
        <3>3. CASE ClaimInsert(w) \/ ClaimUpdate(w) \/ Complete(w)
            BY <3>3 DEF ClaimInsert, ClaimUpdate, Complete
        <3>4. CASE Abandon(w)
            BY <3>4 DEF Abandon, FailAndTell, UndoneUnseen
        <3>5. CASE RecordFailure(w)
            BY <3>5 DEF RecordFailure
        <3> QED BY <1>1, <3>1, <3>2, <3>3, <3>4, <3>5 DEF WorkerStep
    <2> QED BY <2>1, <2>2
<1>2. CASE DrainSettle
    BY <1>a, <1>2 DEF DrainSettle, FailAndTell, UndoneUnseen, SetRow, TypeOK, rowVars
<1>3. CASE \/ \E k \in Jobs : Request(k) \/ Redrive(k) \/ DrainReceive(k)
           \/ \E w \in Workers, k \in Jobs : Receive(w, k)
           \/ DrainDelete \/ DrainFails \/ Tick
    BY <1>a, <1>3 DEF Request, Redrive, DrainReceive, Receive, DrainDelete, DrainFails, Tick,
                      rowVars, noticeVars
<1>4. CASE UNCHANGED vars
    BY <1>a, <1>4 DEF vars, rowVars, noticeVars
<1> QED
    BY <1>1, <1>2, <1>3, <1>4 DEF Next

\* However messages are delivered, a failed job's requester has been told.
THEOREM FailedTold == Spec => []FailedIsTold
<1>1. Init => FailedIsTold
    BY DEF Init, FailedIsTold
<1>2. TypeOK /\ FailedIsTold /\ [Next]_vars => FailedIsTold'
    <2> SUFFICES ASSUME TypeOK, FailedIsTold, [Next]_vars, NEW j \in Jobs
                 PROVE  status'[j] = "failed" => failNotices'[j] > 0
        BY DEF FailedIsTold
    <2>1. failNotices[j] \in Nat /\ failNotices'[j] \in Nat
        BY TypeStep DEF TypeOK
    <2> QED
        BY <2>1, RowStep DEF FailedIsTold
<1> QED
    BY <1>1, <1>2, TypeCorrect, PTL DEF Spec

\* A handler about to claim an existing row did not read it completed.
ClaimsUnfinished ==
    \A w \in Workers : pc[w] = "write" => seen[w].status # "completed"

LEMMA ClaimsUnfinishedHolds == Spec => []ClaimsUnfinished
<1>1. Init => ClaimsUnfinished
    BY DEF Init, ClaimsUnfinished
<1>2. TypeOK /\ ClaimsUnfinished /\ [Next]_vars => ClaimsUnfinished'
    <2> SUFFICES ASSUME TypeOK, ClaimsUnfinished, [Next]_vars
                 PROVE  ClaimsUnfinished'
        OBVIOUS
    <2>1. ASSUME NEW w \in Workers, WorkerStep(w) \/ Crash(w)
          PROVE  ClaimsUnfinished'
        <3>1. pc'[w] = "write" => seen'[w].status # "completed"
            <4> USE DEF Goto, TypeOK, ClaimsUnfinished
            <4>1. CASE ClaimRead(w)
                BY <4>1 DEF ClaimRead, Decide, Statuses
            <4>2. CASE ClaimInsert(w) \/ ClaimUpdate(w) \/ Abandon(w) \/ ClaimLost(w)
                       \/ ClaimFails(w) \/ RenderAndUpload(w)
                BY <4>2 DEF ClaimInsert, ClaimUpdate, Abandon, ClaimLost, ClaimFails,
                            RenderAndUpload
            <4>3. CASE Complete(w) \/ Announce(w) \/ WorkFails(w) \/ CatchRead(w)
                       \/ RecordFailure(w) \/ RecordFails(w) \/ DeleteMessage(w) \/ Crash(w)
                BY <4>3 DEF Complete, Announce, WorkFails, CatchRead, RecordFailure,
                            RecordFails, DeleteMessage, Crash
            <4> QED BY <2>1, <4>1, <4>2, <4>3 DEF WorkerStep
        <3> QED
            BY <2>1, <3>1, WorkerFrame DEF ClaimsUnfinished
    <2>2. ASSUME NEW w \in Workers, NEW j \in Jobs, Receive(w, j)
          PROVE  ClaimsUnfinished'
        BY <2>2 DEF Receive, ClaimsUnfinished, TypeOK
    <2>3. CASE \/ \E k \in Jobs : Request(k) \/ Redrive(k) \/ DrainReceive(k)
               \/ DrainSettle \/ DrainDelete \/ DrainFails \/ Tick
        BY <2>3 DEF Request, Redrive, DrainReceive, DrainSettle, DrainDelete, DrainFails, Tick,
                    workerVars, ClaimsUnfinished
    <2>4. CASE UNCHANGED vars
        BY <2>4 DEF vars, workerVars, ClaimsUnfinished
    <2> QED
        BY <2>1, <2>2, <2>3, <2>4 DEF Next
<1> QED
    BY <1>1, <1>2, TypeCorrect, PTL DEF Spec

\* However messages are delivered, a finished report is taken back only by a
\* handler that counts a failure on its row.
THEOREM CompletionKept == Spec => OnlyCatchUndoesCompletion
<1>1. ASSUME TypeOK, ClaimsUnfinished, [Next]_vars, NEW j \in Jobs,
             status[j] = "completed", status'[j] # "completed"
      PROVE  \E w \in Workers : job[w] = j /\ pc[w] = "record" /\ pc'[w] = "idle"
    <2>1. ASSUME NEW w \in Workers, WorkerStep(w) \/ Crash(w)
          PROVE  job[w] = j /\ pc[w] = "record" /\ pc'[w] = "idle"
        <3>1. job[w] = j
            BY <1>1, <2>1, WorkerRows
        <3>2. CASE RecordFailure(w)
            BY <1>1, <3>1, <3>2 DEF RecordFailure, Goto, TypeOK
        <3>3. ~(ClaimInsert(w) \/ ClaimUpdate(w) \/ Abandon(w))
            BY <1>1, <3>1 DEF ClaimInsert, ClaimUpdate, Abandon, Unchanged, ClaimsUnfinished,
                              UndoneUnseen
        <3>4. ~Complete(w)
            BY <1>1, <3>1 DEF Complete, SetRow, TypeOK
        <3>5. ~(ClaimRead(w) \/ ClaimLost(w) \/ ClaimFails(w) \/ RenderAndUpload(w)
                \/ Announce(w) \/ WorkFails(w))
            BY <1>1 DEF ClaimRead, ClaimLost, ClaimFails, RenderAndUpload, Announce, WorkFails,
                        rowVars
        <3>6. ~(CatchRead(w) \/ RecordFails(w) \/ DeleteMessage(w) \/ Crash(w))
            BY <1>1 DEF CatchRead, RecordFails, DeleteMessage, Crash, rowVars
        <3> QED
            BY <2>1, <3>2, <3>3, <3>4, <3>5, <3>6 DEF WorkerStep
    <2>2. ~DrainSettle
        BY <1>1 DEF DrainSettle, FailAndTell, UndoneUnseen, Failable, SetRow, TypeOK, rowVars
    <2>3. ~(\/ \E k \in Jobs : Request(k) \/ Redrive(k) \/ DrainReceive(k)
            \/ \E w \in Workers, k \in Jobs : Receive(w, k)
            \/ DrainDelete \/ DrainFails \/ Tick \/ UNCHANGED vars)
        BY <1>1 DEF Request, Redrive, DrainReceive, Receive, DrainDelete, DrainFails, Tick,
                    vars, rowVars
    <2> QED
        BY <1>1, <2>1, <2>2, <2>3 DEF Next
<1>2. TypeOK /\ ClaimsUnfinished /\ [Next]_vars =>
      [\A j \in Jobs : status[j] = "completed" /\ status'[j] # "completed" =>
          \E w \in Workers : job[w] = j /\ pc[w] = "record" /\ pc'[w] = "idle"]_vars
    BY <1>1
<1> QED
    BY <1>2, TypeCorrect, ClaimsUnfinishedHolds, PTL DEF Spec, OnlyCatchUndoesCompletion
=============================================================================
