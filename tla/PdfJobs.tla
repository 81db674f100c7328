------------------------------ MODULE PdfJobs ------------------------------
(* Asynchronous PDF reports: the request that enqueues a job (sqs.client.ts,  *)
(* report.controller.ts), the queue, the worker's claim, render, completion   *)
(* and failure paths (worker.ts, pdfJobClaim.ts) and the DLQ drain.           *)
(*                                                                            *)
(* Time is counted in heartbeat intervals (60 s): a tick ages every row and   *)
(* every hidden message, and live handlers extend the visibility of theirs.   *)
EXTENDS Naturals, FiniteSets

CONSTANTS Jobs,
          Workers,            \* concurrent processMessage calls
          MaxAttempts,        \* pdf_jobs.max_attempts (3)
          MaxReceives,        \* the queue's maxReceiveCount
          Visibility,         \* VISIBILITY_TIMEOUT_SECONDS in ticks (5)
          StaleAfter,         \* PDF_JOB_STALE_MS in ticks (3)
          DuplicateReceives   \* whether a message may reach two handlers at once: a
                              \* hidden message delivered again, a heartbeat lost, a
                              \* delete still under way when the message reappears

ASSUME PdfAssumption == /\ Jobs # {}
                        /\ MaxAttempts \in Nat \ {0}
                        /\ MaxReceives \in Nat \ {0}
                        /\ Visibility \in Nat
                        /\ StaleAfter \in Nat
                        /\ DuplicateReceives \in BOOLEAN

VARIABLES
    status,      \* pdf_jobs.status, "none" while there is no row
    attempts,    \* pdf_jobs.attempts
    age,         \* ticks since pdf_jobs.updated_at, up to StaleAfter + 1
    undone,      \* history: the job was last settled as failed by a transaction that
                 \* was rolled back unnoticed
    place,       \* where the job's message is: "none", "queue", "dlq", "gone"
    hide,        \* ticks until the message is visible
    receives,    \* its receive count
    pc,          \* progress of a handler through processMessage
    job,         \* the job it handles
    seen,        \* the row as its claim or catch path read it
    drainPc,     \* progress of the DLQ drain through one message
    drainJob,
    readyNotices,  \* report_ready deliveries to the requester
    failNotices    \* report_failed notifications to the requester

rowVars    == <<status, attempts, age, undone>>
queueVars  == <<place, hide, receives>>
workerVars == <<pc, job, seen>>
drainVars  == <<drainPc, drainJob>>
noticeVars == <<readyNotices, failNotices>>
vars == <<rowVars, queueVars, workerVars, drainVars, noticeVars>>

Statuses == {"none", "pending", "processing", "completed", "failed"}
Places   == {"none", "queue", "dlq", "gone"}
Decisions == {"none", "insert", "process", "retry", "skip", "abandon", "defer"}
\* A handler renders from its claim to its completion or failure write.
Rendering == {"render", "complete"}
\* The heartbeat runs from the start of processPdfJob to its finally block.
Beating  == {"read", "write", "announce", "catch", "record"} \cup Rendering
Steps    == {"idle", "settled"} \cup Beating

NoRow == [status |-> "none", attempts |-> 0, decision |-> "none"]

Init ==
    /\ status = [j \in Jobs |-> "none"]
    /\ attempts = [j \in Jobs |-> 0]
    /\ age = [j \in Jobs |-> 0]
    /\ undone = [j \in Jobs |-> FALSE]
    /\ place = [j \in Jobs |-> "none"]
    /\ hide = [j \in Jobs |-> 0]
    /\ receives = [j \in Jobs |-> 0]
    /\ pc = [w \in Workers |-> "idle"]
    /\ job \in [Workers -> Jobs]
    /\ \A w1, w2 \in Workers : job[w1] = job[w2]
    /\ seen = [w \in Workers |-> NoRow]
    /\ drainPc = "idle" /\ drainJob \in Jobs
    /\ readyNotices = [j \in Jobs |-> 0]
    /\ failNotices = [j \in Jobs |-> 0]

-----------------------------------------------------------------------------
(* The queue.                                                                 *)

\* enqueuePdfJob: a message, and no row yet.  A failed enqueue is a failed request.
Request(j) ==
    /\ place[j] = "none"
    /\ place' = [place EXCEPT ![j] = "queue"]
    /\ UNCHANGED <<rowVars, hide, receives, workerVars, drainVars, noticeVars>>

Receive(w, j) ==
    /\ pc[w] = "idle"
    /\ place[j] = "queue" /\ receives[j] < MaxReceives
    /\ hide[j] = 0 \/ DuplicateReceives
    /\ hide' = [hide EXCEPT ![j] = Visibility]
    /\ receives' = [receives EXCEPT ![j] = @ + 1]
    /\ pc' = [pc EXCEPT ![w] = "read"]
    /\ job' = [job EXCEPT ![w] = j]
    /\ UNCHANGED <<rowVars, place, seen, drainVars, noticeVars>>

Redrive(j) ==
    /\ place[j] = "queue" /\ hide[j] = 0 /\ receives[j] = MaxReceives
    /\ place' = [place EXCEPT ![j] = "dlq"]
    /\ UNCHANGED <<rowVars, hide, receives, workerVars, drainVars, noticeVars>>

MutantIsStale(j) == age[j] > Visibility

\* PDF_JOB_STALE_MS: older than any live render.
IsStale(j) == age[j] > StaleAfter

\* The heartbeats that reach the queue during one tick.
Beats(live) == IF DuplicateReceives THEN SUBSET live ELSE {live}

\* Unless DuplicateReceives, the delete that follows the heartbeat is quicker
\* than the visibility timeout.
DeletesInTime == \A w \in Workers : pc[w] = "settled" => hide[job[w]] > 1

Tick ==
    /\ DuplicateReceives \/ DeletesInTime
    /\ \E beats \in Beats({j \in Jobs : \E w \in Workers : job[w] = j /\ pc[w] \in Beating}) :
         /\ age' = [j \in Jobs |-> IF IsStale(j) THEN age[j] ELSE age[j] + 1]
         /\ hide' = [j \in Jobs |-> IF j \in beats THEN Visibility
                                    ELSE IF hide[j] = 0 THEN 0 ELSE hide[j] - 1]
    /\ UNCHANGED <<status, attempts, undone, place, receives, workerVars, drainVars, noticeVars>>

-----------------------------------------------------------------------------
(* claimPdfJob: one transaction that reads the row, then writes conditionally *)
(* on what it read.                                                           *)

Goto(w, step) == pc' = [pc EXCEPT ![w] = step]

Exhausted(j) == attempts[j] >= MaxAttempts

MutantDecide(j) ==
    CASE status[j] = "none"      -> "insert"
      [] status[j] = "completed" -> "skip"
      [] status[j] = "processing" /\ ~IsStale(j) -> "defer"
      [] OTHER -> IF Exhausted(j) /\ status[j] = "processing" THEN "abandon" ELSE "retry"

\* decidePdfJobClaim.
Decide(j) ==
    CASE status[j] = "none"      -> "insert"
      [] status[j] = "completed" -> "skip"
      [] status[j] = "failed"    -> IF Exhausted(j) THEN "skip" ELSE "retry"
      [] status[j] = "processing" /\ ~IsStale(j) -> "defer"
      [] status[j] = "processing" /\ IsStale(j)  -> IF Exhausted(j) THEN "abandon" ELSE "retry"
      [] status[j] = "pending"   -> "process"

ClaimRead(w) ==
    LET j == job[w] IN
    /\ pc[w] = "read"
    /\ seen' = [seen EXCEPT ![w] = [status |-> status[j], attempts |-> attempts[j],
                                    decision |-> Decide(j)]]
    /\ CASE Decide(j) = "skip"  -> Goto(w, "settled")
         [] Decide(j) = "defer" -> Goto(w, "idle")
         [] OTHER               -> Goto(w, "write")
    /\ UNCHANGED <<rowVars, queueVars, job, drainVars, noticeVars>>

\* The row is still as read.
Unchanged(w) == LET j == job[w] IN status[j] = seen[w].status /\ attempts[j] = seen[w].attempts

SetRow(j, s, n) == /\ status' = [status EXCEPT ![j] = s]
                   /\ attempts' = [attempts EXCEPT ![j] = n]
                   /\ age' = [age EXCEPT ![j] = 0]
                   /\ undone' = [undone EXCEPT ![j] = FALSE]

ClaimInsert(w) ==
    LET j == job[w] IN
    /\ pc[w] = "write" /\ seen[w].decision = "insert"
    /\ status[j] = "none"
    /\ SetRow(j, "processing", 1)
    /\ Goto(w, "render")
    /\ UNCHANGED <<queueVars, job, seen, drainVars, noticeVars>>

ClaimUpdate(w) ==
    LET j == job[w] IN
    /\ pc[w] = "write" /\ seen[w].decision \in {"process", "retry"}
    /\ Unchanged(w)
    /\ SetRow(j, "processing", IF seen[w].decision = "retry" THEN attempts[j] + 1 ELSE attempts[j])
    /\ Goto(w, "render")
    /\ UNCHANGED <<queueVars, job, seen, drainVars, noticeVars>>

\* Fails the row and notifies the requester in one transaction.
FailAndTell(j) == /\ SetRow(j, "failed", attempts[j])
                  /\ failNotices' = [failNotices EXCEPT ![j] = @ + 1]

\* createNotification swallows the failure of its notification_deliveries INSERT.
\* The transaction is aborted by then: its COMMIT rolls back both writes, nothing
\* throws, and the caller goes on as if the job were failed.
UndoneUnseen(j) == /\ undone' = [undone EXCEPT ![j] = TRUE]
                   /\ UNCHANGED <<status, attempts, age, failNotices>>

Abandon(w) ==
    LET j == job[w] IN
    /\ pc[w] = "write" /\ seen[w].decision = "abandon"
    /\ Unchanged(w)
    /\ FailAndTell(j) \/ UndoneUnseen(j)
    /\ Goto(w, "settled")
    /\ UNCHANGED <<queueVars, job, seen, drainVars, readyNotices>>

\* The conditional UPDATE matched no row: defer, keeping the message.
ClaimLost(w) ==
    /\ pc[w] = "write" /\ seen[w].decision \in {"process", "retry", "abandon"}
    /\ ~Unchanged(w)
    /\ Goto(w, "idle")
    /\ UNCHANGED <<rowVars, queueVars, job, seen, drainVars, noticeVars>>

\* The claim throws: the database fails, or the INSERT meets another worker's row
\* (job_id is unique).  Either is handled like a failed render.
ClaimFails(w) ==
    /\ pc[w] \in {"read", "write"}
    /\ Goto(w, "catch")
    /\ UNCHANGED <<rowVars, queueVars, job, seen, drainVars, noticeVars>>

-----------------------------------------------------------------------------
(* processPdfJob after the claim.                                             *)

RenderAndUpload(w) ==
    /\ pc[w] = "render"
    /\ Goto(w, "complete")
    /\ UNCHANGED <<rowVars, queueVars, job, seen, drainVars, noticeVars>>

\* Unguarded UPDATE by job_id.
Complete(w) ==
    /\ pc[w] = "complete"
    /\ SetRow(job[w], "completed", attempts[job[w]])
    /\ Goto(w, "announce")
    /\ UNCHANGED <<queueVars, job, seen, drainVars, noticeVars>>

\* Notification and email; a failure here is logged and swallowed.
Announce(w) ==
    /\ pc[w] = "announce"
    /\ \E n \in {0, 1} : readyNotices' = [readyNotices EXCEPT ![job[w]] = @ + n]
    /\ Goto(w, "settled")
    /\ UNCHANGED <<rowVars, queueVars, job, seen, drainVars, failNotices>>

\* No user, the render or upload fails, or the completion write does.
WorkFails(w) ==
    /\ pc[w] \in Rendering
    /\ Goto(w, "catch")
    /\ UNCHANGED <<rowVars, queueVars, job, seen, drainVars, noticeVars>>

CatchRead(w) ==
    LET j == job[w] IN
    /\ pc[w] = "catch"
    /\ seen' = [seen EXCEPT ![w] = [NoRow EXCEPT !.status = status[j], !.attempts = attempts[j]]]
    /\ Goto(w, IF status[j] = "none" THEN "idle" ELSE "record")
    /\ UNCHANGED <<rowVars, queueVars, job, drainVars, noticeVars>>

MutantRecordFailure(w) ==
    LET j == job[w] IN
    /\ pc[w] = "record"
    /\ SetRow(j, IF seen[w].attempts + 1 >= MaxAttempts THEN "failed" ELSE "pending",
              seen[w].attempts + 1)
    /\ Goto(w, "settled")
    /\ UNCHANGED <<queueVars, job, seen, drainVars, noticeVars>>

\* Counts the attempt from the row as read, whatever the row is by now, and
\* notifies in the same transaction.  The error is rethrown: the message stays.
RecordFailure(w) ==
    LET j == job[w]
        n == seen[w].attempts + 1
        failed == n >= MaxAttempts IN
    /\ pc[w] = "record"
    /\ SetRow(j, IF failed THEN "failed" ELSE "pending", n)
    /\ failNotices' = IF failed THEN [failNotices EXCEPT ![j] = @ + 1] ELSE failNotices
    /\ Goto(w, "idle")
    /\ UNCHANGED <<queueVars, job, seen, drainVars, readyNotices>>

\* The write throws, or a swallowed failure of its notice rolls it back.
RecordFails(w) ==
    /\ pc[w] \in {"catch", "record"}
    /\ Goto(w, "idle")
    /\ UNCHANGED <<rowVars, queueVars, job, seen, drainVars, noticeVars>>

DeleteMessage(w) ==
    /\ pc[w] = "settled"
    /\ Goto(w, "idle")
    /\ \/ /\ place[job[w]] = "queue"
          /\ place' = [place EXCEPT ![job[w]] = "gone"]
       \/ UNCHANGED place
    /\ UNCHANGED <<rowVars, hide, receives, job, seen, drainVars, noticeVars>>

Crash(w) ==
    /\ pc[w] # "idle"
    /\ Goto(w, "idle")
    /\ UNCHANGED <<rowVars, queueVars, job, seen, drainVars, noticeVars>>

-----------------------------------------------------------------------------
(* The DLQ drain: failPdfJob, then delete.                                    *)

DrainReceive(j) ==
    /\ drainPc = "idle" /\ place[j] = "dlq"
    /\ drainPc' = "settle" /\ drainJob' = j
    /\ UNCHANGED <<rowVars, queueVars, workerVars, noticeVars>>

MutantFailable(j) == status[j] \in {"pending", "processing", "completed"}

\* WHERE status is neither completed nor failed.
Failable(j) == status[j] \in {"pending", "processing"}

\* The drain as a log-and-delete Lambda, which it once was.
MutantDrainSettle ==
    /\ drainPc = "settle"
    /\ drainPc' = "delete"
    /\ UNCHANGED <<rowVars, queueVars, workerVars, drainJob, noticeVars>>

DrainSettle ==
    /\ drainPc = "settle"
    /\ IF Failable(drainJob)
       THEN FailAndTell(drainJob) \/ UndoneUnseen(drainJob)
       ELSE UNCHANGED <<rowVars, failNotices>>
    /\ drainPc' = "delete"
    /\ UNCHANGED <<queueVars, workerVars, drainJob, readyNotices>>

DrainDelete ==
    /\ drainPc = "delete"
    /\ drainPc' = "idle"
    /\ place' = [place EXCEPT ![drainJob] = "gone"]
    /\ UNCHANGED <<rowVars, hide, receives, workerVars, drainJob, noticeVars>>

DrainFails ==
    /\ drainPc # "idle"
    /\ drainPc' = "idle"
    /\ UNCHANGED <<rowVars, queueVars, workerVars, drainJob, noticeVars>>

-----------------------------------------------------------------------------
WorkerStep(w) ==
    \/ ClaimRead(w) \/ ClaimInsert(w) \/ ClaimUpdate(w) \/ Abandon(w) \/ ClaimLost(w)
    \/ ClaimFails(w) \/ RenderAndUpload(w) \/ Complete(w) \/ Announce(w) \/ WorkFails(w)
    \/ CatchRead(w) \/ RecordFailure(w) \/ RecordFails(w) \/ DeleteMessage(w)

Next ==
    \/ \E j \in Jobs : Request(j) \/ Redrive(j) \/ DrainReceive(j)
    \/ \E w \in Workers, j \in Jobs : Receive(w, j)
    \/ \E w \in Workers : WorkerStep(w) \/ Crash(w)
    \/ DrainSettle \/ DrainDelete \/ DrainFails
    \/ Tick

Spec == Init /\ [][Next]_vars

\* Handlers run on (or crash), time passes, the queue keeps offering the message,
\* and the five-minutely drain meets a working database now and then.
Fairness ==
    /\ \A w \in Workers : WF_vars(WorkerStep(w))
    /\ \A j \in Jobs : /\ SF_vars(Redrive(j) \/ \E w \in Workers : Receive(w, j))
                       /\ SF_vars(DrainReceive(j))
    /\ WF_vars(Tick) /\ SF_vars(DrainSettle) /\ SF_vars(DrainDelete)

FairSpec == Spec /\ Fairness
-----------------------------------------------------------------------------
(* Properties.                                                                *)

\* Types of the state.
TypeOK ==
    /\ status \in [Jobs -> Statuses]
    /\ attempts \in [Jobs -> Nat]
    /\ age \in [Jobs -> 0..(StaleAfter + 1)]
    /\ undone \in [Jobs -> BOOLEAN]
    /\ place \in [Jobs -> Places]
    /\ hide \in [Jobs -> 0..Visibility]
    /\ receives \in [Jobs -> 0..MaxReceives]
    /\ pc \in [Workers -> Steps]
    /\ job \in [Workers -> Jobs]
    /\ seen \in [Workers -> [status : Statuses, attempts : Nat, decision : Decisions]]
    /\ drainPc \in {"idle", "settle", "delete"} /\ drainJob \in Jobs
    /\ readyNotices \in [Jobs -> Nat] /\ failNotices \in [Jobs -> Nat]

\* While the queue delivers a message to one handler at a time, a job with a row
\* that is not finished still has its message: no crash, failed write or drain
\* leaves it pending or processing with nothing to move it on.  One way it can be
\* stranded: whoever failed it last was rolled back unnoticed by a swallowed
\* failure of the notice (UndoneUnseen), and deleted the message all the same.
NoStrandedJob ==
    \A j \in Jobs : status[j] \in {"pending", "processing"} =>
        place[j] \in {"queue", "dlq"} \/ undone[j]

\* What pdfJobClaim.ts says of its constant: when a crashed handler's message
\* reappears its row is already stale, so a redelivery is never deferred and
\* spends no receive in vain.
RedeliveryFindsStale ==
    \A w \in Workers : pc[w] = "read" /\ status[job[w]] = "processing" => IsStale(job[w])

\* The requester has been told of a failure exactly when the job is failed:
\* whoever fails it (the handler that used the last attempt, the one that found it
\* abandoned, the DLQ drain) tells, nobody tells of an attempt that is retried,
\* and a job its requester was told had failed is never picked up again.
FailureToldIffFailed ==
    \A j \in Jobs : failNotices[j] > 0 <=> status[j] = "failed"

\* However often and however late a message is delivered, no claim, render,
\* abandonment or drain takes a finished report back; only a handler counting a
\* failure can, since it writes by job_id alone.
OnlyCatchUndoesCompletion ==
    [][\A j \in Jobs : status[j] = "completed" /\ status'[j] # "completed" =>
          \E w \in Workers : job[w] = j /\ pc[w] = "record" /\ pc'[w] = "idle"]_vars

\* With every delivery anomaly, a job still ends up failed only with its
\* requester told: the write and the notification share a transaction.
FailedIsTold == \A j \in Jobs : status[j] = "failed" => failNotices[j] > 0

\* A job that got a row is completed or failed in the end, or loses its message to
\* a handler or drain whose failing of it was rolled back unnoticed.
EveryJobEnds ==
    \A j \in Jobs : status[j] # "none" ~> \/ status[j] \in {"completed", "failed"}
                                          \/ undone[j] /\ place[j] = "gone"
=============================================================================
