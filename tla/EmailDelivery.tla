--------------------------- MODULE EmailDelivery ---------------------------
(* The transactional email path: delivery rows (email-delivery.service.ts),   *)
(* the SQS queue and its dead-letter queue, the email worker (worker.ts), the *)
(* DLQ drain (dlq-consumer.ts) and the provider's idempotency keys.           *)
(*                                                                            *)
(* Clocks are abstracted to the events that matter.  A lease and the guard    *)
(* "attempted within the last 120 s" start at the same claim and have the     *)
(* same length, so one Boolean per row, recent, stands for both comparisons   *)
(* with now().  A hidden message may reappear at any moment, so the lengths   *)
(* of visibility timeouts, deferrals and backoffs play no part.               *)
EXTENDS Naturals, FiniteSets

CONSTANTS Deliveries,            \* rows of email_deliveries
          Workers,               \* concurrent processEmailMessage calls, or inline senders
          MaxEpoch,              \* bound: how often one row is requeued
          MaxReceives,           \* the queue's maxReceiveCount
          QueueModes,            \* whether SQS_QUEUE_URL may be set: a subset of BOOLEAN
          SendsMayOutliveLease   \* whether a provider call can hang past the lease

ASSUME EmailAssumption == /\ Deliveries # {}
                          /\ MaxEpoch \in Nat
                          /\ MaxReceives \in Nat \ {0}
                          /\ QueueModes \subseteq BOOLEAN
                          /\ SendsMayOutliveLease \in BOOLEAN

\* One queue message is sent per row and send epoch; the body holds only the row.
Ids == Deliveries \X (0..MaxEpoch)
Row(id) == id[1]

VARIABLES
    queueOn,     \* SQS_QUEUE_URL is configured, fixed at start-up
    status,      \* email_deliveries.status, "none" before the INSERT
    sendEpoch,   \* email_deliveries.send_epoch
    claimed,     \* claimed_until is not null
    recent,      \* the last attempt started less than one lease ago
    toEnqueue,   \* deliverOrEnqueue calls between the row's write and SendMessage
    orphans,     \* sends that nothing will retry: enqueue or inline attempt failed
    place,       \* where a message is: "none", "queue", "dlq" or "gone"
    visible,     \* the message may be received
    receives,    \* ApproximateReceiveCount
    pc,          \* progress of a worker through processEmailMessage
    job,         \* the message (or inline send) a worker handles
    epoch,       \* the sendEpoch a worker's claim returned
    inLease,     \* the worker's own lease, as granted, has not run out
    drainPc,     \* progress of the DLQ drain through one message
    drainJob,
    keys,        \* idempotency keys the provider has accepted
    inbox        \* emails of a delivery that reached the recipient

rowVars    == <<status, sendEpoch, claimed, recent>>
queueVars  == <<place, visible, receives>>
workerVars == <<pc, job, epoch, inLease>>
drainVars  == <<drainPc, drainJob>>
mailVars   == <<keys, inbox>>
vars == <<queueOn, rowVars, toEnqueue, orphans, queueVars, workerVars, drainVars, mailVars>>

Statuses == {"none", "PENDING", "SENT", "FAILED"}
Places   == {"none", "queue", "dlq", "gone"}
\* From the claim to the write that ends the attempt.
Holding  == {"sending", "accepted", "rejected", "release"}
Steps    == {"idle", "claim", "look", "settled"} \cup Holding

\* Mutant: a fresh key for every attempt.
MutantEmailKey(d, e, w) == <<d, e, w>>

\* emailIdempotencyKey: one key per row and send epoch.
EmailKey(d, e, w) == <<d, e>>

InitId == CHOOSE id \in Ids : TRUE

Init ==
    /\ queueOn \in QueueModes
    /\ status = [d \in Deliveries |-> "none"]
    /\ sendEpoch = [d \in Deliveries |-> 0]
    /\ claimed = [d \in Deliveries |-> FALSE]
    /\ recent = [d \in Deliveries |-> FALSE]
    /\ toEnqueue = {} /\ orphans = {}
    /\ place = [id \in Ids |-> "none"]
    /\ visible = [id \in Ids |-> FALSE]
    /\ receives = [id \in Ids |-> 0]
    /\ pc = [w \in Workers |-> "idle"]
    /\ job = [w \in Workers |-> InitId]
    /\ epoch = [w \in Workers |-> 0]
    /\ inLease = [w \in Workers |-> FALSE]
    /\ drainPc = "idle" /\ drainJob = InitId
    /\ keys = {} /\ inbox = [d \in Deliveries |-> 0]

-----------------------------------------------------------------------------
(* dispatchEmail, requeueFailedEmailDeliveries and deliverOrEnqueue.          *)

Dispatch(d) ==
    /\ status[d] = "none"
    /\ status' = [status EXCEPT ![d] = "PENDING"]
    /\ toEnqueue' = toEnqueue \cup {<<d, 0>>}
    /\ UNCHANGED <<queueOn, sendEpoch, claimed, recent, orphans, queueVars,
                   workerVars, drainVars, mailVars>>

\* Mutant: requeues a row whose last attempt may still be sending.
MutantRequeueable(d) == status[d] = "FAILED"

\* One row of the batch.  Which FAILED rows an operator selects (type, age of
\* the failure, expired links, the limit) is left open.
Requeueable(d) == status[d] = "FAILED" /\ ~recent[d]

Requeue(d) ==
    /\ Requeueable(d)
    /\ sendEpoch[d] < MaxEpoch
    /\ status' = [status EXCEPT ![d] = "PENDING"]
    /\ claimed' = [claimed EXCEPT ![d] = FALSE]
    /\ sendEpoch' = [sendEpoch EXCEPT ![d] = @ + 1]
    /\ toEnqueue' = toEnqueue \cup {<<d, sendEpoch[d] + 1>>}
    /\ UNCHANGED <<queueOn, recent, orphans, queueVars, workerVars, drainVars, mailVars>>

SendMessage(id) ==
    /\ queueOn /\ id \in toEnqueue
    /\ toEnqueue' = toEnqueue \ {id}
    /\ place' = [place EXCEPT ![id] = "queue"]
    /\ visible' = [visible EXCEPT ![id] = TRUE]
    /\ UNCHANGED <<queueOn, rowVars, orphans, receives, workerVars, drainVars, mailVars>>

\* SendMessage throws, or the process stops before it: the row stays PENDING.
EnqueueFails(id) ==
    /\ id \in toEnqueue
    /\ toEnqueue' = toEnqueue \ {id}
    /\ orphans' = orphans \cup {id}
    /\ UNCHANGED <<queueOn, rowVars, queueVars, workerVars, drainVars, mailVars>>

\* No queue: the same process attempts the delivery itself.
SendInline(w, id) ==
    /\ ~queueOn /\ id \in toEnqueue /\ pc[w] = "idle"
    /\ toEnqueue' = toEnqueue \ {id}
    /\ pc' = [pc EXCEPT ![w] = "claim"]
    /\ job' = [job EXCEPT ![w] = id]
    /\ UNCHANGED <<queueOn, rowVars, orphans, queueVars, epoch, inLease, drainVars, mailVars>>

-----------------------------------------------------------------------------
(* The queue: receives hide a message, a message received too often is        *)
(* redriven, a hidden message reappears.                                      *)

Receive(w, id) ==
    /\ pc[w] = "idle"
    /\ place[id] = "queue" /\ visible[id] /\ receives[id] < MaxReceives
    /\ visible' = [visible EXCEPT ![id] = FALSE]
    /\ receives' = [receives EXCEPT ![id] = @ + 1]
    /\ pc' = [pc EXCEPT ![w] = "claim"]
    /\ job' = [job EXCEPT ![w] = id]
    /\ UNCHANGED <<queueOn, rowVars, toEnqueue, orphans, place, epoch, inLease,
                   drainVars, mailVars>>

Redrive(id) ==
    /\ place[id] = "queue" /\ visible[id] /\ receives[id] = MaxReceives
    /\ place' = [place EXCEPT ![id] = "dlq"]
    /\ UNCHANGED <<queueOn, rowVars, toEnqueue, orphans, visible, receives,
                   workerVars, drainVars, mailVars>>

Reappear(id) ==
    /\ place[id] \in {"queue", "dlq"} /\ ~visible[id]
    /\ visible' = [visible EXCEPT ![id] = TRUE]
    /\ UNCHANGED <<queueOn, rowVars, toEnqueue, orphans, place, receives,
                   workerVars, drainVars, mailVars>>

-----------------------------------------------------------------------------
(* attemptEmailDelivery, one action per statement it awaits.                  *)

Goto(w, step) == pc' = [pc EXCEPT ![w] = step]

\* An error reaches the caller.  processEmailMessage keeps the message, hidden;
\* the inline caller logs it and nothing tries again.
Throw(w) ==
    /\ Goto(w, "idle")
    /\ inLease' = [inLease EXCEPT ![w] = FALSE]
    /\ orphans' = IF queueOn THEN orphans ELSE orphans \cup {job[w]}

\* The WHERE clause of the claiming UPDATE.
Claimable(d) == status[d] = "PENDING" /\ ~(claimed[d] /\ recent[d])

Claim(w) ==
    LET d == Row(job[w]) IN
    /\ pc[w] = "claim"
    /\ Claimable(d)
    /\ claimed' = [claimed EXCEPT ![d] = TRUE]
    /\ recent' = [recent EXCEPT ![d] = TRUE]
    /\ epoch' = [epoch EXCEPT ![w] = sendEpoch[d]]
    /\ inLease' = [inLease EXCEPT ![w] = TRUE]
    /\ Goto(w, "sending")
    /\ UNCHANGED <<queueOn, status, sendEpoch, toEnqueue, orphans, queueVars, job,
                   drainVars, mailVars>>

ClaimMatchesNoRow(w) ==
    /\ pc[w] = "claim"
    /\ ~Claimable(Row(job[w]))
    /\ Goto(w, "look")
    /\ UNCHANGED <<queueOn, rowVars, toEnqueue, orphans, queueVars, job, epoch,
                   inLease, drainVars, mailVars>>

\* The SELECT after a claim that matched nothing: the row may have changed since.
LookTerminal(w) ==
    /\ pc[w] = "look"
    /\ status[Row(job[w])] # "PENDING"
    /\ Goto(w, "settled")
    /\ UNCHANGED <<queueOn, rowVars, toEnqueue, orphans, queueVars, job, epoch,
                   inLease, drainVars, mailVars>>

\* Mutant: a deferred delivery is treated as done and its message deleted.
MutantLookDeferred(w) ==
    /\ pc[w] = "look"
    /\ status[Row(job[w])] = "PENDING"
    /\ Goto(w, "settled")
    /\ UNCHANGED <<queueOn, rowVars, toEnqueue, orphans, queueVars, job, epoch,
                   inLease, drainVars, mailVars>>

\* Deferred: the message stays, hidden; an inline caller has no message to keep.
LookDeferred(w) ==
    /\ pc[w] = "look"
    /\ status[Row(job[w])] = "PENDING"
    /\ Throw(w)
    /\ UNCHANGED <<queueOn, rowVars, toEnqueue, queueVars, job, epoch, drainVars, mailVars>>

\* The claim's or the SELECT's statement fails.
QueryFails(w) ==
    /\ pc[w] \in {"claim", "look"}
    /\ Throw(w)
    /\ UNCHANGED <<queueOn, rowVars, toEnqueue, queueVars, job, epoch, drainVars, mailVars>>

\* The provider takes the request; a repeated key delivers nothing more.  The
\* response may still be lost, which reads as a retryable error.
ProviderAccepts(w) ==
    LET d == Row(job[w])
        key == EmailKey(d, epoch[w], w) IN
    /\ pc[w] = "sending"
    /\ keys' = keys \cup {key}
    /\ inbox' = IF key \in keys THEN inbox ELSE [inbox EXCEPT ![d] = @ + 1]
    /\ \E step \in {"accepted", "release"} : Goto(w, step)
    /\ UNCHANGED <<queueOn, rowVars, toEnqueue, orphans, queueVars, job, epoch,
                   inLease, drainVars>>

\* Refused or unreachable: "rejected" for a permanent error.  A key already
\* accepted is answered with the first response, so it is never rejected.
ProviderRefuses(w) ==
    /\ pc[w] = "sending"
    /\ \/ Goto(w, "release")
       \/ /\ EmailKey(Row(job[w]), epoch[w], w) \notin keys
          /\ Goto(w, "rejected")
    /\ UNCHANGED <<queueOn, rowVars, toEnqueue, orphans, queueVars, job, epoch,
                   inLease, drainVars, mailVars>>

\* Unguarded: overwrites a FAILED the DLQ drain wrote meanwhile.
RecordSent(w) ==
    LET d == Row(job[w]) IN
    /\ pc[w] = "accepted"
    /\ status' = [status EXCEPT ![d] = "SENT"]
    /\ claimed' = [claimed EXCEPT ![d] = FALSE]
    /\ inLease' = [inLease EXCEPT ![w] = FALSE]
    /\ Goto(w, "settled")
    /\ UNCHANGED <<queueOn, sendEpoch, recent, toEnqueue, orphans, queueVars, job,
                   epoch, drainVars, mailVars>>

\* The SENT write throws inside the same try, and is handled as a failed send.
RecordSentFails(w) ==
    /\ pc[w] = "accepted"
    /\ Goto(w, "release")
    /\ UNCHANGED <<queueOn, rowVars, toEnqueue, orphans, queueVars, job, epoch,
                   inLease, drainVars, mailVars>>

\* Mutant: the DLQ drain downgrades a delivery that went out.
MutantMarkFailed(d) ==
    /\ status' = [status EXCEPT ![d] = "FAILED"]
    /\ claimed' = [claimed EXCEPT ![d] = FALSE]

\* markEmailDeliveryFailed never downgrades SENT.
MarkFailed(d) ==
    IF status[d] = "SENT" THEN UNCHANGED <<status, claimed>>
    ELSE /\ status' = [status EXCEPT ![d] = "FAILED"]
         /\ claimed' = [claimed EXCEPT ![d] = FALSE]

RecordRejected(w) ==
    /\ pc[w] = "rejected"
    /\ MarkFailed(Row(job[w]))
    /\ inLease' = [inLease EXCEPT ![w] = FALSE]
    /\ Goto(w, "settled")
    /\ UNCHANGED <<queueOn, sendEpoch, recent, toEnqueue, orphans, queueVars, job,
                   epoch, drainVars, mailVars>>

\* The release is not conditional on the claim still being this worker's.
Release(w) ==
    /\ pc[w] = "release"
    /\ claimed' = [claimed EXCEPT ![Row(job[w])] = FALSE]
    /\ Throw(w)
    /\ UNCHANGED <<queueOn, status, sendEpoch, recent, toEnqueue, queueVars, job,
                   epoch, drainVars, mailVars>>

\* The write that ends a failed attempt itself fails: the lease stays.
EndingFails(w) ==
    /\ pc[w] \in {"rejected", "release"}
    /\ Throw(w)
    /\ UNCHANGED <<queueOn, rowVars, toEnqueue, queueVars, job, epoch, drainVars, mailVars>>

\* Sent, skipped or failed: the message is deleted, if the delete succeeds and
\* the message has not been redriven meanwhile.
DeleteMessage(w) ==
    /\ pc[w] = "settled"
    /\ Goto(w, "idle")
    /\ \/ /\ queueOn /\ place[job[w]] = "queue"
          /\ place' = [place EXCEPT ![job[w]] = "gone"]
       \/ UNCHANGED place
    /\ UNCHANGED <<queueOn, rowVars, toEnqueue, orphans, visible, receives, job, epoch,
                   inLease, drainVars, mailVars>>

\* The worker's process stops anywhere in an attempt.
Crash(w) ==
    /\ pc[w] # "idle"
    /\ Throw(w)
    /\ UNCHANGED <<queueOn, rowVars, toEnqueue, queueVars, job, epoch, drainVars, mailVars>>

\* One lease after the row's last attempt began.
LeaseWindowEnds(d) ==
    LET onRow == {w \in Workers : Row(job[w]) = d /\ pc[w] \in Holding} IN
    /\ recent[d]
    /\ SendsMayOutliveLease \/ onRow = {}
    /\ recent' = [recent EXCEPT ![d] = FALSE]
    /\ inLease' = [w \in Workers |-> inLease[w] /\ w \notin onRow]
    /\ UNCHANGED <<queueOn, status, sendEpoch, claimed, toEnqueue, orphans, queueVars,
                   pc, job, epoch, drainVars, mailVars>>

-----------------------------------------------------------------------------
(* drainDlq: settle a message against the database, then delete it.           *)

DrainReceive(id) ==
    /\ drainPc = "idle" /\ place[id] = "dlq" /\ visible[id]
    /\ visible' = [visible EXCEPT ![id] = FALSE]
    /\ drainPc' = "settle" /\ drainJob' = id
    /\ UNCHANGED <<queueOn, rowVars, toEnqueue, orphans, place, receives, workerVars, mailVars>>

\* Mutant: logs and deletes, without settling the row first.
MutantDrainSettle ==
    /\ drainPc = "settle"
    /\ drainPc' = "delete"
    /\ UNCHANGED <<queueOn, rowVars, toEnqueue, orphans, queueVars,
                   workerVars, drainJob, mailVars>>

DrainSettle ==
    /\ drainPc = "settle"
    /\ MarkFailed(Row(drainJob))
    /\ drainPc' = "delete"
    /\ UNCHANGED <<queueOn, sendEpoch, recent, toEnqueue, orphans, queueVars,
                   workerVars, drainJob, mailVars>>

DrainDelete ==
    /\ drainPc = "delete"
    /\ drainPc' = "idle"
    /\ place' = [place EXCEPT ![drainJob] = "gone"]
    /\ UNCHANGED <<queueOn, rowVars, toEnqueue, orphans, visible, receives,
                   workerVars, drainJob, mailVars>>

\* The write or the delete fails, or the process stops: the message stays.
DrainFails ==
    /\ drainPc # "idle"
    /\ drainPc' = "idle"
    /\ UNCHANGED <<queueOn, rowVars, toEnqueue, orphans, queueVars, workerVars,
                   drainJob, mailVars>>

-----------------------------------------------------------------------------
WorkerStep(w) ==
    \/ Claim(w) \/ ClaimMatchesNoRow(w) \/ LookTerminal(w) \/ LookDeferred(w)
    \/ QueryFails(w) \/ ProviderAccepts(w) \/ ProviderRefuses(w) \/ RecordSent(w)
    \/ RecordSentFails(w) \/ RecordRejected(w) \/ Release(w) \/ EndingFails(w)
    \/ DeleteMessage(w)

Next ==
    \/ \E d \in Deliveries : Dispatch(d) \/ Requeue(d) \/ LeaseWindowEnds(d)
    \/ \E id \in Ids : SendMessage(id) \/ EnqueueFails(id) \/ Redrive(id)
                       \/ Reappear(id) \/ DrainReceive(id)
    \/ \E w \in Workers, id \in Ids : SendInline(w, id) \/ Receive(w, id)
    \/ \E w \in Workers : WorkerStep(w) \/ Crash(w)
    \/ DrainSettle \/ DrainDelete \/ DrainFails

Spec == Init /\ [][Next]_vars

\* What the deployment guarantees: a handler that started runs on (or its
\* process dies), the queue keeps offering a message until it is deleted, the
\* drain runs every five minutes, and the database is not down for ever.
Fairness ==
    /\ \A w \in Workers : WF_vars(WorkerStep(w))
    /\ \A id \in Ids :
        /\ WF_vars(SendMessage(id) \/ EnqueueFails(id))
        /\ WF_vars(\E w \in Workers : SendInline(w, id))
        /\ WF_vars(Reappear(id))
        /\ SF_vars(Redrive(id) \/ \E w \in Workers : Receive(w, id))
        /\ SF_vars(DrainReceive(id))
    /\ SF_vars(DrainSettle) /\ SF_vars(DrainDelete)

FairSpec == Spec /\ Fairness
-----------------------------------------------------------------------------
(* Properties.                                                                *)

\* Types of the state.
TypeOK ==
    /\ queueOn \in BOOLEAN
    /\ status \in [Deliveries -> Statuses]
    /\ sendEpoch \in [Deliveries -> 0..MaxEpoch]
    /\ claimed \in [Deliveries -> BOOLEAN]
    /\ recent \in [Deliveries -> BOOLEAN]
    /\ toEnqueue \subseteq Ids /\ orphans \subseteq Ids
    /\ place \in [Ids -> Places]
    /\ visible \in [Ids -> BOOLEAN]
    /\ receives \in [Ids -> 0..MaxReceives]
    /\ pc \in [Workers -> Steps]
    /\ job \in [Workers -> Ids]
    /\ epoch \in [Workers -> 0..MaxEpoch]
    /\ inLease \in [Workers -> BOOLEAN]
    /\ drainPc \in {"idle", "settle", "delete"} /\ drainJob \in Ids
    /\ keys \subseteq Ids
    /\ inbox \in [Deliveries -> Nat]

\* The send of a row's current epoch.
Current(d) == <<d, sendEpoch[d]>>

\* Something will still try a send: it waits to be enqueued, its message exists,
\* or an inline sender is at it.
Alive(id) == \/ id \in toEnqueue
             \/ place[id] \in {"queue", "dlq"}
             \/ ~queueOn /\ \E w \in Workers : job[w] = id /\ pc[w] # "idle"

\* A PENDING delivery is never forgotten: unless its enqueue (or, without a
\* queue, its only attempt) failed, a message or a sender for its current epoch
\* exists, whatever duplicates, deferrals, late senders, crashes and DLQ drains do.
\* This is why "skipped" may delete a message and "deferred" may not.
NoLostDelivery ==
    \A d \in Deliveries :
        status[d] = "PENDING" /\ Current(d) \notin orphans => Alive(Current(d))

\* As long as sends end within their lease, at most one attempt per row is
\* between its claim and its last write, across redeliveries, DLQ drains that
\* fail the row mid-send, and requeues of the failed row.
NoConcurrentSends ==
    \A w1, w2 \in Workers :
        /\ pc[w1] \in Holding /\ pc[w2] \in Holding
        /\ Row(job[w1]) = Row(job[w2])
        => w1 = w2

\* The recipient gets at most one email for the first send and one for each
\* requeue, however often a send is retried after a lost response, a failed SENT
\* write, a crash, or a hung call that outlived its lease.
AtMostOneEmailPerEpoch == \A d \in Deliveries : inbox[d] <= sendEpoch[d] + 1

\* Every row and every email evolve as EmailPromise allows: SENT is final and
\* recorded only of an email that went out, PENDING comes back only with a new epoch.
Promise == INSTANCE EmailPromise WITH
    Deliveries <- Deliveries, status <- status, sendEpoch <- sendEpoch, inbox <- inbox
KeepsPromise == Promise!Spec

\* A delivery does not stay PENDING: it is SENT, or FAILED for an operator to
\* see, unless nothing was left to retry it.
EveryDeliverySettles ==
    \A d \in Deliveries :
        status[d] = "PENDING" ~> status[d] # "PENDING" \/ Current(d) \in orphans

=============================================================================
