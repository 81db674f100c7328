------------------------ MODULE EmailDelivery_proofs ------------------------
(* Theorems about EmailDelivery, for any number of rows, workers, requeues    *)
(* and receives.                                                              *)
EXTENDS EmailDelivery, FiniteSetTheorems, TLAPS

-----------------------------------------------------------------------------
(* Ids are pairs of a row and an epoch.                                       *)

LEMMA IdFacts ==
    /\ \A id \in Ids : /\ Row(id) \in Deliveries
                       /\ id[2] \in 0..MaxEpoch
                       /\ id = <<Row(id), id[2]>>
    /\ \A d \in Deliveries, e \in 0..MaxEpoch :
            /\ <<d, e>> \in Ids
            /\ Row(<<d, e>>) = d
            /\ <<d, e>>[2] = e
BY DEF Ids, Row

LEMMA ZeroEpoch == 0 \in 0..MaxEpoch
BY EmailAssumption

LEMMA InitIdType == InitId \in Ids
<1>1. \E id : id \in Ids
    BY EmailAssumption, IdFacts, ZeroEpoch
<1> QED
    BY <1>1 DEF InitId

\* What markEmailDeliveryFailed does to the rows.
LEMMA MarkFailedEffect ==
    ASSUME TypeOK, NEW d \in Deliveries, MarkFailed(d)
    PROVE  /\ status' \in [Deliveries -> Statuses]
           /\ claimed' \in [Deliveries -> BOOLEAN]
           /\ status'[d] \in {"SENT", "FAILED"}
           /\ status[d] = "SENT" => status'[d] = "SENT"
           /\ \A x \in Deliveries \ {d} : status'[x] = status[x] /\ claimed'[x] = claimed[x]
<1>1. CASE status[d] = "SENT"
    BY <1>1 DEF MarkFailed, TypeOK
<1>2. CASE status[d] # "SENT"
    BY <1>2 DEF MarkFailed, TypeOK, Statuses
<1> QED BY <1>1, <1>2

-----------------------------------------------------------------------------
(* Type correctness.                                                          *)

LEMMA TypeInit == Init => TypeOK
BY InitIdType, EmailAssumption
   DEF Init, TypeOK, Statuses, Places, Steps, Holding

LEMMA TypeStep == TypeOK /\ [Next]_vars => TypeOK'
<1> SUFFICES ASSUME TypeOK, [Next]_vars
             PROVE  TypeOK'
    OBVIOUS
<1> USE IdFacts, EmailAssumption DEF TypeOK
<1>1. ASSUME NEW d \in Deliveries, Dispatch(d) \/ Requeue(d) \/ LeaseWindowEnds(d)
      PROVE  TypeOK'
    <2>1. CASE Dispatch(d)
        BY <2>1, ZeroEpoch DEF Dispatch, Statuses, queueVars, workerVars, drainVars, mailVars
    <2>2. CASE Requeue(d)
        BY <2>2 DEF Requeue, Statuses, queueVars, workerVars, drainVars, mailVars
    <2>3. CASE LeaseWindowEnds(d)
        BY <2>3 DEF LeaseWindowEnds, queueVars, drainVars, mailVars
    <2> QED BY <1>1, <2>1, <2>2, <2>3
<1>2. ASSUME NEW id \in Ids,
             SendMessage(id) \/ EnqueueFails(id) \/ Redrive(id) \/ Reappear(id) \/ DrainReceive(id)
      PROVE  TypeOK'
    <2>1. CASE SendMessage(id)
        BY <2>1 DEF SendMessage, Places, rowVars, workerVars, drainVars, mailVars
    <2>2. CASE EnqueueFails(id)
        BY <2>2 DEF EnqueueFails, rowVars, queueVars, workerVars, drainVars, mailVars
    <2>3. CASE Redrive(id)
        BY <2>3 DEF Redrive, Places, rowVars, workerVars, drainVars, mailVars
    <2>4. CASE Reappear(id)
        BY <2>4 DEF Reappear, rowVars, workerVars, drainVars, mailVars
    <2>5. CASE DrainReceive(id)
        BY <2>5 DEF DrainReceive, rowVars, workerVars, mailVars
    <2> QED BY <1>2, <2>1, <2>2, <2>3, <2>4, <2>5
<1>3. ASSUME NEW w \in Workers, NEW id \in Ids, SendInline(w, id) \/ Receive(w, id)
      PROVE  TypeOK'
    <2>1. CASE SendInline(w, id)
        BY <2>1 DEF SendInline, Steps, rowVars, queueVars, drainVars, mailVars
    <2>2. CASE Receive(w, id)
        BY <2>2 DEF Receive, Steps, rowVars, drainVars, mailVars
    <2> QED BY <1>3, <2>1, <2>2
<1>4. ASSUME NEW w \in Workers, WorkerStep(w) \/ Crash(w)
      PROVE  TypeOK'
    <2>1. CASE Claim(w)
        BY <2>1 DEF Claim, Goto, Steps, Holding, queueVars, drainVars, mailVars
    <2>2. CASE ClaimMatchesNoRow(w) \/ LookTerminal(w) \/ RecordSentFails(w)
        BY <2>2 DEF ClaimMatchesNoRow, LookTerminal, RecordSentFails, Goto, Steps, Holding,
                    rowVars, queueVars, drainVars, mailVars
    <2>3. CASE LookDeferred(w) \/ QueryFails(w) \/ EndingFails(w) \/ Crash(w)
        BY <2>3 DEF LookDeferred, QueryFails, EndingFails, Crash, Throw, Goto, Steps,
                    rowVars, queueVars, drainVars, mailVars
    <2>4. CASE ProviderAccepts(w)
        BY <2>4 DEF ProviderAccepts, EmailKey, Goto, Steps, Holding, rowVars, queueVars, drainVars
    <2>5. CASE ProviderRefuses(w)
        BY <2>5 DEF ProviderRefuses, Goto, Steps, Holding, rowVars, queueVars, drainVars, mailVars
    <2>6. CASE RecordSent(w)
        BY <2>6 DEF RecordSent, Goto, Steps, Statuses, queueVars, drainVars, mailVars
    <2>7. CASE RecordRejected(w)
        BY <2>7 DEF RecordRejected, MarkFailed, Goto, Steps, Statuses, queueVars, drainVars, mailVars
    <2>8. CASE Release(w)
        BY <2>8 DEF Release, Throw, Goto, Steps, queueVars, drainVars, mailVars
    <2>9. CASE DeleteMessage(w)
        BY <2>9 DEF DeleteMessage, Goto, Steps, Places, rowVars, drainVars, mailVars
    <2> QED BY <1>4, <2>1, <2>2, <2>3, <2>4, <2>5, <2>6, <2>7, <2>8, <2>9 DEF WorkerStep
<1>5. CASE DrainSettle \/ DrainDelete \/ DrainFails
    <2>1. CASE DrainSettle
        BY <2>1, MarkFailedEffect DEF DrainSettle, queueVars, workerVars, mailVars
    <2>2. CASE DrainDelete
        BY <2>2 DEF DrainDelete, Places, rowVars, workerVars, mailVars
    <2>3. CASE DrainFails
        BY <2>3 DEF DrainFails, rowVars, queueVars, workerVars, mailVars
    <2> QED BY <1>5, <2>1, <2>2, <2>3
<1>6. CASE UNCHANGED vars
    BY <1>6 DEF vars, rowVars, queueVars, workerVars, drainVars, mailVars
<1> QED
    BY <1>1, <1>2, <1>3, <1>4, <1>5, <1>6 DEF Next

\* Every variable keeps the type of the column or program state it stands for.
THEOREM TypeCorrect == Spec => []TypeOK
BY TypeInit, TypeStep, PTL DEF Spec

-----------------------------------------------------------------------------
(* The strengthening.  A send, once it exists, names a dispatched row and an  *)
(* epoch the row has reached; Past says that its row's need for it is over.   *)

Exists(id) == status[Row(id)] # "none" /\ id[2] <= sendEpoch[Row(id)]
Past(id)   == Exists(id) /\ (status[Row(id)] # "PENDING" \/ id[2] < sendEpoch[Row(id)])

\* Whatever carries a send carries one that exists.
Grounded ==
    /\ \A d \in Deliveries : status[d] = "none" => sendEpoch[d] = 0
    /\ \A id \in toEnqueue : Exists(id)
    /\ \A id \in Ids : place[id] # "none" => Exists(id)
    /\ \A w \in Workers : pc[w] # "idle" => Exists(job[w])
    /\ drainPc # "idle" => Exists(drainJob)

\* Whoever is about to delete a message holds one its row no longer needs.
SettledIsPast ==
    /\ \A w \in Workers : pc[w] = "settled" => Past(job[w])
    /\ drainPc = "delete" => Past(drainJob)

QueueInv == Grounded /\ SettledIsPast /\ NoLostDelivery

\* What any step may do to one row's status and epoch.
LEMMA RowStep ==
    ASSUME TypeOK, [Next]_vars, NEW d \in Deliveries
    PROVE  /\ sendEpoch'[d] >= sendEpoch[d]
           /\ status[d] # "none" => status'[d] # "none"
           /\ status[d] \notin {"none", "PENDING"} /\ status'[d] = "PENDING"
                => sendEpoch'[d] > sendEpoch[d]
<1> DEFINE Goal == /\ sendEpoch'[d] >= sendEpoch[d]
                   /\ status[d] # "none" => status'[d] # "none"
                   /\ status[d] \notin {"none", "PENDING"} /\ status'[d] = "PENDING"
                        => sendEpoch'[d] > sendEpoch[d]
<1>a. sendEpoch[d] \in Nat
    BY EmailAssumption DEF TypeOK
<1>b. ASSUME UNCHANGED <<status, sendEpoch>> PROVE Goal
    BY <1>a, <1>b
<1>1. ASSUME NEW x \in Deliveries, Dispatch(x) PROVE Goal
    BY <1>1, <1>a DEF Dispatch, TypeOK
<1>2. ASSUME NEW x \in Deliveries, Requeue(x) PROVE Goal
    BY <1>2, <1>a DEF Requeue, Requeueable, TypeOK
<1>3. ASSUME NEW w \in Workers, RecordSent(w) PROVE Goal
    BY <1>3, <1>a DEF RecordSent, TypeOK
<1>4. ASSUME NEW w \in Workers, RecordRejected(w) PROVE Goal
    <2>1. MarkFailed(Row(job[w])) /\ sendEpoch' = sendEpoch /\ Row(job[w]) \in Deliveries
        BY <1>4, IdFacts DEF RecordRejected, TypeOK
    <2> QED BY <2>1, <1>a, MarkFailedEffect
<1>5. ASSUME DrainSettle PROVE Goal
    <2>1. MarkFailed(Row(drainJob)) /\ sendEpoch' = sendEpoch /\ Row(drainJob) \in Deliveries
        BY <1>5, IdFacts DEF DrainSettle, TypeOK
    <2> QED BY <2>1, <1>a, MarkFailedEffect
<1>6. ASSUME NEW x \in Deliveries, LeaseWindowEnds(x) PROVE Goal
    BY <1>6, <1>b DEF LeaseWindowEnds
<1>7. ASSUME NEW id \in Ids,
             SendMessage(id) \/ EnqueueFails(id) \/ Redrive(id) \/ Reappear(id) \/ DrainReceive(id)
      PROVE  Goal
    BY <1>7, <1>b DEF SendMessage, EnqueueFails, Redrive, Reappear, DrainReceive, rowVars
<1>8. ASSUME NEW w \in Workers, NEW id \in Ids, SendInline(w, id) \/ Receive(w, id)
      PROVE  Goal
    BY <1>8, <1>b DEF SendInline, Receive, rowVars
<1>9. ASSUME NEW w \in Workers, WorkerStep(w) \/ Crash(w), ~RecordSent(w), ~RecordRejected(w)
      PROVE  Goal
    BY <1>9, <1>b DEF WorkerStep, Crash, Claim, ClaimMatchesNoRow, LookTerminal, LookDeferred,
        QueryFails, ProviderAccepts, ProviderRefuses, RecordSentFails, Release, EndingFails,
        DeleteMessage, rowVars
<1>10. ASSUME DrainDelete \/ DrainFails PROVE Goal
    BY <1>10, <1>b DEF DrainDelete, DrainFails, rowVars
<1>11. ASSUME UNCHANGED vars PROVE Goal
    BY <1>11, <1>b DEF vars, rowVars
<1> QED
    BY <1>1, <1>2, <1>3, <1>4, <1>5, <1>6, <1>7, <1>8, <1>9, <1>10, <1>11 DEF Next

\* A send that exists stays one, and one that is past stays past.
LEMMA Lasting ==
    ASSUME TypeOK, [Next]_vars, NEW id \in Ids
    PROVE  (Exists(id) => Exists(id)') /\ (Past(id) => Past(id)')
<1>1. /\ Row(id) \in Deliveries /\ id[2] \in Nat
      /\ sendEpoch[Row(id)] \in Nat /\ sendEpoch'[Row(id)] \in Nat
    BY IdFacts, EmailAssumption, TypeStep DEF TypeOK
<1>2. status[Row(id)] \in Statuses /\ status'[Row(id)] \in Statuses
    BY <1>1, TypeStep DEF TypeOK
<1> QED
    BY <1>1, <1>2, RowStep DEF Exists, Past

LEMMA QueueInit == Init => QueueInv
BY IdFacts, InitIdType DEF Init, QueueInv, Grounded, SettledIsPast, NoLostDelivery

\* Steps that touch neither the rows' status and epoch nor who carries a send.
LEMMA QueueFrame ==
    ASSUME QueueInv, UNCHANGED <<queueOn, status, sendEpoch, toEnqueue, orphans, place,
                                 pc, job, drainPc, drainJob>>
    PROVE  QueueInv'
BY DEF QueueInv, Grounded, SettledIsPast, NoLostDelivery, Exists, Past, Alive, Current

LEMMA QueueStep == TypeOK /\ QueueInv /\ [Next]_vars => QueueInv'
<1> SUFFICES ASSUME TypeOK, QueueInv, [Next]_vars
             PROVE  QueueInv'
    OBVIOUS
<1>a. TypeOK'
    BY TypeStep
<1>b. \A id \in Ids : (Exists(id) => Exists(id)') /\ (Past(id) => Past(id)')
    BY Lasting
<1>c. \A d \in Deliveries : Current(d) \in Ids /\ Row(Current(d)) = d /\ Current(d)[2] = sendEpoch[d]
    BY IdFacts DEF TypeOK, Current
<1>d. \A w \in Workers : job[w] \in Ids /\ Row(job[w]) \in Deliveries
    BY IdFacts DEF TypeOK
<1> USE DEF QueueInv
<1>1. ASSUME NEW d \in Deliveries, Dispatch(d) PROVE QueueInv'
    <2> USE <1>1 DEF Dispatch, queueVars, workerVars, drainVars
    <2>1. <<d, 0>> \in Ids /\ Exists(<<d, 0>>)'
        BY IdFacts, ZeroEpoch DEF TypeOK, Exists, Grounded
    <2>2. Grounded'
        BY <1>a, <1>b, <1>d, <2>1 DEF Grounded, TypeOK
    <2>3. SettledIsPast'
        BY <1>b, <1>d DEF SettledIsPast, TypeOK
    <2>4. NoLostDelivery'
        BY DEF Grounded, NoLostDelivery, Alive, Current, TypeOK
    <2> QED BY <2>2, <2>3, <2>4
<1>2. ASSUME NEW d \in Deliveries, Requeue(d) PROVE QueueInv'
    <2> USE <1>2 DEF Requeue, Requeueable, queueVars, workerVars, drainVars
    <2>1. sendEpoch[d] + 1 \in 0..MaxEpoch
        BY EmailAssumption DEF TypeOK
    <2>0. PICK new : new = <<d, sendEpoch[d] + 1>>
        OBVIOUS
    <2>a. new \in Ids /\ Row(new) = d /\ new[2] = sendEpoch[d] + 1
        BY <2>0, <2>1, IdFacts
    <2>b. sendEpoch'[d] = sendEpoch[d] + 1 /\ status'[d] = "PENDING"
        BY DEF TypeOK
    <2>2. Exists(new)'
        BY <2>1, <2>a, <2>b DEF Exists
    <2>c. toEnqueue' = toEnqueue \cup {new} /\ UNCHANGED <<place, pc, job, drainPc, drainJob>>
        BY <2>0
    <2>d. \A x \in Deliveries : status'[x] = "none" => status[x] = "none" /\ sendEpoch'[x] = sendEpoch[x]
        BY DEF TypeOK
    <2>3. Grounded'
        <3>1. toEnqueue \subseteq Ids /\ drainJob \in Ids
            BY DEF TypeOK
        <3> QED BY ONLY QueueInv, <1>b, <1>d, <2>2, <2>c, <2>d, <3>1 DEF Grounded, QueueInv
    <2>4. SettledIsPast'
        BY <1>b, <1>d DEF SettledIsPast, TypeOK
    <2>5. NoLostDelivery'
        BY DEF NoLostDelivery, Alive, Current, TypeOK
    <2> QED BY <2>3, <2>4, <2>5
<1>3. ASSUME NEW id \in Ids, SendMessage(id) PROVE QueueInv'
    <2> USE <1>3 DEF SendMessage, rowVars, workerVars, drainVars
    <2>1. Grounded'
        BY <1>b, <1>d DEF Grounded, TypeOK
    <2>2. SettledIsPast'
        BY <1>b, <1>d DEF SettledIsPast, TypeOK
    <2>3. NoLostDelivery'
        BY DEF NoLostDelivery, Alive, Current, TypeOK
    <2> QED BY <2>1, <2>2, <2>3
<1>4. ASSUME NEW id \in Ids, EnqueueFails(id) PROVE QueueInv'
    <2> USE <1>4 DEF EnqueueFails, rowVars, queueVars, workerVars, drainVars
    <2>1. Grounded' /\ SettledIsPast'
        BY DEF Grounded, SettledIsPast, Exists, Past
    <2>2. NoLostDelivery'
        BY DEF NoLostDelivery, Alive, Current, TypeOK
    <2> QED BY <2>1, <2>2
<1>5. ASSUME NEW id \in Ids, Redrive(id) PROVE QueueInv'
    <2> USE <1>5 DEF Redrive, rowVars, workerVars, drainVars
    <2>1. Grounded' /\ SettledIsPast'
        BY <1>b, <1>d DEF Grounded, SettledIsPast, TypeOK
    <2>2. NoLostDelivery'
        BY <1>c DEF NoLostDelivery, Alive, Current, TypeOK
    <2> QED BY <2>1, <2>2
<1>6. ASSUME NEW id \in Ids, DrainReceive(id) PROVE QueueInv'
    <2> USE <1>6 DEF DrainReceive, rowVars, workerVars
    <2>1. Grounded' /\ SettledIsPast'
        BY DEF Grounded, SettledIsPast, Exists, Past
    <2>2. NoLostDelivery'
        BY DEF NoLostDelivery, Alive, Current
    <2> QED BY <2>1, <2>2
<1>7. ASSUME NEW w \in Workers, NEW id \in Ids, SendInline(w, id) \/ Receive(w, id)
      PROVE  QueueInv'
    <2>0. /\ pc[w] = "idle" /\ pc' = [pc EXCEPT ![w] = "claim"] /\ job' = [job EXCEPT ![w] = id]
          /\ (toEnqueue' = toEnqueue /\ place[id] = "queue")
                \/ (~queueOn /\ id \in toEnqueue /\ toEnqueue' = toEnqueue \ {id})
          /\ UNCHANGED <<queueOn, status, sendEpoch, orphans, place, drainPc, drainJob>>
        BY <1>7 DEF SendInline, Receive, rowVars, queueVars, drainVars
    <2>1. Grounded'
        BY <2>0, <1>b, <1>d DEF Grounded, TypeOK
    <2>2. SettledIsPast'
        BY <2>0, <1>b, <1>d DEF SettledIsPast, TypeOK
    <2>3. NoLostDelivery'
        BY <2>0, <1>c DEF NoLostDelivery, Alive, Current, TypeOK
    <2> QED BY <2>1, <2>2, <2>3
<1>8. ASSUME NEW w \in Workers, NEW step \in Steps \ {"idle", "settled"},
             pc[w] # "idle", pc' = [pc EXCEPT ![w] = step],
             UNCHANGED <<queueOn, status, sendEpoch, toEnqueue, orphans, place, job, drainPc, drainJob>>
      PROVE  QueueInv'
    <2>1. Grounded' /\ SettledIsPast'
        BY <1>8 DEF Grounded, SettledIsPast, Exists, Past, TypeOK
    <2>2. NoLostDelivery'
        BY <1>8 DEF NoLostDelivery, Alive, Current, TypeOK
    <2> QED BY <2>1, <2>2
<1>9. ASSUME NEW w \in Workers, Throw(w), pc[w] # "idle",
             UNCHANGED <<queueOn, status, sendEpoch, toEnqueue, place, job, drainPc, drainJob>>
      PROVE  QueueInv'
    <2> USE <1>9 DEF Throw, Goto
    <2>1. Grounded' /\ SettledIsPast'
        BY DEF Grounded, SettledIsPast, Exists, Past, TypeOK
    <2>2. NoLostDelivery'
        BY DEF NoLostDelivery, Alive, Current, TypeOK
    <2> QED BY <2>1, <2>2
<1>10. ASSUME NEW w \in Workers, pc[w] # "idle", pc' = [pc EXCEPT ![w] = "settled"], Past(job[w])',
              \A d \in Deliveries : status'[d] = "PENDING" => status[d] = "PENDING",
              UNCHANGED <<queueOn, sendEpoch, toEnqueue, orphans, place, job, drainPc, drainJob>>
       PROVE  QueueInv'
    <2>0. \A d \in Deliveries : status'[d] = "none" => status[d] = "none"
        BY RowStep
    <2>1. Grounded'
        BY <1>10, <1>b, <1>d, <2>0 DEF Grounded, TypeOK
    <2>2. SettledIsPast'
        BY <1>10, <1>b, <1>d DEF SettledIsPast, TypeOK
    <2>3. NoLostDelivery'
        BY <1>10 DEF NoLostDelivery, Alive, Current, TypeOK
    <2> QED BY <2>1, <2>2, <2>3
<1>11. ASSUME NEW w \in Workers, DeleteMessage(w) PROVE QueueInv'
    <2> USE <1>11 DEF DeleteMessage, Goto, rowVars, drainVars
    <2>1. Past(job[w])
        BY DEF SettledIsPast
    <2>2. Grounded' /\ SettledIsPast'
        BY <1>b, <1>d DEF Grounded, SettledIsPast, TypeOK
    <2>3. NoLostDelivery'
        <3> SUFFICES ASSUME NEW d \in Deliveries, status[d] = "PENDING", Current(d) \notin orphans
                     PROVE  Alive(Current(d))'
            BY DEF NoLostDelivery, Current
        <3>1. Current(d) # job[w]
            BY <2>1, <1>c, EmailAssumption DEF Past, Exists, TypeOK
        <3>2. Alive(Current(d))
            BY DEF NoLostDelivery
        <3> QED BY <3>1, <3>2, <1>c DEF Alive, Current, TypeOK
    <2> QED BY <2>2, <2>3
<1>12. ASSUME NEW w \in Workers, WorkerStep(w) \/ Crash(w) PROVE QueueInv'
    <2> USE DEF rowVars, queueVars, drainVars, mailVars, Goto, Steps, Holding
    <2>1. CASE Claim(w)
        BY <2>1, <1>8 DEF Claim
    <2>2. CASE ClaimMatchesNoRow(w)
        BY <2>2, <1>8 DEF ClaimMatchesNoRow
    <2>3. CASE LookTerminal(w)
        <3>1. Exists(job[w])
            BY <2>3 DEF LookTerminal, Grounded
        <3>2. Past(job[w])'
            BY <2>3, <3>1, <1>b, <1>d DEF LookTerminal, Past
        <3> QED BY <2>3, <3>2, <1>10 DEF LookTerminal
    <2>4. CASE LookDeferred(w) \/ QueryFails(w) \/ Release(w) \/ EndingFails(w) \/ Crash(w)
        BY <2>4, <1>9 DEF LookDeferred, QueryFails, Release, EndingFails, Crash
    <2>5. CASE ProviderAccepts(w) \/ ProviderRefuses(w)
        BY <2>5, <1>8 DEF ProviderAccepts, ProviderRefuses
    <2>6. CASE RecordSent(w)
        <3>1. Exists(job[w])
            BY <2>6 DEF RecordSent, Grounded
        <3>2. Past(job[w])'
            BY <2>6, <3>1, <1>b, <1>d DEF RecordSent, Past, TypeOK
        <3>3. \A d \in Deliveries : status'[d] = "PENDING" => status[d] = "PENDING"
            BY <2>6 DEF RecordSent, TypeOK
        <3> QED BY <2>6, <3>2, <3>3, <1>10 DEF RecordSent
    <2>7. CASE RecordSentFails(w)
        BY <2>7, <1>8 DEF RecordSentFails
    <2>8. CASE RecordRejected(w)
        <3>1. Exists(job[w]) /\ MarkFailed(Row(job[w])) /\ Row(job[w]) \in Deliveries
            BY <2>8, <1>d DEF RecordRejected, Grounded
        <3>2. Past(job[w])'
            BY <2>8, <3>1, <1>b, <1>d, MarkFailedEffect DEF RecordRejected, Past
        <3>3. \A d \in Deliveries : status'[d] = "PENDING" => status[d] = "PENDING"
            BY <3>1, MarkFailedEffect
        <3> QED BY <2>8, <3>2, <3>3, <1>10 DEF RecordRejected
    <2>9. CASE DeleteMessage(w)
        BY <2>9, <1>11
    <2> QED
        BY <1>12, <2>1, <2>2, <2>3, <2>4, <2>5, <2>6, <2>7, <2>8, <2>9 DEF WorkerStep
<1>13. CASE DrainSettle
    <2> USE <1>13 DEF DrainSettle, queueVars, workerVars
    <2>1. Exists(drainJob) /\ MarkFailed(Row(drainJob)) /\ Row(drainJob) \in Deliveries /\ drainJob \in Ids
        BY IdFacts DEF Grounded, TypeOK
    <2>2. Past(drainJob)'
        BY <2>1, <1>b, MarkFailedEffect DEF Past
    <2>3. \A d \in Deliveries : /\ status'[d] = "PENDING" => status[d] = "PENDING"
                                /\ status'[d] = "none" => status[d] = "none"
        BY <2>1, MarkFailedEffect
    <2>7. /\ queueOn' = queueOn /\ sendEpoch' = sendEpoch /\ toEnqueue' = toEnqueue
          /\ orphans' = orphans /\ place' = place /\ pc' = pc /\ job' = job
        OBVIOUS
    <2>4. Grounded'
        BY <1>b, <1>d, <2>1, <2>3 DEF Grounded, TypeOK
    <2>5. SettledIsPast'
        BY <1>b, <1>d, <2>2 DEF SettledIsPast, TypeOK
    <2>6. NoLostDelivery'
        <3>1. ASSUME NEW d \in Deliveries, status'[d] = "PENDING", Current(d)' \notin orphans'
              PROVE  Alive(Current(d))'
            <4>1. status[d] = "PENDING" /\ Current(d) \notin orphans
                BY <3>1, <2>3, <2>7 DEF Current
            <4>2. Alive(Current(d))
                BY <4>1 DEF NoLostDelivery
            <4> QED BY <4>2, <2>7, <1>c DEF Alive, Current, TypeOK
        <3> QED BY <3>1, Zenon DEF NoLostDelivery
    <2> QED BY <2>4, <2>5, <2>6
<1>14. CASE DrainDelete
    <2> USE <1>14 DEF DrainDelete, rowVars, workerVars
    <2>1. Past(drainJob) /\ drainJob \in Ids
        BY DEF SettledIsPast, TypeOK
    <2>2. Grounded' /\ SettledIsPast'
        BY <1>b, <1>d, <2>1 DEF Grounded, SettledIsPast, TypeOK
    <2>3. NoLostDelivery'
        <3> SUFFICES ASSUME NEW d \in Deliveries, status[d] = "PENDING", Current(d) \notin orphans
                     PROVE  Alive(Current(d))'
            BY DEF NoLostDelivery, Current
        <3>1. Current(d) # drainJob
            BY <2>1, <1>c, EmailAssumption DEF Past, Exists, TypeOK
        <3>2. Alive(Current(d))
            BY DEF NoLostDelivery
        <3> QED BY <3>1, <3>2, <1>c DEF Alive, Current, TypeOK
    <2> QED BY <2>2, <2>3
<1>15. CASE DrainFails
    <2> USE <1>15 DEF DrainFails, rowVars, queueVars, workerVars
    <2>1. Grounded' /\ SettledIsPast'
        BY DEF Grounded, SettledIsPast, Exists, Past
    <2>2. NoLostDelivery'
        BY DEF NoLostDelivery, Alive, Current
    <2> QED BY <2>1, <2>2
<1>16. ASSUME NEW id \in Ids, Reappear(id) PROVE QueueInv'
    BY <1>16, QueueFrame DEF Reappear, rowVars, workerVars, drainVars
<1>17. ASSUME NEW d \in Deliveries, LeaseWindowEnds(d) PROVE QueueInv'
    BY <1>17, QueueFrame DEF LeaseWindowEnds, queueVars, drainVars
<1>18. CASE UNCHANGED vars
    BY <1>18, QueueFrame DEF vars, rowVars, queueVars, workerVars, drainVars
<1> QED
    BY <1>1, <1>2, <1>3, <1>4, <1>5, <1>6, <1>7, <1>12, <1>13, <1>14, <1>15, <1>16, <1>17, <1>18
       DEF Next

\* A PENDING delivery is never forgotten, for any number of workers, requeues
\* and receives: "skipped" and "failed" delete only messages no longer needed.
THEOREM NothingLost == Spec => []NoLostDelivery
<1>1. QueueInv => NoLostDelivery
    BY DEF QueueInv
<1> QED
    BY <1>1, TypeCorrect, QueueInit, QueueStep, PTL DEF Spec

-----------------------------------------------------------------------------
(* Exclusion, when a send ends within its lease: whoever holds a row keeps    *)
(* its last attempt recent, and its claim set for as long as it is PENDING.   *)

HeldIsFenced ==
    \A w \in Workers : pc[w] \in Holding =>
        LET d == Row(job[w]) IN recent[d] /\ (status[d] = "PENDING" => claimed[d])

LeaseInv == HeldIsFenced /\ NoConcurrentSends

LEMMA LeaseInit == Init => LeaseInv
BY DEF Init, LeaseInv, HeldIsFenced, NoConcurrentSends, Holding

LEMMA LeaseStep ==
    ~SendsMayOutliveLease /\ TypeOK /\ Grounded /\ LeaseInv /\ [Next]_vars => LeaseInv'
<1> SUFFICES ASSUME ~SendsMayOutliveLease, TypeOK, Grounded, LeaseInv, [Next]_vars
             PROVE  LeaseInv'
    OBVIOUS
<1>a. \A w \in Workers : job[w] \in Ids /\ Row(job[w]) \in Deliveries
    BY IdFacts DEF TypeOK
<1> USE DEF LeaseInv, HeldIsFenced, NoConcurrentSends
\* No worker starts to hold a row, and a held row keeps its fence.
<1>b. ASSUME \A w \in Workers : pc'[w] \in Holding =>
                 /\ pc[w] \in Holding
                 /\ job'[w] = job[w]
                 /\ LET d == Row(job[w]) IN
                    /\ recent'[d] = recent[d]
                    /\ \/ status'[d] # "PENDING"
                       \/ status'[d] = status[d] /\ claimed'[d] = claimed[d]
      PROVE  LeaseInv'
    BY <1>b, <1>a
<1>1. ASSUME NEW d \in Deliveries, Dispatch(d) PROVE LeaseInv'
    BY <1>1, <1>a, <1>b DEF Dispatch, Grounded, Exists, Holding, TypeOK, workerVars
<1>2. ASSUME NEW d \in Deliveries, Requeue(d) PROVE LeaseInv'
    BY <1>2, <1>a, <1>b DEF Requeue, Requeueable, TypeOK, workerVars
<1>3. ASSUME NEW d \in Deliveries, LeaseWindowEnds(d) PROVE LeaseInv'
    BY <1>3, <1>a, <1>b DEF LeaseWindowEnds, TypeOK
<1>4. ASSUME NEW id \in Ids,
             SendMessage(id) \/ EnqueueFails(id) \/ Redrive(id) \/ Reappear(id) \/ DrainReceive(id)
      PROVE  LeaseInv'
    BY <1>4, <1>b DEF SendMessage, EnqueueFails, Redrive, Reappear, DrainReceive, rowVars, workerVars
<1>5. ASSUME NEW w \in Workers, NEW id \in Ids, SendInline(w, id) \/ Receive(w, id)
      PROVE  LeaseInv'
    BY <1>5, <1>b DEF SendInline, Receive, rowVars, Holding, TypeOK
<1>6. ASSUME NEW w \in Workers, Claim(w) PROVE LeaseInv'
    <2> USE <1>6 DEF Claim, Claimable, Goto
    <2>1. \A x \in Workers : pc[x] \in Holding => Row(job[x]) # Row(job[w])
        OBVIOUS
    <2>2. HeldIsFenced'
        BY <1>a, <2>1 DEF TypeOK
    <2>3. NoConcurrentSends'
        BY <1>a, <2>1 DEF TypeOK
    <2> QED BY <2>2, <2>3
<1>7. ASSUME NEW w \in Workers, pc[w] \in Holding, NEW step \in Steps, pc' = [pc EXCEPT ![w] = step],
             UNCHANGED <<job, recent>>,
             \A d \in Deliveries \ {Row(job[w])} : status'[d] = status[d] /\ claimed'[d] = claimed[d],
             UNCHANGED <<status, claimed>> \/ step \notin Holding
      PROVE  LeaseInv'
    BY <1>7, <1>a, <1>b DEF TypeOK
<1>8. ASSUME NEW w \in Workers, NEW step \in Steps \ Holding, pc' = [pc EXCEPT ![w] = step],
             UNCHANGED <<job, recent, status, claimed>>
      PROVE  LeaseInv'
    BY <1>8, <1>a, <1>b DEF TypeOK
<1>9. ASSUME NEW w \in Workers, WorkerStep(w) \/ Crash(w), ~Claim(w) PROVE LeaseInv'
    <2> USE DEF rowVars, Goto, Steps, Holding
    <2>1. CASE ClaimMatchesNoRow(w) \/ LookTerminal(w) \/ DeleteMessage(w)
        BY <2>1, <1>8 DEF ClaimMatchesNoRow, LookTerminal, DeleteMessage
    <2>2. CASE LookDeferred(w) \/ QueryFails(w) \/ EndingFails(w) \/ Crash(w)
        BY <2>2, <1>8 DEF LookDeferred, QueryFails, EndingFails, Crash, Throw
    <2>3. CASE ProviderAccepts(w) \/ ProviderRefuses(w) \/ RecordSentFails(w)
        BY <2>3, <1>7 DEF ProviderAccepts, ProviderRefuses, RecordSentFails
    <2>4. CASE RecordSent(w)
        BY <2>4, <1>7, <1>a DEF RecordSent, TypeOK
    <2>5. CASE RecordRejected(w)
        <3>1. MarkFailed(Row(job[w])) /\ Row(job[w]) \in Deliveries
            BY <2>5, <1>a DEF RecordRejected
        <3>2. \A d \in Deliveries \ {Row(job[w])} : status'[d] = status[d] /\ claimed'[d] = claimed[d]
            BY <3>1, MarkFailedEffect
        <3> QED BY <2>5, <3>2, <1>7 DEF RecordRejected
    <2>6. CASE Release(w)
        BY <2>6, <1>7, <1>a DEF Release, Throw, TypeOK
    <2> QED
        BY <1>9, <2>1, <2>2, <2>3, <2>4, <2>5, <2>6 DEF WorkerStep
<1>10. CASE DrainSettle
    <2>1. MarkFailed(Row(drainJob)) /\ Row(drainJob) \in Deliveries
        BY <1>10, IdFacts DEF DrainSettle, TypeOK
    <2>2. \A d \in Deliveries : status'[d] = "PENDING" => status'[d] = status[d] /\ claimed'[d] = claimed[d]
        BY <2>1, MarkFailedEffect
    <2> QED BY <1>10, <2>2, <1>a, <1>b DEF DrainSettle, workerVars
<1>11. CASE DrainDelete \/ DrainFails \/ UNCHANGED vars
    BY <1>11, <1>b DEF DrainDelete, DrainFails, vars, rowVars, workerVars
<1> QED
    BY <1>1, <1>2, <1>3, <1>4, <1>5, <1>6, <1>9, <1>10, <1>11 DEF Next

\* As long as every send ends within its lease, two attempts never send for the
\* same row at once, even though the DLQ drain and a requeue ignore the lease.
THEOREM SendsExclude == ~SendsMayOutliveLease /\ Spec => []NoConcurrentSends
<1> SUFFICES ASSUME ~SendsMayOutliveLease
             PROVE  Spec => []NoConcurrentSends
    OBVIOUS
<1>1. LeaseInv => NoConcurrentSends
    BY DEF LeaseInv
<1>2. QueueInv => Grounded
    BY DEF QueueInv
<1>3. TypeOK /\ Grounded /\ LeaseInv /\ [Next]_vars => LeaseInv'
    BY LeaseStep
<1> QED
    BY <1>1, <1>2, <1>3, TypeCorrect, QueueInit, QueueStep, LeaseInit, PTL DEF Spec

-----------------------------------------------------------------------------
(* Emails: the provider counts one per key, and a row's keys are epochs it    *)
(* has reached.                                                               *)

SentEpochs(d) == {e \in 0..MaxEpoch : <<d, e>> \in keys}

MailInv ==
    /\ \A w \in Workers : pc[w] \in Holding => epoch[w] <= sendEpoch[Row(job[w])]
    /\ \A d \in Deliveries : \A e \in SentEpochs(d) : e <= sendEpoch[d]
    /\ \A d \in Deliveries : inbox[d] = Cardinality(SentEpochs(d))
    /\ \A w \in Workers : pc[w] = "accepted" => inbox[Row(job[w])] > 0

LEMMA SentEpochsFinite ==
    ASSUME EmailAssumption, NEW d
    PROVE  IsFiniteSet(SentEpochs(d)) /\ Cardinality(SentEpochs(d)) \in Nat
<1>1. IsFiniteSet(0..MaxEpoch)
    BY FS_Interval, EmailAssumption
<1> QED
    BY <1>1, FS_Subset, FS_CardinalityType DEF SentEpochs

LEMMA MailInvBounds == TypeOK /\ MailInv => AtMostOneEmailPerEpoch
<1> SUFFICES ASSUME TypeOK, MailInv, NEW d \in Deliveries
             PROVE  inbox[d] <= sendEpoch[d] + 1
    BY DEF AtMostOneEmailPerEpoch
<1>1. sendEpoch[d] \in Nat
    BY EmailAssumption DEF TypeOK
<1>2. SentEpochs(d) \subseteq 0..sendEpoch[d]
    BY <1>1, EmailAssumption DEF MailInv, SentEpochs
<1>3. IsFiniteSet(0..sendEpoch[d]) /\ Cardinality(0..sendEpoch[d]) = sendEpoch[d] + 1
    BY <1>1, FS_Interval
<1>4. Cardinality(SentEpochs(d)) <= sendEpoch[d] + 1
    BY <1>2, <1>3, FS_Subset
<1> QED
    BY <1>4 DEF MailInv

LEMMA MailInit == Init => MailInv
<1> SUFFICES ASSUME Init PROVE MailInv
    OBVIOUS
<1>1. \A d \in Deliveries : SentEpochs(d) = {}
    BY DEF Init, SentEpochs
<1> QED
    BY <1>1, FS_EmptySet DEF Init, MailInv, Holding

LEMMA MailStep == TypeOK /\ MailInv /\ [Next]_vars => MailInv'
<1> SUFFICES ASSUME TypeOK, MailInv, [Next]_vars
             PROVE  MailInv'
    OBVIOUS
<1>a. \A w \in Workers : job[w] \in Ids /\ Row(job[w]) \in Deliveries
    BY IdFacts DEF TypeOK
<1>b. \A d \in Deliveries : /\ sendEpoch[d] \in Nat /\ sendEpoch'[d] \in Nat
                           /\ sendEpoch'[d] >= sendEpoch[d]
    BY RowStep, TypeStep, EmailAssumption DEF TypeOK
<1>c. \A w \in Workers : epoch[w] \in 0..MaxEpoch /\ epoch[w] \in Nat
    BY EmailAssumption DEF TypeOK
\* Steps without mail, in which a worker's attempt may only end or wait.
<1>d. ASSUME UNCHANGED <<keys, inbox>>,
             \A w \in Workers :
                 /\ pc'[w] \in Holding =>
                        pc[w] \in Holding /\ job'[w] = job[w] /\ epoch'[w] = epoch[w]
                 /\ pc'[w] = "accepted" => pc[w] = "accepted" /\ job'[w] = job[w]
      PROVE  MailInv'
    <2>1. \A d : SentEpochs(d)' = SentEpochs(d)
        BY <1>d DEF SentEpochs
    <2>2. \A e, d : e \in SentEpochs(d) => e \in Nat
        BY EmailAssumption DEF SentEpochs
    <2>3. \A w \in Workers : pc'[w] \in Holding => epoch'[w] <= sendEpoch'[Row(job'[w])]
        BY <1>a, <1>b, <1>c, <1>d DEF MailInv
    <2>4. \A d \in Deliveries : \A e \in SentEpochs(d) : e <= sendEpoch'[d]
        BY <1>b, <2>2 DEF MailInv
    <2> QED BY <1>d, <2>1, <2>3, <2>4 DEF MailInv
<1>1. ASSUME NEW d \in Deliveries, Dispatch(d) \/ Requeue(d) \/ LeaseWindowEnds(d)
      PROVE  MailInv'
    BY <1>1, <1>d DEF Dispatch, Requeue, LeaseWindowEnds, workerVars, mailVars
<1>2. ASSUME NEW id \in Ids,
             SendMessage(id) \/ EnqueueFails(id) \/ Redrive(id) \/ Reappear(id) \/ DrainReceive(id)
      PROVE  MailInv'
    BY <1>2, <1>d DEF SendMessage, EnqueueFails, Redrive, Reappear, DrainReceive, workerVars, mailVars
<1>3. ASSUME NEW w \in Workers, NEW id \in Ids, SendInline(w, id) \/ Receive(w, id)
      PROVE  MailInv'
    BY <1>3, <1>d DEF SendInline, Receive, mailVars, Holding, TypeOK
<1>4. ASSUME NEW w \in Workers, NEW step \in Steps, pc' = [pc EXCEPT ![w] = step],
             UNCHANGED <<job, epoch, keys, inbox>>,
             step \in Holding => pc[w] \in Holding, step # "accepted"
      PROVE  MailInv'
    BY <1>4, <1>d DEF TypeOK
<1>5. ASSUME NEW w \in Workers, WorkerStep(w) \/ Crash(w), ~Claim(w), ~ProviderAccepts(w)
      PROVE  MailInv'
    <2> USE DEF mailVars, Goto, Steps, Holding
    <2>1. CASE ClaimMatchesNoRow(w) \/ LookTerminal(w) \/ DeleteMessage(w) \/ RecordSentFails(w)
        BY <2>1, <1>4 DEF ClaimMatchesNoRow, LookTerminal, DeleteMessage, RecordSentFails
    <2>2. CASE LookDeferred(w) \/ QueryFails(w) \/ Release(w) \/ EndingFails(w) \/ Crash(w)
        BY <2>2, <1>4 DEF LookDeferred, QueryFails, Release, EndingFails, Crash, Throw
    <2>3. CASE ProviderRefuses(w) \/ RecordSent(w) \/ RecordRejected(w)
        BY <2>3, <1>4 DEF ProviderRefuses, RecordSent, RecordRejected
    <2> QED
        BY <1>5, <2>1, <2>2, <2>3 DEF WorkerStep
<1>6. ASSUME NEW w \in Workers, Claim(w) PROVE MailInv'
    <2> USE <1>6 DEF Claim, Goto, mailVars, Holding
    <2>1. \A d : SentEpochs(d)' = SentEpochs(d)
        BY DEF SentEpochs
    <2>2. \A x \in Workers : pc'[x] \in Holding => epoch'[x] <= sendEpoch'[Row(job'[x])]
        BY <1>a, <1>b DEF MailInv, TypeOK
    <2>3. \A x \in Workers : pc'[x] = "accepted" => inbox'[Row(job'[x])] > 0
        BY DEF MailInv, TypeOK
    <2> QED BY <2>1, <2>2, <2>3 DEF MailInv
<1>7. ASSUME NEW w \in Workers, ProviderAccepts(w) PROVE MailInv'
    <2> DEFINE d == Row(job[w])
    <2> USE <1>7 DEF ProviderAccepts, EmailKey, Goto, rowVars
    <2>1. \A x \in Deliveries \ {d} : SentEpochs(x)' = SentEpochs(x)
        BY DEF SentEpochs
    <2>2. SentEpochs(d)' = SentEpochs(d) \cup {epoch[w]}
        BY <1>a, <1>c DEF SentEpochs
    <2>3. epoch[w] \in SentEpochs(d) <=> <<d, epoch[w]>> \in keys
        BY <1>c DEF SentEpochs
    <2>4. inbox'[d] = Cardinality(SentEpochs(d) \cup {epoch[w]}) /\ inbox'[d] > 0
        <3>1. inbox[d] = Cardinality(SentEpochs(d)) /\ IsFiniteSet(SentEpochs(d)) /\ inbox[d] \in Nat
            BY <1>a, SentEpochsFinite, EmailAssumption DEF MailInv
        <3>2. CASE epoch[w] \in SentEpochs(d)
            <4>1. SentEpochs(d) # {} /\ SentEpochs(d) \cup {epoch[w]} = SentEpochs(d)
                BY <3>2
            <4>2. Cardinality(SentEpochs(d)) # 0
                BY <3>1, <4>1, FS_EmptySet
            <4>3. inbox' = inbox
                BY <2>3, <3>2
            <4>4. inbox[d] > 0
                BY <3>1, <4>2
            <4> QED BY <3>1, <4>1, <4>3, <4>4
        <3>3. CASE epoch[w] \notin SentEpochs(d)
            <4>1. Cardinality(SentEpochs(d) \cup {epoch[w]}) = inbox[d] + 1
                BY <3>1, <3>3, FS_AddElement
            <4> QED BY <3>1, <3>3, <2>3, <4>1, <1>a DEF TypeOK
        <3> QED BY <3>2, <3>3
    <2>5. \A x \in Deliveries \ {d} : inbox'[x] = inbox[x]
        BY <1>a DEF TypeOK
    <2>6. \A x \in Workers : pc'[x] \in Holding => epoch'[x] <= sendEpoch'[Row(job'[x])]
        BY <1>a DEF MailInv, TypeOK, Holding
    <2>7. \A x \in Deliveries : \A e \in SentEpochs(x)' : e <= sendEpoch'[x]
        BY <1>a, <2>1, <2>2 DEF MailInv, Holding
    <2>8. \A x \in Deliveries : inbox'[x] = Cardinality(SentEpochs(x)')
        BY <2>1, <2>2, <2>4, <2>5 DEF MailInv
    <2>9. \A x \in Workers : pc'[x] = "accepted" => inbox'[Row(job'[x])] > 0
        BY <1>a, <2>4, <2>5 DEF MailInv, TypeOK
    <2> QED BY <2>6, <2>7, <2>8, <2>9 DEF MailInv
<1>8. CASE DrainSettle \/ DrainDelete \/ DrainFails \/ UNCHANGED vars
    BY <1>8, <1>d DEF DrainSettle, DrainDelete, DrainFails, vars, workerVars, mailVars
<1> QED
    BY <1>1, <1>2, <1>3, <1>5, <1>6, <1>7, <1>8 DEF Next

\* The recipient gets at most one email per send epoch, however sends are retried.
THEOREM OneEmailPerEpoch == Spec => []AtMostOneEmailPerEpoch
BY TypeCorrect, MailInit, MailStep, MailInvBounds, PTL DEF Spec

-----------------------------------------------------------------------------
(* Refinement of EmailPromise.                                                *)

LEMMA PromiseInit == Init => Promise!Init
BY DEF Init, Promise!Init

LEMMA PromiseStep ==
    TypeOK /\ Grounded /\ MailInv /\ MailInv' /\ [Next]_vars => [Promise!Next]_(Promise!vars)
<1> SUFFICES ASSUME TypeOK, Grounded, MailInv, MailInv', [Next]_vars
             PROVE  [Promise!Next]_(Promise!vars)
    OBVIOUS
<1> USE DEF Promise!Next, Promise!vars
<1>a. \A w \in Workers : job[w] \in Ids /\ Row(job[w]) \in Deliveries
    BY IdFacts DEF TypeOK
<1>b. ASSUME UNCHANGED <<status, sendEpoch, inbox>>
      PROVE  [Promise!Next]_(Promise!vars)
    BY <1>b
\* A row marked FAILED gives up, or was already FAILED or SENT.
<1>c. ASSUME NEW d \in Deliveries, MarkFailed(d), status[d] # "none", UNCHANGED <<sendEpoch, inbox>>
      PROVE  [Promise!Next]_(Promise!vars)
    <2>1. CASE status[d] = "PENDING"
        <3>1. Promise!GiveUp(d)
            BY <1>c, <2>1 DEF MarkFailed, Promise!GiveUp
        <3> QED BY <3>1
    <2>2. CASE status[d] = "FAILED"
        BY <1>b, <1>c, <2>2 DEF MarkFailed, TypeOK
    <2>3. CASE status[d] = "SENT"
        BY <1>b, <1>c, <2>3 DEF MarkFailed
    <2> QED BY <1>c, <2>1, <2>2, <2>3 DEF TypeOK, Statuses
<1>1. ASSUME NEW d \in Deliveries, Dispatch(d) PROVE Promise!Create(d)
    BY <1>1 DEF Dispatch, mailVars, Promise!Create
<1>2. ASSUME NEW d \in Deliveries, Requeue(d) PROVE Promise!Reopen(d)
    BY <1>2 DEF Requeue, Requeueable, mailVars, Promise!Reopen
<1>3. ASSUME NEW d \in Deliveries, LeaseWindowEnds(d) PROVE [Promise!Next]_(Promise!vars)
    BY <1>3, <1>b DEF LeaseWindowEnds, mailVars
<1>4. ASSUME NEW id \in Ids,
             SendMessage(id) \/ EnqueueFails(id) \/ Redrive(id) \/ Reappear(id) \/ DrainReceive(id)
      PROVE  [Promise!Next]_(Promise!vars)
    BY <1>4, <1>b DEF SendMessage, EnqueueFails, Redrive, Reappear, DrainReceive, rowVars, mailVars
<1>5. ASSUME NEW w \in Workers, NEW id \in Ids, SendInline(w, id) \/ Receive(w, id)
      PROVE  [Promise!Next]_(Promise!vars)
    BY <1>5, <1>b DEF SendInline, Receive, rowVars, mailVars
<1>6. ASSUME NEW w \in Workers, ProviderAccepts(w) PROVE [Promise!Next]_(Promise!vars)
    <2> DEFINE d == Row(job[w])
    <2>1. CASE inbox' = inbox
        BY <1>6, <2>1, <1>b DEF ProviderAccepts, rowVars
    <2>2. CASE inbox' # inbox
        <3>1. inbox' = [inbox EXCEPT ![d] = @ + 1] /\ UNCHANGED <<status, sendEpoch>> /\ pc[w] = "sending"
            BY <1>6, <2>2 DEF ProviderAccepts, rowVars
        <3>2. inbox'[d] <= sendEpoch'[d] + 1
            <4>1. TypeOK'
                BY TypeStep
            <4>2. AtMostOneEmailPerEpoch'
                BY <4>1, MailInvBounds, PTL
            <4> QED BY <4>2, <1>a DEF AtMostOneEmailPerEpoch
        <3>3. inbox[d] <= sendEpoch[d]
            <4>1. inbox'[d] = inbox[d] + 1 /\ sendEpoch'[d] = sendEpoch[d]
                BY <1>a, <3>1 DEF TypeOK
            <4>2. inbox[d] \in Nat /\ sendEpoch[d] \in Nat
                BY <1>a, EmailAssumption DEF TypeOK
            <4> QED BY <4>1, <4>2, <3>2
        <3>5. status[d] # "none"
            BY <3>1 DEF Grounded, Exists
        <3>4. Promise!GoOut(d)
            BY <3>1, <3>3, <3>5 DEF Promise!GoOut
        <3> QED BY <1>a, <3>4
    <2> QED BY <2>1, <2>2
<1>7. ASSUME NEW w \in Workers, RecordSent(w) PROVE [Promise!Next]_(Promise!vars)
    <2> DEFINE d == Row(job[w])
    <2>1. pc[w] = "accepted" /\ status' = [status EXCEPT ![d] = "SENT"] /\ UNCHANGED <<sendEpoch, inbox>>
        BY <1>7 DEF RecordSent, mailVars
    <2>2. inbox[d] > 0 /\ status[d] # "none"
        BY <2>1 DEF MailInv, Grounded, Exists
    <2>3. CASE status[d] = "SENT"
        BY <2>1, <2>3, <1>b DEF TypeOK
    <2>4. CASE status[d] \in {"PENDING", "FAILED"}
        <3>1. Promise!RecordSent(d)
            BY <2>1, <2>2, <2>4 DEF Promise!RecordSent
        <3> QED BY <1>a, <3>1
    <2> QED BY <1>a, <2>2, <2>3, <2>4 DEF TypeOK, Statuses
<1>8. ASSUME NEW w \in Workers, RecordRejected(w) PROVE [Promise!Next]_(Promise!vars)
    BY <1>8, <1>a, <1>c DEF RecordRejected, mailVars, Grounded, Exists
<1>9. ASSUME NEW w \in Workers, WorkerStep(w) \/ Crash(w),
             ~ProviderAccepts(w), ~RecordSent(w), ~RecordRejected(w)
      PROVE  [Promise!Next]_(Promise!vars)
    BY <1>9, <1>b DEF WorkerStep, Crash, Claim, ClaimMatchesNoRow, LookTerminal, LookDeferred,
        QueryFails, ProviderRefuses, RecordSentFails, Release, EndingFails, DeleteMessage,
        rowVars, mailVars
<1>10. CASE DrainSettle
    <2>1. Row(drainJob) \in Deliveries
        BY IdFacts DEF TypeOK
    <2> QED BY <1>10, <2>1, <1>c DEF DrainSettle, mailVars, Grounded, Exists
<1>11. CASE DrainDelete \/ DrainFails \/ UNCHANGED vars
    BY <1>11, <1>b DEF DrainDelete, DrainFails, vars, rowVars, mailVars
<1> QED
    BY <1>1, <1>2, <1>3, <1>4, <1>5, <1>6, <1>7, <1>8, <1>9, <1>10, <1>11 DEF Next

\* The queue, the workers, the leases and the drain together implement EmailPromise.
THEOREM ImplementsPromise == Spec => KeepsPromise
<1>1. QueueInv => Grounded
    BY DEF QueueInv
<1> QED
    BY <1>1, TypeCorrect, QueueInit, QueueStep, MailInit, MailStep, PromiseInit, PromiseStep, PTL
       DEF Spec, KeepsPromise, Promise!Spec
=============================================================================
