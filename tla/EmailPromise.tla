---------------------------- MODULE EmailPromise ----------------------------
(* What the transactional email subsystem promises for one delivery row,      *)
(* without queues, workers, leases or a provider: the status a reader of      *)
(* email_deliveries sees, the send epoch, and the emails the recipient got.   *)
EXTENDS Naturals

CONSTANT Deliveries        \* the delivery rows ever created

VARIABLES status,          \* email_deliveries.status, "none" before the INSERT
          sendEpoch,       \* email_deliveries.send_epoch
          inbox            \* how many emails of this delivery reached the recipient

vars == <<status, sendEpoch, inbox>>

Init == /\ status = [d \in Deliveries |-> "none"]
        /\ sendEpoch = [d \in Deliveries |-> 0]
        /\ inbox = [d \in Deliveries |-> 0]

Create(d) == /\ status[d] = "none"
             /\ status' = [status EXCEPT ![d] = "PENDING"]
             /\ UNCHANGED <<sendEpoch, inbox>>

\* An email goes out, at most one for the first send and one for each re-send.
GoOut(d) == /\ status[d] # "none"
            /\ inbox[d] <= sendEpoch[d]
            /\ inbox' = [inbox EXCEPT ![d] = @ + 1]
            /\ UNCHANGED <<status, sendEpoch>>

\* SENT is only recorded of an email that went out, and may correct a FAILED.
RecordSent(d) == /\ status[d] \in {"PENDING", "FAILED"}
                 /\ inbox[d] > 0
                 /\ status' = [status EXCEPT ![d] = "SENT"]
                 /\ UNCHANGED <<sendEpoch, inbox>>

GiveUp(d) == /\ status[d] = "PENDING"
             /\ status' = [status EXCEPT ![d] = "FAILED"]
             /\ UNCHANGED <<sendEpoch, inbox>>

Reopen(d) == /\ status[d] = "FAILED"
             /\ status' = [status EXCEPT ![d] = "PENDING"]
             /\ sendEpoch' = [sendEpoch EXCEPT ![d] = @ + 1]
             /\ UNCHANGED inbox

Next == \E d \in Deliveries :
            Create(d) \/ GoOut(d) \/ RecordSent(d) \/ GiveUp(d) \/ Reopen(d)

Spec == Init /\ [][Next]_vars
=============================================================================
